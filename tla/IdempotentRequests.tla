------------------------- MODULE IdempotentRequests -------------------------
(***************************************************************************)
(* The idempotency protocol of the API around one storage key: the router  *)
(* claims the key, runs the controller, and completes or releases          *)
(* (routes.ts, idempotency/guard.ts, idempotency/store.ts).                *)
(*                                                                         *)
(* An attempt is one HTTP request that carries the key.  Attempts come     *)
(* from one client retrying, or reusing the key for another request, which *)
(* the fingerprint tells apart.  Each Redis script is atomic; the call of  *)
(* one may fail, and it may then have run or not.                          *)
(***************************************************************************)
EXTENDS Naturals, FiniteSets

CONSTANTS
    Attempts,
    Fingerprints,
    FingerprintOf,      \* the request each attempt makes
    MaxFaults           \* bound: store calls that fail and processes that die

ASSUME FingerprintAssumption == FingerprintOf \in [Attempts -> Fingerprints]
ASSUME AttemptsAssumption == IsFiniteSet(Attempts)
ASSUME BoundAssumption == MaxFaults \in Nat

VARIABLES
    record,     \* what the key holds in Redis
    attempt,    \* where each attempt is, and how it ended
    window,     \* how often the key has expired
    faults

vars == <<record, attempt, window, faults>>

-----------------------------------------------------------------------------

Free == [state |-> "free"]

(* A record is by the attempt that claimed it or computed its response. *)
Pending(c) == [state |-> "pending", by |-> c]
Completed(c) == [state |-> "completed", by |-> c]

(* What a controller may come to. *)
Results == {"response", "stream", "thrown"}

Init ==
    /\ record = Free
    /\ attempt = [c \in Attempts |->
          [at |-> "new", result |-> "none", answer |-> "none", of |-> {}, window |-> 0, lost |-> FALSE]]
    /\ window = 0
    /\ faults = 0

(* Between its claim and its settling. *)
InFlight(c) == attempt[c].at \in {"controller", "settle"}

(***************************************************************************)
(* Still at work.  A stream is returned after its first event, and the     *)
(* rest are pulled, and charged for, as they are written: long after the   *)
(* router has settled the key.                                             *)
(***************************************************************************)
Executing(c) == InFlight(c) \/ attempt[c].at = "streaming"

SameRequest(c, d) == FingerprintOf[c] = FingerprintOf[d]

Fault ==
    /\ faults < MaxFaults
    /\ faults' = faults + 1

(* What an answer leaves to do: the rest of a stream. *)
After(a) == IF a = "stream" THEN "streaming" ELSE "answered"

(***************************************************************************)
(* c is answered in this window; of is the attempt whose response it is    *)
(* given, if any.                                                          *)
(***************************************************************************)
Answered(c, a, of) ==
    attempt' = [attempt EXCEPT
        ![c] = [@ EXCEPT !.at = After(a), !.answer = a, !.of = of, !.window = window]]

(* c is answered although the store never confirmed what it was told. *)
AnsweredUnsettled(c, a, of) ==
    attempt' = [attempt EXCEPT
        ![c] = [@ EXCEPT !.at = After(a), !.answer = a, !.of = of, !.window = window, !.lost = TRUE]]

-----------------------------------------------------------------------------
(* begin.                                                                  *)

(* Mutant of Begin: the fingerprint is not compared. *)
BeginByKey(c) ==
    /\ attempt[c].at = "new"
    /\ \/ /\ record = Free
          /\ record' = Pending(c)
          /\ attempt' = [attempt EXCEPT ![c] = [@ EXCEPT !.at = "controller", !.window = window]]
       \/ /\ record.state = "completed"
          /\ Answered(c, "replay", {record.by})
          /\ UNCHANGED record
       \/ /\ record.state = "pending"
          /\ Answered(c, "in progress", {})
          /\ UNCHANGED record
    /\ UNCHANGED <<window, faults>>

(***************************************************************************)
(* CLAIM_SCRIPT takes a free key and otherwise reports what holds it:      *)
(* another request's record is a conflict, a stored response is replayed,  *)
(* and a claim in flight refuses.                                          *)
(***************************************************************************)
Begin(c) ==
    /\ attempt[c].at = "new"
    /\ \/ /\ record = Free
          /\ record' = Pending(c)
          /\ attempt' = [attempt EXCEPT ![c] = [@ EXCEPT !.at = "controller", !.window = window]]
       \/ /\ record # Free /\ ~SameRequest(c, record.by)
          /\ Answered(c, "conflict", {})
          /\ UNCHANGED record
       \/ /\ record.state = "completed" /\ SameRequest(c, record.by)
          /\ Answered(c, "replay", {record.by})
          /\ UNCHANGED record
       \/ /\ record.state = "pending" /\ SameRequest(c, record.by)
          /\ Answered(c, "in progress", {})
          /\ UNCHANGED record
    /\ UNCHANGED <<window, faults>>

(* The call fails: 503, and the key may have been claimed all the same. *)
BeginFails(c) ==
    /\ attempt[c].at = "new"
    /\ Fault
    /\ record' \in {record} \cup (IF record = Free THEN {Pending(c)} ELSE {})
    /\ AnsweredUnsettled(c, "unavailable", {})
    /\ UNCHANGED window

(* The controller returns, or throws: a stream with its first event. *)
Run(c) ==
    /\ attempt[c].at = "controller"
    /\ \E r \in Results :
          attempt' = [attempt EXCEPT ![c] = [@ EXCEPT !.at = "settle", !.result = r]]
    /\ UNCHANGED <<record, window, faults>>

-----------------------------------------------------------------------------
(* Settling.                                                               *)

(* Mutant of CompleteScript: the claim is dropped. *)
CompleteByReleasing(c) ==
    IF record.state = "pending" /\ SameRequest(c, record.by) THEN Free ELSE record

(* COMPLETE_SCRIPT: only over a claim, and only of the same request. *)
CompleteScript(c) ==
    IF record.state = "pending" /\ SameRequest(c, record.by) THEN Completed(c) ELSE record

Complete(c) ==
    /\ attempt[c].at = "settle" /\ attempt[c].result = "response"
    /\ record' = CompleteScript(c)
    /\ Answered(c, "response", {c})
    /\ UNCHANGED <<window, faults>>

(* The store is out of reach; the response is sent anyway. *)
CompleteFails(c) ==
    /\ attempt[c].at = "settle" /\ attempt[c].result = "response"
    /\ Fault
    /\ record' \in {record, CompleteScript(c)}
    /\ AnsweredUnsettled(c, "response", {c})
    /\ UNCHANGED window

(* RELEASE_SCRIPT: any claim, whoever holds it. *)
ReleaseScript == IF record.state = "pending" THEN Free ELSE record

(* Mutant of Release: only a controller that threw releases. *)
ReleaseIfThrown(c) ==
    /\ attempt[c].at = "settle" /\ attempt[c].result \in {"stream", "thrown"}
    /\ record' = IF attempt[c].result = "thrown" THEN ReleaseScript ELSE record
    /\ Answered(c, attempt[c].result, {})
    /\ UNCHANGED <<window, faults>>

(* A controller that threw, and a stream, leave nothing to replay.  The stream *)
(* goes on without its claim.                                                  *)
Release(c) ==
    /\ attempt[c].at = "settle" /\ attempt[c].result \in {"stream", "thrown"}
    /\ record' = ReleaseScript
    /\ Answered(c, attempt[c].result, {})
    /\ UNCHANGED <<window, faults>>

ReleaseFails(c) ==
    /\ attempt[c].at = "settle" /\ attempt[c].result \in {"stream", "thrown"}
    /\ Fault
    /\ record' \in {record, ReleaseScript}
    /\ AnsweredUnsettled(c, attempt[c].result, {})
    /\ UNCHANGED window

-----------------------------------------------------------------------------

(* The last event of a stream, or an in-band failure. *)
EndStream(c) ==
    /\ attempt[c].at = "streaming"
    /\ attempt' = [attempt EXCEPT ![c] = [@ EXCEPT !.at = "answered"]]
    /\ UNCHANGED <<record, window, faults>>

(* The process dies between the claim and the settling, or in a stream. *)
Crash(c) ==
    /\ Executing(c)
    /\ Fault
    /\ AnsweredUnsettled(c, "none", {})
    /\ UNCHANGED <<record, window>>

(* Mutant of Expire: the window ends and the record stays. *)
ExpireInName ==
    /\ record # Free /\ \A c \in Attempts : ~Executing(c)
    /\ window' = window + 1
    /\ UNCHANGED <<record, attempt, faults>>

(* The TTL runs out: a day, in which every request has long ended. *)
Expire ==
    /\ record # Free /\ \A c \in Attempts : ~Executing(c)
    /\ record' = Free
    /\ window' = window + 1
    /\ UNCHANGED <<attempt, faults>>

Next ==
    \/ \E c \in Attempts :
          \/ Begin(c) \/ BeginFails(c) \/ Run(c)
          \/ Complete(c) \/ CompleteFails(c) \/ Release(c) \/ ReleaseFails(c)
          \/ EndStream(c) \/ Crash(c)
    \/ Expire

Spec == Init /\ [][Next]_vars

-----------------------------------------------------------------------------

Answers == {"none", "conflict", "replay", "in progress", "unavailable"} \cup Results

(* Records name an attempt, and attempts are answered in a known way. *)
TypeOK ==
    /\ record \in {Free} \cup [state : {"pending", "completed"}, by : Attempts]
    /\ attempt \in [Attempts ->
          [at : {"new", "controller", "settle", "streaming", "answered"}, result : Results \cup {"none"},
           answer : Answers, of : SUBSET Attempts, window : 0..Cardinality(Attempts),
           lost : BOOLEAN]]
    /\ window \in 0..Cardinality(Attempts)
    /\ faults \in 0..MaxFaults

(***************************************************************************)
(* "Two concurrent duplicates cannot both claim, so exactly one executes": *)
(* until the key expires, the attempts of all requests under it execute    *)
(* one at a time, and once one has produced a response none executes       *)
(* again, not even when that response could not be stored.  The exception  *)
(* is a stream past its first event: the router has released its claim,    *)
(* and a duplicate executes beside it ("streaming" is not InFlight),       *)
(* although routes.ts:357-359 has one refused while the stream is in       *)
(* flight.                                                                 *)
(***************************************************************************)
ExecutesOnce ==
    \A c, d \in Attempts :
        (c # d /\ attempt[c].window = attempt[d].window) =>
            /\ ~(InFlight(c) /\ InFlight(d))
            /\ attempt[c].result = "response" =>
                  ~InFlight(d) /\ attempt[d].result # "response"

(***************************************************************************)
(* "Replay returns the ORIGINAL response": whoever is given a response is  *)
(* given the one its own request produced in this window.                  *)
(***************************************************************************)
ReplaysTheOriginal ==
    \A c \in Attempts : \A d \in attempt[c].of :
        /\ SameRequest(c, d) /\ attempt[d].result = "response"
        /\ attempt[d].window = attempt[c].window

(***************************************************************************)
(* "A claim must not outlive a request that produced nothing": a key is    *)
(* pending only for an attempt in flight, or one whose process died or     *)
(* whose store call failed.                                                *)
(***************************************************************************)
ClaimsAreSettled ==
    record.state = "pending" => InFlight(record.by) \/ attempt[record.by].lost
=============================================================================
