---------------------- MODULE IdempotentRequestsProofs ----------------------
(***************************************************************************)
(* Proofs about IdempotentRequests, for any attempts, requests and faults. *)
(*                                                                         *)
(* The inductive invariant is Safe.  Its heart is that an attempt in       *)
(* flight holds the key (HoldsTheKey), so that nobody else's script can    *)
(* touch the record, and that a response produced in this window still     *)
(* occupies the key (KeepsTheKey), whether or not it could be stored.      *)
(***************************************************************************)
EXTENDS IdempotentRequests, FiniteSetTheorems, TLAPS

Attempt ==
    [at : {"new", "controller", "settle", "streaming", "answered"}, result : Results \cup {"none"},
     answer : Answers, of : SUBSET Attempts, window : Nat, lost : BOOLEAN]

(* TypeOK without its bounds on window and faults. *)
Shape ==
    /\ record \in {Free} \cup [state : {"pending", "completed"}, by : Attempts]
    /\ attempt \in [Attempts -> Attempt]
    /\ window \in Nat

(* Only a controller that has run has a result, and windows are never ahead. *)
Progress ==
    \A c \in Attempts :
        /\ attempt[c].at \in {"new", "controller"} => attempt[c].result = "none"
        /\ attempt[c].at = "streaming" => attempt[c].result = "stream"
        /\ attempt[c].window <= window

(* An attempt that is not over has been given nothing. *)
Unanswered == \A c \in Attempts : attempt[c].at # "answered" => attempt[c].of = {}

HoldsTheKey ==
    \A c \in Attempts : InFlight(c) => record = Pending(c) /\ attempt[c].window = window

KeepsTheKey ==
    \A c \in Attempts :
        (attempt[c].result = "response" /\ attempt[c].window = window) =>
            record \in {Pending(c), Completed(c)}

OneResponse ==
    \A c, d \in Attempts :
        (/\ attempt[c].result = "response" /\ attempt[d].result = "response"
         /\ attempt[c].window = attempt[d].window) => c = d

StoredIsProduced ==
    record.state = "completed" =>
        attempt[record.by].result = "response" /\ attempt[record.by].window = window

Safe ==
    /\ Shape /\ Progress /\ Unanswered /\ HoldsTheKey /\ KeepsTheKey /\ OneResponse
    /\ StoredIsProduced /\ ReplaysTheOriginal /\ ClaimsAreSettled

-----------------------------------------------------------------------------

(* The three kinds of record differ, and name who made them. *)
LEMMA Records ==
    ASSUME NEW c \in Attempts, NEW d \in Attempts
    PROVE  /\ Pending(c) # Free /\ Completed(c) # Free /\ Pending(c) # Completed(d)
           /\ Pending(c) = Pending(d) => c = d
           /\ Completed(c) = Completed(d) => c = d
           /\ Pending(c).state = "pending" /\ Pending(c).by = c
           /\ Completed(c).state = "completed" /\ Completed(c).by = c
           /\ Pending(c) \in [state : {"pending", "completed"}, by : Attempts]
           /\ Completed(c) \in [state : {"pending", "completed"}, by : Attempts]
           /\ Free.state = "free"
<1>1. /\ Pending(c).state = "pending" /\ Pending(c).by = c
      /\ Completed(c).state = "completed" /\ Completed(c).by = c
      /\ Pending(d).by = d /\ Completed(d).by = d /\ Completed(d).state = "completed"
      /\ Free.state = "free"
    BY DEF Pending, Completed, Free
<1>2. /\ Pending(c) \in [state : {"pending", "completed"}, by : Attempts]
      /\ Completed(c) \in [state : {"pending", "completed"}, by : Attempts]
    BY DEF Pending, Completed
<1>3. Pending(c) # Free /\ Completed(c) # Free /\ Pending(c) # Completed(d)
    BY <1>1
<1> QED BY <1>1, <1>2, <1>3

LEMMA Kinds ==
    /\ {"none", "conflict", "replay", "in progress", "unavailable"} \subseteq Answers
    /\ Results \subseteq Answers
    /\ {} \in SUBSET Attempts
BY DEF Answers

(* An answer leaves alone what the attempt produced, and is of this window. *)
LEMMA Answering ==
    ASSUME attempt \in [Attempts -> Attempt], window \in Nat, NEW c \in Attempts, NEW a \in Answers,
           NEW o \in SUBSET Attempts, Answered(c, a, o) \/ AnsweredUnsettled(c, a, o)
    PROVE  /\ attempt' \in [Attempts -> Attempt]
           /\ attempt'[c].at = After(a) /\ attempt'[c].of = o
           /\ attempt'[c].result = attempt[c].result /\ attempt'[c].window = window
           /\ attempt[c].lost => attempt'[c].lost
           /\ AnsweredUnsettled(c, a, o) => attempt'[c].lost
           /\ \A d \in Attempts \ {c} : attempt'[d] = attempt[d]
<1> DEFINE x == [attempt[c] EXCEPT !.at = After(a), !.answer = a, !.of = o, !.window = window]
           y == [attempt[c] EXCEPT !.at = After(a), !.answer = a, !.of = o, !.window = window,
                                   !.lost = TRUE]
<1>0. attempt[c] \in Attempt /\ After(a) \in {"streaming", "answered"}
    BY DEF After
<1>1. /\ x \in Attempt /\ x.at = After(a) /\ x.of = o
      /\ x.result = attempt[c].result /\ x.window = window /\ x.lost = attempt[c].lost
    BY <1>0 DEF Attempt
<1>2. /\ y \in Attempt /\ y.at = After(a) /\ y.of = o
      /\ y.result = attempt[c].result /\ y.window = window /\ y.lost
    BY <1>0 DEF Attempt
<1>3. CASE AnsweredUnsettled(c, a, o)
    <2>1. attempt' = [attempt EXCEPT ![c] = y]
        BY <1>3 DEF AnsweredUnsettled
    <2> HIDE DEF x, y
    <2> QED BY <1>2, <2>1
<1>4. CASE Answered(c, a, o) /\ ~AnsweredUnsettled(c, a, o)
    <2>1. attempt' = [attempt EXCEPT ![c] = x]
        BY <1>4 DEF Answered
    <2> HIDE DEF x, y
    <2> QED BY <1>1, <1>4, <2>1
<1> QED BY <1>3, <1>4

(* What each script leaves, when its caller holds the key. *)
LEMMA Scripts ==
    ASSUME NEW c \in Attempts, record = Pending(c)
    PROVE  CompleteScript(c) = Completed(c) /\ ReleaseScript = Free
BY Records DEF CompleteScript, ReleaseScript, SameRequest

LEMMA SafeInit == Init => Safe
<1> SUFFICES ASSUME Init PROVE Safe
    OBVIOUS
<1>1. record.state = "free"
    BY DEF Init, Free
<1>2. \A c \in Attempts : /\ attempt[c].at = "new" /\ attempt[c].result = "none"
                           /\ attempt[c].of = {} /\ attempt[c].window = 0
    BY DEF Init
<1>3. Shape
    BY DEF Init, Shape, Attempt, Answers
<1>4. Progress /\ Unanswered /\ HoldsTheKey /\ KeepsTheKey /\ OneResponse
    BY <1>2, <1>3 DEF Init, Progress, Unanswered, HoldsTheKey, KeepsTheKey, OneResponse, InFlight
<1>5. StoredIsProduced /\ ReplaysTheOriginal /\ ClaimsAreSettled
    BY <1>1, <1>2 DEF StoredIsProduced, ReplaysTheOriginal, ClaimsAreSettled
<1> QED BY <1>3, <1>4, <1>5 DEF Safe

-----------------------------------------------------------------------------
(* Each kind of step. *)

(* c claims the key, and may learn of it or not. *)
LEMMA ClaimSafe ==
    ASSUME Safe, NEW c \in Attempts, attempt[c].at = "new",
           record = Free, record' = Pending(c), UNCHANGED window,
           \/ attempt' = [attempt EXCEPT ![c] = [@ EXCEPT !.at = "controller", !.window = window]]
           \/ AnsweredUnsettled(c, "unavailable", {})
    PROVE  Safe'
<1> USE DEF Safe
<1>1. /\ attempt' \in [Attempts -> Attempt]
      /\ attempt'[c].result = attempt[c].result
      /\ attempt'[c].of \in {attempt[c].of, {}}
      /\ \/ attempt'[c].at = "controller" /\ attempt'[c].window = window
         \/ /\ attempt'[c].at = "answered" /\ attempt'[c].lost
            /\ attempt'[c].window = window
      /\ \A d \in Attempts \ {c} : attempt'[d] = attempt[d]
    <2>1. CASE AnsweredUnsettled(c, "unavailable", {})
        <3>1. After("unavailable") = "answered" /\ "unavailable" \in Answers
            BY Kinds DEF After
        <3>2. attempt \in [Attempts -> Attempt] /\ window \in Nat /\ {} \in SUBSET Attempts
            BY DEF Shape
        <3> QED BY <2>1, <3>1, <3>2, Answering
    <2>2. CASE attempt' = [attempt EXCEPT ![c] = [@ EXCEPT !.at = "controller", !.window = window]]
        <3> DEFINE x == [attempt[c] EXCEPT !.at = "controller", !.window = window]
        <3>1. /\ x \in Attempt /\ x.at = "controller" /\ x.window = window
              /\ x.result = attempt[c].result /\ x.of = attempt[c].of
            BY DEF Shape, Attempt
        <3>2. attempt' = [attempt EXCEPT ![c] = x]
            BY <2>2
        <3> HIDE DEF x
        <3> QED BY <3>1, <3>2 DEF Shape
    <2> QED BY <2>1, <2>2
<1>2. attempt[c].result = "none"
    BY DEF Progress
<1>3. \A d \in Attempts :
          ~InFlight(d) /\ (attempt[d].result = "response" => attempt[d].window # window)
    BY Records DEF HoldsTheKey, KeepsTheKey
<1>4. Shape' /\ Progress' /\ Unanswered'
    BY <1>1, <1>2, Records DEF Shape, Progress, Unanswered
<1>5. HoldsTheKey' /\ KeepsTheKey' /\ OneResponse'
    BY <1>1, <1>2, <1>3 DEF HoldsTheKey, KeepsTheKey, OneResponse, InFlight
<1>6. StoredIsProduced' /\ ClaimsAreSettled'
    BY <1>1, Records DEF StoredIsProduced, ClaimsAreSettled, InFlight
(* What c is given is nothing, before it claims and after. *)
<1>7. ReplaysTheOriginal'
    <2>1. attempt'[c].of = {}
        BY <1>1 DEF Unanswered
    <2>2. ASSUME NEW d \in Attempts \ {c}, NEW e \in attempt[d].of
          PROVE  /\ SameRequest(d, e) /\ attempt'[e].result = "response"
                 /\ attempt'[e].window = attempt[d].window
        <3>1. e \in Attempts /\ SameRequest(d, e) /\ attempt[e].result = "response"
              /\ attempt[e].window = attempt[d].window
            BY DEF ReplaysTheOriginal, Shape, Attempt
        <3> QED BY <1>1, <1>2, <3>1
    <2> QED BY <1>1, <2>1, <2>2 DEF ReplaysTheOriginal, SameRequest
<1> QED BY <1>4, <1>5, <1>6, <1>7

(* c is turned away, or given what the record holds. *)
LEMMA RefusalSafe ==
    ASSUME Safe, NEW c \in Attempts, attempt[c].at = "new", UNCHANGED <<record, window>>,
           NEW a \in Answers \ {"stream"}, NEW o \in SUBSET Attempts,
           \A d \in o : /\ SameRequest(c, d) /\ attempt[d].result = "response"
                       /\ attempt[d].window = window,
           Answered(c, a, o) \/ AnsweredUnsettled(c, a, o)
    PROVE  Safe'
<1> USE DEF Safe
<1>1. attempt' \in [Attempts -> Attempt]
    BY Answering DEF Shape
<1>2. /\ attempt'[c].at = "answered" /\ attempt'[c].of = o /\ attempt'[c].window = window
      /\ \A d \in Attempts \ {c} : attempt'[d] = attempt[d]
      /\ \A d \in Attempts : attempt'[d].result = attempt[d].result
      /\ attempt[c].lost => attempt'[c].lost
    BY Answering DEF Shape, After
<1>3. attempt[c].result = "none"
    BY DEF Progress
<1>4. Shape' /\ Progress' /\ Unanswered'
    BY <1>1, <1>2, <1>3 DEF Shape, Progress, Unanswered
<1>5. HoldsTheKey' /\ KeepsTheKey' /\ OneResponse'
    BY <1>1, <1>2, <1>3 DEF HoldsTheKey, KeepsTheKey, OneResponse, InFlight, Pending, Completed
<1>6. record.state \in {"pending", "completed"} => record.by \in Attempts
    BY Records DEF Shape
<1>7. StoredIsProduced' /\ ClaimsAreSettled'
    BY <1>2, <1>3, <1>6 DEF StoredIsProduced, ClaimsAreSettled, InFlight
<1>8. ReplaysTheOriginal'
    <2>1. ASSUME NEW d \in Attempts \ {c}, NEW e \in attempt[d].of
          PROVE  /\ SameRequest(d, e) /\ attempt'[e].result = "response"
                 /\ attempt'[e].window = attempt[d].window
        <3>1. e \in Attempts /\ SameRequest(d, e) /\ attempt[e].result = "response"
              /\ attempt[e].window = attempt[d].window
            BY DEF ReplaysTheOriginal, Shape, Attempt
        <3> QED BY <1>2, <1>3, <3>1
    <2>2. \A e \in o : /\ SameRequest(c, e) /\ attempt'[e].result = "response"
                      /\ attempt'[e].window = window
        BY <1>2, <1>3
    <2> QED BY <1>2, <2>1, <2>2 DEF ReplaysTheOriginal, SameRequest
<1> QED BY <1>4, <1>5, <1>7, <1>8

LEMMA RunSafe ==
    ASSUME Safe, NEW c \in Attempts, Run(c)
    PROVE  Safe'
<1> USE DEF Safe
<1>1. PICK r \in Results : attempt' = [attempt EXCEPT ![c] = [@ EXCEPT !.at = "settle", !.result = r]]
    BY DEF Run
<1>2. /\ attempt[c].at = "controller" /\ attempt[c].result = "none"
      /\ UNCHANGED <<record, window>>
    BY DEF Run, Progress
<1>3. /\ attempt' \in [Attempts -> Attempt]
      /\ attempt'[c].at = "settle" /\ attempt'[c].window = attempt[c].window
      /\ attempt'[c].of = attempt[c].of
      /\ \A d \in Attempts \ {c} : attempt'[d] = attempt[d]
    <2> DEFINE x == [attempt[c] EXCEPT !.at = "settle", !.result = r]
    <2>1. /\ x \in Attempt /\ x.at = "settle" /\ x.window = attempt[c].window
          /\ x.of = attempt[c].of
        <3>1. attempt[c] \in Attempt
            BY DEF Shape
        <3> QED BY <3>1 DEF Attempt
    <2>2. attempt' = [attempt EXCEPT ![c] = x]
        BY <1>1
    <2> HIDE DEF x
    <2> QED BY <2>1, <2>2 DEF Shape
<1>4. record = Pending(c) /\ attempt[c].window = window
    BY <1>2 DEF HoldsTheKey, InFlight
<1>5. \A d \in Attempts \ {c} :
          ~InFlight(d) /\ (attempt[d].result = "response" => attempt[d].window # window)
    BY <1>4, Records DEF HoldsTheKey, KeepsTheKey
<1>6. Shape' /\ Progress' /\ Unanswered'
    BY <1>2, <1>3 DEF Shape, Progress, Unanswered
<1>7. HoldsTheKey' /\ KeepsTheKey' /\ OneResponse'
    BY <1>2, <1>3, <1>4, <1>5
    DEF HoldsTheKey, KeepsTheKey, OneResponse, InFlight, Pending, Completed
<1>8. ReplaysTheOriginal'
    <2>1. ASSUME NEW d \in Attempts, NEW e \in attempt'[d].of
          PROVE  /\ SameRequest(d, e) /\ attempt'[e].result = "response"
                 /\ attempt'[e].window = attempt'[d].window
        <3>1. /\ attempt'[d].of = attempt[d].of /\ attempt'[d].window = attempt[d].window
              /\ attempt[d].of \in SUBSET Attempts
            BY <1>3 DEF Shape, Attempt
        <3>2. e \in Attempts /\ SameRequest(d, e) /\ attempt[e].result = "response"
              /\ attempt[e].window = attempt[d].window
            BY <2>1, <3>1 DEF ReplaysTheOriginal
        <3> QED BY <1>2, <1>3, <3>1, <3>2
    <2> QED BY <2>1 DEF ReplaysTheOriginal, SameRequest
<1>9. StoredIsProduced' /\ ClaimsAreSettled'
    BY <1>2, <1>3, <1>4, Records DEF StoredIsProduced, ClaimsAreSettled, InFlight
<1> QED BY <1>6, <1>7, <1>8, <1>9

(* c, which holds the key, is done with it: settled, unsettled or dead. *)
LEMMA EndSafe ==
    ASSUME Safe, NEW c \in Attempts, InFlight(c), UNCHANGED window,
           NEW a \in Answers, NEW o \in SUBSET Attempts,
           a = "stream" => attempt[c].result = "stream" /\ o = {},
           \A d \in o : d = c /\ attempt[c].result = "response",
           \/ record' = Pending(c) /\ AnsweredUnsettled(c, a, o)
           \/ /\ record' = Completed(c) /\ attempt[c].result = "response"
              /\ Answered(c, a, o) \/ AnsweredUnsettled(c, a, o)
           \/ /\ record' = Free /\ attempt[c].result # "response"
              /\ Answered(c, a, o) \/ AnsweredUnsettled(c, a, o)
    PROVE  Safe'
<1> USE DEF Safe
<1>1. /\ attempt' \in [Attempts -> Attempt]
      /\ attempt'[c].at = After(a) /\ attempt'[c].of = o
      /\ AnsweredUnsettled(c, a, o) => attempt'[c].lost
      /\ \A d \in Attempts \ {c} : attempt'[d] = attempt[d]
      /\ \A d \in Attempts : attempt'[d].result = attempt[d].result
      /\ attempt'[c].window = window
    BY Answering DEF Shape
<1>2. record = Pending(c) /\ attempt[c].window = window
    BY DEF HoldsTheKey
<1>3. \A d \in Attempts \ {c} :
          ~InFlight(d) /\ (attempt[d].result = "response" => attempt[d].window # window)
    BY <1>2, Records DEF HoldsTheKey, KeepsTheKey
<1>4. Shape'
    BY <1>1, Records DEF Shape
<1>5. Progress' /\ Unanswered'
    BY <1>1 DEF Progress, Unanswered, After, Shape
<1>6. \A d \in Attempts : ~(attempt'[d].at \in {"controller", "settle"})
    BY <1>1, <1>3 DEF InFlight, After
<1>7. \A d \in Attempts : attempt'[d].window = attempt[d].window
    BY <1>1, <1>2
<1>8. HoldsTheKey' /\ OneResponse'
    BY <1>1, <1>6, <1>7 DEF HoldsTheKey, OneResponse, InFlight
<1>9. KeepsTheKey'
    BY <1>1, <1>2, <1>3, <1>7 DEF KeepsTheKey, Pending, Completed
<1>10. StoredIsProduced' /\ ClaimsAreSettled'
    <2>1. record'.state = "completed" => record'.by = c /\ attempt[c].result = "response"
        BY Records
    <2>2. record'.state = "pending" => record'.by = c /\ attempt'[c].lost
        BY <1>1, Records
    <2> QED BY <1>1, <2>1, <2>2 DEF StoredIsProduced, ClaimsAreSettled, InFlight
<1>11. ReplaysTheOriginal'
    <2>1. ASSUME NEW d \in Attempts \ {c}, NEW e \in attempt[d].of
          PROVE  /\ SameRequest(d, e) /\ attempt'[e].result = "response"
                 /\ attempt'[e].window = attempt[d].window
        <3>1. e \in Attempts /\ SameRequest(d, e) /\ attempt[e].result = "response"
              /\ attempt[e].window = attempt[d].window
            BY DEF ReplaysTheOriginal, Shape, Attempt
        <3> QED BY <1>1, <1>7, <3>1
    <2> QED BY <1>1, <2>1 DEF ReplaysTheOriginal, SameRequest
<1> QED BY <1>4, <1>5, <1>8, <1>9, <1>10, <1>11

(* A stream that ends, or dies with its process, held no key any more. *)
LEMMA StreamSafe ==
    ASSUME Safe, NEW c \in Attempts, attempt[c].at = "streaming", UNCHANGED <<record, window>>,
           EndStream(c) \/ AnsweredUnsettled(c, "none", {})
    PROVE  Safe'
<1> USE DEF Safe
<1>1. /\ attempt' \in [Attempts -> Attempt]
      /\ attempt'[c].at = "answered" /\ attempt'[c].of = {}
      /\ attempt[c].lost => attempt'[c].lost
      /\ attempt'[c].result = attempt[c].result
      /\ attempt'[c].window \in {attempt[c].window, window}
      /\ \A d \in Attempts \ {c} : attempt'[d] = attempt[d]
    <2>1. CASE AnsweredUnsettled(c, "none", {})
        BY <2>1, Answering, Kinds DEF Shape, After
    <2>2. CASE EndStream(c)
        <3> DEFINE x == [attempt[c] EXCEPT !.at = "answered"]
        <3>1. /\ x \in Attempt /\ x.at = "answered" /\ x.of = attempt[c].of
              /\ x.lost = attempt[c].lost /\ x.result = attempt[c].result
              /\ x.window = attempt[c].window
            BY DEF Shape, Attempt
        <3>2. attempt' = [attempt EXCEPT ![c] = x]
            BY <2>2 DEF EndStream
        <3>3. attempt[c].of = {}
            BY DEF Unanswered
        <3> HIDE DEF x
        <3> QED BY <3>1, <3>2, <3>3 DEF Shape
    <2> QED BY <2>1, <2>2
<1>2. attempt[c].result = "stream" /\ ~InFlight(c)
    BY DEF Progress, InFlight
<1>3. Shape' /\ Progress' /\ Unanswered'
    BY <1>1, <1>2 DEF Shape, Progress, Unanswered
<1>4. HoldsTheKey' /\ KeepsTheKey' /\ OneResponse'
    BY <1>1, <1>2 DEF HoldsTheKey, KeepsTheKey, OneResponse, InFlight, Pending, Completed
<1>5. record.state \in {"pending", "completed"} => record.by \in Attempts
    BY Records DEF Shape
<1>6. StoredIsProduced' /\ ClaimsAreSettled'
    BY <1>1, <1>2, <1>5 DEF StoredIsProduced, ClaimsAreSettled, InFlight
<1>7. ReplaysTheOriginal'
    <2>1. ASSUME NEW d \in Attempts \ {c}, NEW e \in attempt[d].of
          PROVE  /\ SameRequest(d, e) /\ attempt'[e].result = "response"
                 /\ attempt'[e].window = attempt[d].window
        <3>1. e \in Attempts /\ SameRequest(d, e) /\ attempt[e].result = "response"
              /\ attempt[e].window = attempt[d].window
            BY DEF ReplaysTheOriginal, Shape, Attempt
        <3> QED BY <1>1, <1>2, <3>1
    <2> QED BY <1>1, <2>1 DEF ReplaysTheOriginal, SameRequest
<1> QED BY <1>3, <1>4, <1>6, <1>7

LEMMA ExpireSafe ==
    ASSUME Safe, Expire
    PROVE  Safe'
<1> USE DEF Safe, Expire
<1>1. record'.state = "free"
    BY DEF Free
<1>2. Shape' /\ Progress' /\ Unanswered' /\ OneResponse'
    BY DEF Shape, Progress, Unanswered, OneResponse, Attempt
<1>3. HoldsTheKey'
    BY DEF HoldsTheKey, InFlight, Executing
<1>4. \A c \in Attempts : attempt[c].window # window'
    BY DEF Progress, Shape, Attempt
<1>5. KeepsTheKey'
    BY <1>4 DEF KeepsTheKey
<1>6. StoredIsProduced' /\ ReplaysTheOriginal' /\ ClaimsAreSettled'
    BY <1>1 DEF StoredIsProduced, ReplaysTheOriginal, ClaimsAreSettled
<1> QED BY <1>2, <1>3, <1>5, <1>6

-----------------------------------------------------------------------------

LEMMA SafeStep == Safe /\ [Next]_vars => Safe'
<1> SUFFICES ASSUME Safe, [Next]_vars PROVE Safe'
    OBVIOUS
<1>1. ASSUME NEW c \in Attempts, Begin(c) PROVE Safe'
    <2>1. CASE record = Free /\ record' = Pending(c)
               /\ attempt' = [attempt EXCEPT ![c] = [@ EXCEPT !.at = "controller", !.window = window]]
        BY <1>1, <2>1, ClaimSafe DEF Begin
    <2>2. CASE UNCHANGED record /\ (Answered(c, "conflict", {}) \/ Answered(c, "in progress", {}))
        BY <1>1, <2>2, RefusalSafe, Kinds DEF Begin
    <2>3. CASE /\ record.state = "completed" /\ SameRequest(c, record.by)
               /\ Answered(c, "replay", {record.by}) /\ UNCHANGED record
        <3>1. PICK d \in Attempts :
                  d = record.by /\ attempt[d].result = "response" /\ attempt[d].window = window
            BY <2>3, Records DEF Safe, Shape, StoredIsProduced, Free
        <3>2. {d} \in SUBSET Attempts /\ "replay" \in Answers \ {"stream"}
            BY <3>1, Kinds
        <3>3. /\ attempt[c].at = "new" /\ UNCHANGED <<record, window>>
              /\ Answered(c, "replay", {d})
              /\ \A e \in {d} : /\ SameRequest(c, e) /\ attempt[e].result = "response"
                               /\ attempt[e].window = window
            BY <1>1, <2>3, <3>1 DEF Begin
        <3> QED BY <1>1, <3>2, <3>3, RefusalSafe
    <2> QED BY <1>1, <2>1, <2>2, <2>3 DEF Begin
<1>2. ASSUME NEW c \in Attempts, BeginFails(c) PROVE Safe'
    <2>1. CASE record' = record
        BY <1>2, <2>1, RefusalSafe, Kinds DEF BeginFails
    <2>2. CASE record = Free /\ record' = Pending(c)
        BY <1>2, <2>2, ClaimSafe DEF BeginFails
    <2> QED BY <1>2, <2>1, <2>2 DEF BeginFails
<1>3. ASSUME NEW c \in Attempts, Run(c) PROVE Safe'
    BY <1>3, RunSafe
<1>4. ASSUME NEW c \in Attempts,
             Complete(c) \/ CompleteFails(c) \/ Release(c) \/ ReleaseFails(c)
      PROVE  Safe'
    <2>1. InFlight(c)
        BY <1>4 DEF Complete, CompleteFails, Release, ReleaseFails, InFlight
    <2>2. record = Pending(c) /\ CompleteScript(c) = Completed(c) /\ ReleaseScript = Free
        BY <2>1, Scripts DEF Safe, HoldsTheKey
    <2>3. attempt \in [Attempts -> Attempt]
        BY DEF Safe, Shape
    <2>4. CASE Complete(c) \/ CompleteFails(c)
        <3>1. /\ attempt[c].result = "response" /\ UNCHANGED window
              /\ \/ record' = Pending(c) /\ AnsweredUnsettled(c, "response", {c})
                 \/ /\ record' = Completed(c)
                    /\ Answered(c, "response", {c}) \/ AnsweredUnsettled(c, "response", {c})
            BY <2>2, <2>4 DEF Complete, CompleteFails
        <3> QED BY <2>1, <3>1, EndSafe, Kinds DEF Results
    <2>5. CASE Release(c) \/ ReleaseFails(c)
        <3>1. PICK a \in Results : a = attempt[c].result /\ a # "response"
            BY <2>5 DEF Release, ReleaseFails, Results
        <3>3. a = "stream" => attempt[c].result = "stream"
            BY <3>1
        <3>2. /\ UNCHANGED window
              /\ \/ record' = Pending(c) /\ AnsweredUnsettled(c, a, {})
                 \/ /\ record' = Free
                    /\ Answered(c, a, {}) \/ AnsweredUnsettled(c, a, {})
            BY <2>2, <2>5, <3>1 DEF Release, ReleaseFails
        <3> QED BY <2>1, <3>1, <3>2, <3>3, EndSafe, Kinds
    <2> QED BY <1>4, <2>4, <2>5
<1>5. ASSUME NEW c \in Attempts, Crash(c) \/ EndStream(c) PROVE Safe'
    <2>1. CASE attempt[c].at = "streaming"
        BY <1>5, <2>1, StreamSafe DEF Crash, EndStream
    <2>2. CASE attempt[c].at # "streaming"
        <3>1. Crash(c) /\ InFlight(c) /\ record = Pending(c)
            BY <1>5, <2>2 DEF Crash, EndStream, Executing, Safe, HoldsTheKey
        <3> QED BY <3>1, EndSafe, Kinds DEF Crash
    <2> QED BY <2>1, <2>2
<1>6. CASE Expire
    BY <1>6, ExpireSafe
<1>7. CASE UNCHANGED vars
    BY <1>7 DEF vars, Safe, Shape, Progress, Unanswered, HoldsTheKey, KeepsTheKey, OneResponse,
               StoredIsProduced, ReplaysTheOriginal, ClaimsAreSettled, InFlight
<1> QED BY <1>1, <1>2, <1>3, <1>4, <1>5, <1>6, <1>7 DEF Next

-----------------------------------------------------------------------------
(* The bounds.  A window is opened by the claim of a new attempt.          *)

Begun == {c \in Attempts : attempt[c].at # "new"}

Bounds ==
    /\ window + (IF record = Free THEN 0 ELSE 1) <= Cardinality(Begun)
    /\ faults \in 0..MaxFaults

LEMMA BoundsStep ==
    ASSUME Safe, Bounds, [Next]_vars
    PROVE  Bounds'
<1> DEFINE was == Cardinality(Begun)
           is == Cardinality(Begun')
<1>1. IsFiniteSet(Begun) /\ IsFiniteSet(Begun') /\ was \in Nat /\ is \in Nat
    <2>1. Begun \subseteq Attempts /\ Begun' \subseteq Attempts
        BY DEF Begun
    <2>2. IsFiniteSet(Begun) /\ IsFiniteSet(Begun')
        BY <2>1, AttemptsAssumption, FS_Subset
    <2>3. QED
        BY <2>2, FS_CardinalityType
<1>2. window \in Nat /\ attempt \in [Attempts -> Attempt]
    BY DEF Safe, Shape
<1>3. faults' \in 0..MaxFaults
    <2>1. ASSUME NEW c \in Attempts, Begin(c) \/ Run(c) \/ Complete(c) \/ Release(c) \/ EndStream(c)
          PROVE  faults' = faults
        BY <2>1 DEF Begin, Run, Complete, Release, EndStream
    <2>2. ASSUME NEW c \in Attempts, BeginFails(c) \/ CompleteFails(c) \/ ReleaseFails(c) \/ Crash(c)
          PROVE  Fault
        BY <2>2 DEF BeginFails, CompleteFails, ReleaseFails, Crash
    <2>3. Expire \/ UNCHANGED vars => faults' = faults
        BY DEF Expire, vars
    <2>4. faults' = faults \/ Fault
        BY <2>1, <2>2, <2>3 DEF Next
    <2>5. QED
        BY <2>4, BoundAssumption DEF Bounds, Fault
(* Nobody begins twice. *)
<1>4. Begun \subseteq Begun'
    <2>1. SUFFICES ASSUME NEW d \in Attempts, attempt[d].at # "new"
                   PROVE  attempt'[d].at # "new"
        BY DEF Begun
    <2>2. ASSUME NEW c \in Attempts, NEW a, NEW of, Answered(c, a, of) \/ AnsweredUnsettled(c, a, of)
          PROVE  attempt'[d].at # "new"
        <3> DEFINE x == [attempt[c] EXCEPT !.at = After(a), !.answer = a, !.of = of, !.window = window]
                   y == [attempt[c] EXCEPT !.at = After(a), !.answer = a, !.of = of, !.window = window,
                                           !.lost = TRUE]
        <3>1. x.at # "new" /\ y.at # "new"
            BY <1>2 DEF Attempt, After
        <3>2. PICK z \in {x, y} : attempt' = [attempt EXCEPT ![c] = z]
            BY <2>2 DEF Answered, AnsweredUnsettled
        <3> HIDE DEF x, y
        <3>3. QED
            BY <1>2, <2>1, <3>1, <3>2
    <2>3. ASSUME NEW c \in Attempts, Begin(c) PROVE attempt'[d].at # "new"
        BY <1>2, <2>1, <2>2, <2>3 DEF Begin, Attempt
    <2>4. ASSUME NEW c \in Attempts, Run(c) \/ EndStream(c) PROVE attempt'[d].at # "new"
        BY <1>2, <2>1, <2>4 DEF Run, EndStream, Attempt
    <2>5. ASSUME NEW c \in Attempts,
                 \/ BeginFails(c) \/ Complete(c) \/ CompleteFails(c) \/ Release(c) \/ ReleaseFails(c)
                 \/ Crash(c)
          PROVE  attempt'[d].at # "new"
        BY <2>2, <2>5 DEF BeginFails, Complete, CompleteFails, Release, ReleaseFails, Crash
    <2>6. CASE Expire \/ UNCHANGED vars
        BY <2>1, <2>6 DEF Expire, vars
    <2>7. QED
        BY <2>3, <2>4, <2>5, <2>6 DEF Next
<1>5. was <= is
    BY <1>1, <1>4, FS_Subset
<1>6. CASE Expire
    <2>1. record # Free /\ record' = Free /\ window' = window + 1
        BY <1>6 DEF Expire
    <2>2. QED
        BY <1>1, <1>2, <1>3, <1>5, <2>1 DEF Bounds
<1>7. ASSUME NEW c \in Attempts, Begin(c) \/ BeginFails(c) PROVE Bounds'
    <2>1. window' = window /\ (record = Free \/ record' = record)
        BY <1>7 DEF Begin, BeginFails
    <2>2. c \in Begun' /\ c \notin Begun
        <3>1. attempt[c].at = "new"
            BY <1>7 DEF Begin, BeginFails
        <3>2. BeginFails(c) => attempt'[c].at # "new"
            BY <1>2, Answering, Kinds DEF BeginFails, After
        <3>3. ASSUME attempt' = [attempt EXCEPT ![c] = [@ EXCEPT !.at = "controller", !.window = window]]
              PROVE  attempt'[c].at # "new"
            <4> DEFINE x == [attempt[c] EXCEPT !.at = "controller", !.window = window]
            <4>1. x.at = "controller"
                BY <1>2 DEF Attempt
            <4>2. attempt' = [attempt EXCEPT ![c] = x]
                BY <3>3
            <4> HIDE DEF x
            <4>3. QED
                BY <1>2, <4>1, <4>2
        <3>4. Begin(c) => attempt'[c].at # "new"
            <4>1. ASSUME NEW a, NEW o, Answered(c, a, o)
                  PROVE  attempt'[c].at # "new"
                <5> DEFINE y == [attempt[c] EXCEPT !.at = After(a), !.answer = a, !.of = o,
                                                   !.window = window]
                <5>1. y.at # "new"
                    BY <1>2 DEF Attempt, After
                <5>2. attempt' = [attempt EXCEPT ![c] = y]
                    BY <4>1 DEF Answered
                <5> HIDE DEF y
                <5>3. QED
                    BY <1>2, <5>1, <5>2
            <4>2. QED
                BY <3>3, <4>1 DEF Begin
        <3>5. QED
            BY <1>7, <3>1, <3>2, <3>4 DEF Begun
    <2>3. was + 1 <= is
        <3>1. Begun \cup {c} \subseteq Begun' /\ Cardinality(Begun \cup {c}) = was + 1
            BY <1>1, <1>4, <2>2, FS_AddElement
        <3>2. Cardinality(Begun \cup {c}) <= is
            BY <1>1, <3>1, FS_Subset
        <3>3. QED
            BY <3>1, <3>2
    <2>4. QED
        BY <1>1, <1>2, <1>3, <2>1, <2>3 DEF Bounds
<1>8. ASSUME NEW c \in Attempts,
             \/ Run(c) \/ Complete(c) \/ CompleteFails(c) \/ Release(c) \/ ReleaseFails(c)
             \/ EndStream(c) \/ Crash(c)
      PROVE  Bounds'
    <2>1. window' = window /\ (record = Free => record' = Free)
        <3>1. record = Free => CompleteScript(c) = Free /\ ReleaseScript = Free
            BY DEF CompleteScript, ReleaseScript, Free
        <3>2. QED
            BY <1>8, <3>1 DEF Run, Complete, CompleteFails, Release, ReleaseFails, EndStream, Crash
    <2>2. QED
        BY <1>1, <1>2, <1>3, <1>5, <2>1 DEF Bounds
<1>9. CASE UNCHANGED vars
    BY <1>1, <1>2, <1>3, <1>5, <1>9 DEF Bounds, vars
<1>10. QED
    BY <1>6, <1>7, <1>8, <1>9 DEF Next

-----------------------------------------------------------------------------

(* Every reachable state of routes.ts, guard.ts and store.ts is Safe. *)
THEOREM AlwaysSafe == Spec => []Safe
<1>1. Init => Safe
    BY SafeInit
<1>2. Safe /\ [Next]_vars => Safe'
    BY SafeStep
<1> QED BY <1>1, <1>2, PTL DEF Spec

(* Records and attempts keep their shapes, and no more windows open than    *)
(* there are attempts to claim the key (guard.ts, store.ts).                *)
THEOREM TypeCorrect == Spec => []TypeOK
<1>1. Init => Bounds
    <2>1. SUFFICES ASSUME Init PROVE Bounds
        OBVIOUS
    <2>2. \A c \in Attempts : attempt[c].at = "new"
        BY <2>1 DEF Init
    <2>3. Begun = {}
        BY <2>2 DEF Begun
    <2>4. Cardinality(Begun) = 0
        BY <2>3, FS_EmptySet
    <2>5. QED
        BY <2>1, <2>4, BoundAssumption DEF Init, Bounds
<1>2. Safe /\ Bounds => TypeOK
    <2>1. SUFFICES ASSUME Safe, Bounds PROVE TypeOK
        OBVIOUS
    <2>2. window \in 0..Cardinality(Attempts)
        <3>1. Begun \subseteq Attempts /\ IsFiniteSet(Begun)
            BY AttemptsAssumption, FS_Subset DEF Begun
        <3>2. /\ Cardinality(Begun) \in Nat /\ Cardinality(Attempts) \in Nat
              /\ Cardinality(Begun) <= Cardinality(Attempts)
            BY <3>1, AttemptsAssumption, FS_Subset, FS_CardinalityType
        <3>3. QED
            BY <2>1, <3>2 DEF Safe, Shape, Bounds
    <2>3. \A c \in Attempts : attempt[c] \in Attempt /\ attempt[c].window \in 0..Cardinality(Attempts)
        <3>1. Cardinality(Attempts) \in Nat
            BY AttemptsAssumption, FS_CardinalityType
        <3>2. QED
            BY <2>1, <2>2, <3>1 DEF Safe, Shape, Progress, Attempt
    <2>4. \A x \in Attempt : x.window \in 0..Cardinality(Attempts) =>
             x \in [at : {"new", "controller", "settle", "streaming", "answered"},
                    result : Results \cup {"none"}, answer : Answers, of : SUBSET Attempts, window : 0..Cardinality(Attempts),
                    lost : BOOLEAN]
        BY DEF Attempt
    <2>5. attempt \in [Attempts ->
             [at : {"new", "controller", "settle", "streaming", "answered"}, result : Results \cup {"none"},
              answer : Answers, of : SUBSET Attempts, window : 0..Cardinality(Attempts),
              lost : BOOLEAN]]
        BY <2>1, <2>3, <2>4 DEF Safe, Shape
    <2>6. QED
        BY <2>1, <2>2, <2>5 DEF Safe, Shape, Bounds, TypeOK
<1>3. Safe /\ Bounds /\ [Next]_vars => Bounds'
    BY BoundsStep
<1>4. QED
    BY <1>1, <1>2, <1>3, AlwaysSafe, PTL DEF Spec

(* Until the key expires, the requests under it execute one at a time, and   *)
(* none after one of them produced a response (guard.ts, CLAIM_SCRIPT), but  *)
(* for a stream past its first event, which holds no claim (routes.ts:361).  *)
THEOREM NoDoubleExecution == Spec => []ExecutesOnce
<1>1. Safe => ExecutesOnce
    <2> SUFFICES ASSUME Safe, NEW c \in Attempts, NEW d \in Attempts, c # d,
                        attempt[c].window = attempt[d].window
                 PROVE  /\ ~(InFlight(c) /\ InFlight(d))
                        /\ attempt[c].result = "response" =>
                              ~InFlight(d) /\ attempt[d].result # "response"
        BY DEF ExecutesOnce
    <2>1. ~(InFlight(c) /\ InFlight(d))
        BY Records DEF Safe, HoldsTheKey
    <2>2. ASSUME attempt[c].result = "response"
          PROVE  ~InFlight(d) /\ attempt[d].result # "response"
        <3>1. attempt[d].result # "response"
            BY <2>2 DEF Safe, OneResponse
        <3>2. InFlight(d) => record = Pending(d) /\ attempt[c].window = window
            BY DEF Safe, HoldsTheKey
        <3>3. attempt[c].window = window => record \in {Pending(c), Completed(c)}
            BY <2>2 DEF Safe, KeepsTheKey
        <3> QED BY <3>1, <3>2, <3>3, Records
    <2> QED BY <2>1, <2>2
<1> QED BY <1>1, AlwaysSafe, PTL

(* Whoever is replayed a response is given one its own request produced in *)
(* the same window (beginIdempotent's "replay").                           *)
THEOREM ReplayIsOriginal == Spec => []ReplaysTheOriginal
<1>1. Safe => ReplaysTheOriginal
    BY DEF Safe
<1> QED BY <1>1, AlwaysSafe, PTL

(* A key stays pending only for a request in flight, or for one whose process *)
(* or store call was lost (the release paths of routes.ts).                   *)
THEOREM NoStrandedClaim == Spec => []ClaimsAreSettled
<1>1. Safe => ClaimsAreSettled
    BY DEF Safe
<1> QED BY <1>1, AlwaysSafe, PTL
=============================================================================
