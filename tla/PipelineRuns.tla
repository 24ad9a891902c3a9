---------------------------- MODULE PipelineRuns ----------------------------
(***************************************************************************)
(* The runs of one project and the streams that follow them: the stream    *)
(* endpoint (pipeline/router.py), the hub and its worker threads           *)
(* (pipeline/hub.py), the stages with their gates (pipeline/service.py),   *)
(* the approval ledger (review/) with the endpoints that make one artifact *)
(* anew, and the browser's EventSource (frontend/lib/run.ts).              *)
(*                                                                         *)
(* One server process.  Its event loop runs one callback at a time, up to  *)
(* the next await, so the endpoint is a single step; workers and reviews   *)
(* run on threads of their own, and their statements interleave with it.   *)
(***************************************************************************)
EXTENDS Naturals, FiniteSets, Sequences

CONSTANTS
    MaxRuns,        \* bound: the rows of run
    LastStage,      \* the stages are 1..LastStage
    Asks,           \* what each tab asks for: where to start (0: the top), and whether gated
    Gates,          \* those a gated run pauses after
    Clients,        \* browser tabs
    Affordable,     \* how many fresh runs the owner's credits pay for
    MaxHubs,        \* _MAX_HUBS
    MaxReviews,     \* bound: approvals, rejections and artifacts made anew
    MaxFaults       \* bound: connections lost, rows not written, restarts

ASSUME StagesAssumption ==
    /\ LastStage \in Nat \ {0}
    /\ Gates \subseteq 1..LastStage - 1
    /\ Asks \in [Clients -> SUBSET ((0..LastStage) \X BOOLEAN)]
ASSUME BoundsAssumption ==
    /\ MaxRuns \in Nat \ {0} /\ Affordable \in Nat /\ MaxHubs \in Nat \ {0}
    /\ MaxReviews \in Nat /\ MaxFaults \in Nat

VARIABLES
    run,        \* the rows of run, in the order they were created
    worker,     \* the thread of each run
    hub,        \* the hub of each run
    client,     \* what each tab's EventSource is doing
    charged,    \* credit ledger entries for a run
    runless,    \* those among them whose run was never recorded
    ledger,     \* project.checkpoints, by gate
    edit,       \* for each gate, the request that makes its artifact anew
    signed,     \* gates signed off since they were last paused at, rejected or made anew
    torn,       \* whether a ledger was ever written from an outdated copy
    reviews, faults

vars == <<run, worker, hub, client, charged, runless, ledger, edit, signed, torn, reviews, faults>>
chargeVars == <<charged, runless>>
reviewVars == <<ledger, edit, signed, torn, reviews>>

-----------------------------------------------------------------------------

Runs == 1..MaxRuns
Stages == 1..LastStage

Absent == [status |-> "none", from |-> 0, gated |-> FALSE]

(* A worker: its place, its stage and its copy of the ledger until there is *)
(* nothing left to run, and from then on how it ends.                       *)
NoWorker == [at |-> "none", stage |-> 0, copy |-> [g \in Gates |-> "absent"], outcome |-> "none"]

(* A request for an artifact: whether it is at work, its copy of the ledger. *)
NoEdit == [on |-> FALSE, copy |-> [g \in Gates |-> "absent"]]

(* A hub: callbacks the loop has yet to run, the buffer, whether it is done, *)
(* and whether _HUBS still holds it.                                         *)
NoHub == [inbox |-> <<>>, buffer |-> <<>>, done |-> FALSE, held |-> FALSE]

(***************************************************************************)
(* A tab: what it asks for, the number of events it has seen, the run it   *)
(* is attached to, and the queue of its subscription, where 0 is the end.  *)
(***************************************************************************)
Closed == [at |-> "closed", from |-> 0, gated |-> FALSE, seen |-> 0, run |-> 0,
           queue |-> <<>>, over |-> FALSE]

Init ==
    /\ run = [r \in Runs |-> Absent]
    /\ worker = [r \in Runs |-> NoWorker]
    /\ hub = [r \in Runs |-> NoHub]
    /\ client = [c \in Clients |-> Closed]
    /\ charged = 0 /\ runless = 0
    /\ ledger = [g \in Gates |-> "absent"]
    /\ edit = [g \in Gates |-> NoEdit]
    /\ signed = {}
    /\ torn = FALSE
    /\ reviews = 0 /\ faults = 0

Fault == faults < MaxFaults /\ faults' = faults + 1

Started == {r \in Runs : run[r].status # "none"}
Latest == CHOOSE r \in Started : \A q \in Started : q <= r
Running == {r \in Runs : run[r].status = "running"}

-----------------------------------------------------------------------------
(* The browser.                                                            *)

SetClient(c, fields) == client' = [client EXCEPT ![c] = fields]

(* The user starts a run from the top, or resumes one at a stage. *)
Open(c) ==
    /\ client[c].at = "closed"
    /\ \E ask \in Asks[c] :
          SetClient(c, [Closed EXCEPT !.at = "connecting", !.from = ask[1], !.gated = ask[2]])
    /\ UNCHANGED <<run, worker, hub, chargeVars, reviewVars, faults>>

(* The tab is closed, or gives up on a server it cannot reach. *)
Leave(c) ==
    /\ client[c].at # "closed"
    /\ SetClient(c, Closed)
    /\ UNCHANGED <<run, worker, hub, chargeVars, reviewVars, faults>>

(* The EventSource connects again by itself, with the last id it saw. *)
Reconnecting(c) == [client[c] EXCEPT !.at = "connecting", !.run = 0, !.queue = <<>>, !.over = FALSE]

(* The connection is lost, or the answer to the request. *)
Drop(c) ==
    /\ client[c].at \in {"accepted", "tailing"}
    /\ Fault
    /\ SetClient(c, Reconnecting(c))
    /\ UNCHANGED <<run, worker, hub, chargeVars, reviewVars>>

-----------------------------------------------------------------------------
(* The endpoint.                                                           *)

(* The sign-offs a resume at this stage needs: of the last gate before it. *)
Requires(from) ==
    {g \in Gates : g < from /\ \A h \in Gates : h < from => h <= g}

MayResume(from) == \A g \in Requires(from) : ledger[g] = "approved"

Accept(c, r) == SetClient(c, [client[c] EXCEPT !.at = "accepted", !.run = r])

(***************************************************************************)
(* The row, the hub and the thread of a new run.  _prune then evicts the   *)
(* oldest finished hubs while there are too many.                          *)
(***************************************************************************)
StartRun(r, c) ==
    LET evictable == {q \in Runs : hub[q].held /\ hub[q].done}
        excess == Cardinality({q \in Runs : hub[q].held}) + 1 - MaxHubs
        evicted == {q \in evictable : Cardinality({p \in evictable : p < q}) < excess}
    IN
    /\ run' = [run EXCEPT ![r] = [status |-> "running", from |-> client[c].from,
                                  gated |-> client[c].gated]]
    /\ hub' = [q \in Runs |->
                  IF q = r THEN [NoHub EXCEPT !.held = TRUE]
                  ELSE [hub[q] EXCEPT !.held = @ /\ q \notin evicted]]
    /\ worker' = [worker EXCEPT ![r] = [@ EXCEPT !.at = "loading"]]

(* Mutant of IsFresh: a resumed leg is charged as well. *)
IsAnyLeg(c) == TRUE

(* Mutant of Starts: the active run is not looked for. *)
StartsRegardless(c) == client[c].seen = 0

IsFresh(c) == client[c].from = 0

Starts(c) == client[c].seen = 0 /\ Running = {}

Unpaid(c) == IsFresh(c) /\ charged >= Affordable

(* Nothing runs and the client has seen nothing: a run is started. *)
Start(c) ==
    /\ client[c].at = "connecting" /\ Starts(c)
    /\ MayResume(client[c].from) /\ ~Unpaid(c)
    /\ charged' = charged + (IF IsFresh(c) THEN 1 ELSE 0)
    /\ UNCHANGED runless
    /\ \E r \in Runs \ Started :
          /\ \A q \in Runs \ Started : r <= q
          /\ StartRun(r, c)
          /\ Accept(c, r)
    /\ UNCHANGED <<reviewVars, faults>>

(* A gate not signed off is a 409 and missing credits an error event: both *)
(* close the EventSource for good.                                         *)
Refuse(c) ==
    /\ client[c].at = "connecting" /\ Starts(c)
    /\ ~MayResume(client[c].from) \/ Unpaid(c)
    /\ SetClient(c, Closed)
    /\ UNCHANGED <<run, worker, hub, chargeVars, reviewVars, faults>>

(* Otherwise it attaches to the run that is running, or to the latest. *)
Attach(c) ==
    /\ client[c].at = "connecting" /\ ~Starts(c)
    /\ \E r \in Runs :
          /\ IF Running # {} THEN r \in Running /\ \A q \in Running : q <= r ELSE r = Latest
          /\ hub[r].held
          /\ Accept(c, r)
    /\ UNCHANGED <<run, worker, hub, chargeVars, reviewVars, faults>>

(***************************************************************************)
(* Without the hub the answer is a single resync event.  run.ts has no     *)
(* listener for it, and the stream that ends is opened again.              *)
(***************************************************************************)
HubIsGone(c) ==
    /\ ~Starts(c)
    /\ Running = {} => ~hub[Latest].held
    /\ \A r \in Running : ~hub[r].held

Resync(c) ==
    /\ client[c].at = "connecting" /\ HubIsGone(c)
    /\ SetClient(c, [client[c] EXCEPT !.at = "resynced"])
    /\ UNCHANGED <<run, worker, hub, chargeVars, reviewVars, faults>>

Reopen(c) ==
    /\ client[c].at = "resynced"
    /\ SetClient(c, Reconnecting(c))
    /\ UNCHANGED <<run, worker, hub, chargeVars, reviewVars, faults>>

(* Mutant of After: one past the event after the last one seen. *)
AfterNext(k, n) == [i \in 1..(IF n > k + 1 THEN n - k - 1 ELSE 0) |-> k + 1 + i]

(* The positions after k, in order. *)
After(k, n) == [i \in 1..(IF n > k THEN n - k ELSE 0) |-> k + i]

(***************************************************************************)
(* The stream's first step: what the client missed is put in its queue and *)
(* the queue registered, with no await in between.                         *)
(***************************************************************************)
Subscribe(c) ==
    LET h == hub[client[c].run] IN
    /\ client[c].at = "accepted"
    /\ SetClient(c, [client[c] EXCEPT
                        !.at = "tailing",
                        !.queue = After(client[c].seen, Len(h.buffer))
                                  \o (IF h.done THEN <<0>> ELSE <<>>)])
    /\ UNCHANGED <<run, worker, hub, chargeVars, reviewVars, faults>>

Terminal == {"awaiting", "done", "error"}

(* An event reaches the tab, which closes the stream at a terminal one. *)
Receive(c) ==
    /\ client[c].at = "tailing" /\ client[c].queue # <<>> /\ Head(client[c].queue) # 0
    /\ LET i == Head(client[c].queue) IN
          SetClient(c, IF hub[client[c].run].buffer[i] \in Terminal
                       THEN Closed
                       ELSE [client[c] EXCEPT !.seen = i, !.queue = Tail(@)])
    /\ UNCHANGED <<run, worker, hub, chargeVars, reviewVars, faults>>

(* The end of the stream. *)
ReceiveEnd(c) ==
    /\ client[c].at = "tailing" /\ client[c].queue # <<>> /\ Head(client[c].queue) = 0
    /\ SetClient(c, [client[c] EXCEPT !.at = "ended", !.over = TRUE, !.queue = <<>>])
    /\ UNCHANGED <<run, worker, hub, chargeVars, reviewVars, faults>>

(* A stream that ends before a terminal event is opened again. *)
OpenAgain(c) ==
    /\ client[c].at = "ended"
    /\ SetClient(c, Reconnecting(c))
    /\ UNCHANGED <<run, worker, hub, chargeVars, reviewVars, faults>>

-----------------------------------------------------------------------------
(* The hub, on the loop.                                                   *)

(* Clients whose queue is registered with hub r. *)
Subscribers(r) == {c \in Clients : client[c].at = "tailing" /\ client[c].run = r}

Put(r, i) ==
    client' = [c \in Clients |->
                  IF c \in Subscribers(r) THEN [client[c] EXCEPT !.queue = Append(@, i)]
                  ELSE client[c]]

(* _deliver *)
Publish(r) ==
    /\ hub[r].inbox # <<>> /\ Head(hub[r].inbox) # "end"
    /\ hub' = [hub EXCEPT ![r] = [hub[r] EXCEPT !.inbox = Tail(@),
                                                !.buffer = Append(@, Head(hub[r].inbox))]]
    /\ Put(r, Len(hub[r].buffer) + 1)
    /\ UNCHANGED <<run, worker, chargeVars, reviewVars, faults>>

(* Mutant of CloseHub: the end mark is buffered like an event. *)
BufferTheEnd(r) ==
    /\ hub[r].inbox # <<>> /\ Head(hub[r].inbox) = "end"
    /\ hub' = [hub EXCEPT ![r] = [@ EXCEPT !.inbox = <<>>, !.done = TRUE, !.buffer = Append(@, "end")]]
    /\ Put(r, 0)
    /\ UNCHANGED <<run, worker, chargeVars, reviewVars, faults>>

(* _close *)
CloseHub(r) ==
    /\ hub[r].inbox # <<>> /\ Head(hub[r].inbox) = "end"
    /\ hub' = [hub EXCEPT ![r] = [@ EXCEPT !.inbox = <<>>, !.done = TRUE]]
    /\ Put(r, 0)
    /\ UNCHANGED <<run, worker, chargeVars, reviewVars, faults>>

-----------------------------------------------------------------------------
(* The worker thread.                                                      *)

Goto(r, place) == worker' = [worker EXCEPT ![r] = [@ EXCEPT !.at = place]]

(* call_soon_threadsafe, for each of the events in turn *)
Schedule(r, events) == hub' = [hub EXCEPT ![r] = [hub[r] EXCEPT !.inbox = @ \o events]]

(* The project is loaded once, its ledger with it. *)
Load(r) ==
    /\ worker[r].at = "loading"
    /\ worker' = [worker EXCEPT ![r] =
                     [@ EXCEPT !.at = "stage", !.copy = ledger,
                               !.stage = IF run[r].from = 0 THEN 1 ELSE run[r].from]]
    /\ UNCHANGED <<run, hub, client, chargeVars, reviewVars, faults>>

(***************************************************************************)
(* A stage runs, commits its artifact and reports progress, the last one   *)
(* with the run's summary.                                                 *)
(***************************************************************************)
RunStage(r) ==
    LET s == worker[r].stage IN
    /\ worker[r].at = "stage"
    /\ IF s = LastStage
       THEN /\ Schedule(r, <<"progress", "done">>)
            /\ worker' = [worker EXCEPT ![r] = [NoWorker EXCEPT !.at = "finish", !.outcome = "done"]]
       ELSE /\ Schedule(r, <<"progress">>)
            /\ worker' = [worker EXCEPT ![r] =
                             IF run[r].gated /\ s \in Gates THEN [@ EXCEPT !.at = "pause"]
                             ELSE [@ EXCEPT !.stage = s + 1]]
    /\ UNCHANGED <<run, client, chargeVars, reviewVars, faults>>

(* Mutant of Touch: a pause leaves the gate as it was reviewed. *)
TouchUnlessReviewed(entries, gate) ==
    [g \in Gates |-> IF g = gate /\ entries[g] = "absent" THEN "pending"
                     ELSE IF g > gate THEN "absent" ELSE entries[g]]

(* touch_stage: the gate is pending and every later one not reached. *)
Touch(entries, gate) ==
    [g \in Gates |-> IF g = gate THEN "pending" ELSE IF g > gate THEN "absent" ELSE entries[g]]

Unsign(gate) == signed' = {g \in signed : g < gate}

(* The ledger is written from the copy the worker has kept since it loaded. *)
Pause(r) ==
    /\ worker[r].at = "pause"
    /\ ledger' = Touch(worker[r].copy, worker[r].stage)
    /\ Unsign(worker[r].stage)
    /\ torn' = (torn \/ worker[r].copy # ledger)
    /\ Schedule(r, <<"awaiting">>)
    /\ worker' = [worker EXCEPT ![r] = [NoWorker EXCEPT !.at = "finish", !.outcome = "awaiting"]]
    /\ UNCHANGED <<run, client, chargeVars, edit, reviews, faults>>

(* Mutant of StageRaises: the exception ends the thread. *)
StageKillsTheThread(r) ==
    /\ worker[r].at = "stage"
    /\ worker' = [worker EXCEPT ![r] = [NoWorker EXCEPT !.at = "gone"]]
    /\ UNCHANGED <<run, hub, client, chargeVars, reviewVars, faults>>

(* A stage raises: its work is rolled back and an error reported. *)
StageRaises(r) ==
    /\ worker[r].at = "stage"
    /\ Schedule(r, <<"error">>)
    /\ worker' = [worker EXCEPT ![r] = [NoWorker EXCEPT !.at = "finish", !.outcome = "error"]]
    /\ UNCHANGED <<run, client, chargeVars, reviewVars, faults>>

(* _finish *)
Finish(r) ==
    /\ worker[r].at = "finish"
    /\ run' = [run EXCEPT ![r] = [@ EXCEPT !.status = worker[r].outcome]]
    /\ Goto(r, "close")
    /\ UNCHANGED <<hub, client, chargeVars, reviewVars, faults>>

(* An error of _finish is logged, and the row stays as it is. *)
FinishFails(r) ==
    /\ worker[r].at = "finish"
    /\ Fault
    /\ worker' = [worker EXCEPT ![r] = [@ EXCEPT !.at = "close", !.outcome = "unknown"]]
    /\ UNCHANGED <<run, hub, client, chargeVars, reviewVars>>

Close(r) ==
    /\ worker[r].at = "close"
    /\ Schedule(r, <<"end">>)
    /\ worker' = [worker EXCEPT ![r] = [NoWorker EXCEPT !.at = "gone"]]
    /\ UNCHANGED <<run, client, chargeVars, reviewVars, faults>>

-----------------------------------------------------------------------------
(* Reviews: an endpoint reads the ledger and writes it back whole.  Its few  *)
(* statements are one step; the copies that grow old are those of a worker  *)
(* and of a request that makes an artifact anew.                            *)

Review == reviews < MaxReviews /\ reviews' = reviews + 1

Approve(g) ==
    /\ Review
    /\ ledger' = [ledger EXCEPT ![g] = "approved"]
    /\ signed' = signed \cup {g}
    /\ UNCHANGED <<run, worker, hub, client, chargeVars, edit, torn, faults>>

Reject(g) ==
    /\ Review
    /\ ledger' = Touch(ledger, g)
    /\ Unsign(g)
    /\ UNCHANGED <<run, worker, hub, client, chargeVars, edit, torn, faults>>

(***************************************************************************)
(* Each gated artifact has an endpoint that makes it anew.  It loads the   *)
(* project, ledger and all, and goes on to call its models.                *)
(***************************************************************************)
Regenerate(g) ==
    /\ ~edit[g].on
    /\ Review
    /\ edit' = [edit EXCEPT ![g] = [on |-> TRUE, copy |-> ledger]]
    /\ UNCHANGED <<run, worker, hub, client, chargeVars, ledger, signed, torn, faults>>

(* and commits the artifact with the ledger it has kept, its gate pending. *)
Regenerated(g) ==
    /\ edit[g].on
    /\ ledger' = Touch(edit[g].copy, g)
    /\ Unsign(g)
    /\ torn' = (torn \/ edit[g].copy # ledger)
    /\ edit' = [edit EXCEPT ![g] = NoEdit]
    /\ UNCHANGED <<run, worker, hub, client, chargeVars, reviews, faults>>

-----------------------------------------------------------------------------

(* What a dead process leaves: no worker, no hub, no connection, no request. *)
Die ==
    /\ edit' = [g \in Gates |-> NoEdit]
    /\ worker' = [r \in Runs |-> NoWorker]
    /\ hub' = [r \in Runs |-> [hub[r] EXCEPT !.inbox = <<>>, !.held = FALSE]]
    /\ client' = [c \in Clients |->
                     IF client[c].at \in {"accepted", "tailing"} THEN Reconnecting(c) ELSE client[c]]

(* The process dies and another takes over: every run it finds running is *)
(* an orphan, and reaped before a request is served.                      *)
Restart ==
    /\ Fault
    /\ Die
    /\ run' = [r \in Runs |-> [run[r] EXCEPT !.status = IF @ = "running" THEN "interrupted" ELSE @]]
    /\ UNCHANGED <<chargeVars, ledger, signed, torn, reviews>>

(***************************************************************************)
(* A fresh run is charged, and its row is not written: the process dies in *)
(* between, or start_run raises, which ends the request with a 500.        *)
(***************************************************************************)
ChargeInVain(c) ==
    /\ client[c].at = "connecting" /\ Starts(c)
    /\ IsFresh(c) /\ ~Unpaid(c)
    /\ charged' = charged + 1 /\ runless' = runless + 1
    /\ Fault
    /\ \/ Die
       \/ SetClient(c, Closed) /\ UNCHANGED <<worker, hub, edit>>
    /\ UNCHANGED <<run, ledger, signed, torn, reviews>>

-----------------------------------------------------------------------------

Serve(c) ==
    \/ Start(c) \/ Refuse(c) \/ Attach(c) \/ Resync(c) \/ Reopen(c)
    \/ Subscribe(c) \/ Receive(c) \/ ReceiveEnd(c) \/ OpenAgain(c)

Loop(r) == Publish(r) \/ CloseHub(r)

Work(r) ==
    Load(r) \/ RunStage(r) \/ Pause(r) \/ Finish(r) \/ Close(r)

Next ==
    \/ \E c \in Clients : Open(c) \/ Leave(c) \/ Drop(c) \/ Serve(c) \/ ChargeInVain(c)
    \/ \E r \in Runs : Loop(r) \/ Work(r) \/ StageRaises(r) \/ FinishFails(r)
    \/ \E g \in Gates : Approve(g) \/ Reject(g) \/ Regenerate(g) \/ Regenerated(g)
    \/ Restart

(* The loop serves each connection, and threads and the loop's callbacks *)
(* go on while there are any to run.                                     *)
Fairness ==
    /\ \A c \in Clients : WF_vars(Serve(c))
    /\ WF_vars(\E r \in Runs : Loop(r) \/ Work(r))

Spec == Init /\ [][Next]_vars /\ Fairness

-----------------------------------------------------------------------------

Statuses == {"none", "running", "awaiting", "done", "error", "interrupted"}
Entries == {"absent", "pending", "approved"}
Events == {"progress"} \cup Terminal

TypeOK ==
    /\ run \in [Runs -> [status : Statuses, from : 0..LastStage, gated : BOOLEAN]]
    /\ \A r \in Runs :
          /\ worker[r].at \in {"none", "loading", "stage", "pause", "finish", "close", "gone"}
          /\ worker[r].stage \in 0..LastStage
          /\ worker[r].copy \in [Gates -> Entries]
          /\ hub[r].inbox \in Seq(Events \cup {"end"})
          /\ hub[r].buffer \in Seq(Events)
          /\ hub[r].done \in BOOLEAN /\ hub[r].held \in BOOLEAN
    /\ \A c \in Clients :
          /\ client[c].at \in {"closed", "connecting", "accepted", "tailing", "resynced", "ended"}
          /\ client[c].run \in Runs \cup {0}
          /\ client[c].at \in {"accepted", "tailing", "ended"} => client[c].run # 0
          /\ client[c].queue \in Seq(Nat)
    /\ charged \in 0..Affordable /\ runless \in 0..charged
    /\ ledger \in [Gates -> Entries]
    /\ edit \in [Gates -> [on : BOOLEAN, copy : [Gates -> Entries]]]
    /\ signed \subseteq Gates /\ torn \in BOOLEAN

AtWork == {r \in Runs : worker[r].at \in {"loading", "stage", "pause", "finish"}}

(***************************************************************************)
(* "A run is already executing: attaches to it (no duplicate run)": over   *)
(* reconnects, several tabs, restarts and rows that were never finished,   *)
(* two workers are never at the project's artifacts at once.  (Requests    *)
(* that make one artifact anew look at no run.)                            *)
(***************************************************************************)
OneWorkerAtATime == Cardinality(AtWork) <= 1

FreshRuns == {r \in Started : run[r].from = 0}

(***************************************************************************)
(* "Only a fresh run is charged": each of them once, and nothing else is,  *)
(* neither a stage resumed nor a tab that connects again to its run.  A    *)
(* charge without a run is one whose process died, or could not write the  *)
(* row, in between.                                                        *)
(***************************************************************************)
ChargesMatchRuns == charged = Cardinality(FreshRuns) + runless

(***************************************************************************)
(* "Can't resume past a pause the human hasn't signed off": the ledger     *)
(* approves a gate only if it was signed off since the last pause,         *)
(* rejection or new artifact at it or before it, as long as no two writers *)
(* of the ledger overlapped.                                               *)
(***************************************************************************)
ApprovedIsSignedOff ==
    ~torn => \A g \in Gates : ledger[g] = "approved" => g \in signed

(***************************************************************************)
(* What a tab is given of a run is the hub's log, without gap or           *)
(* repetition, and all of it when the stream says it is over: the queue of *)
(* a subscription is a place in the log.                                   *)
(***************************************************************************)
Following(c) == client[c].at \in {"tailing", "ended"}

PlaceOf(c) ==
    IF client[c].queue # <<>> /\ Head(client[c].queue) # 0 THEN Head(client[c].queue) - 1
    ELSE Len(hub[client[c].run].buffer)

Buffers == [r \in Runs |-> hub[r].buffer]
Finished == {r \in Runs : hub[r].done}

View(c) ==
    [log |-> IF Following(c) THEN client[c].run ELSE 0,
     place |-> IF Following(c) THEN PlaceOf(c) ELSE 0,
     seen |-> client[c].seen,
     over |-> client[c].over]
Views == [c \in Clients |-> View(c)]

Stream == INSTANCE EventTail WITH
    Logs <- Runs, Readers <- Clients, Kinds <- Events,
    log <- Buffers, sealed <- Finished, reader <- Views

TailsTheLog == Stream!Spec

(* A tab that saw more of an earlier run than the latest one ever wrote. *)
NothingLeft(c) ==
    /\ ~Starts(c) /\ Running = {}
    /\ hub[Latest].done /\ Len(hub[Latest].buffer) <= client[c].seen

(***************************************************************************)
(* Every stream comes to its end, whatever fails, unless the hub it is to  *)
(* be reattached to is gone, or belongs to a later and shorter run (or     *)
(* MaxRuns leaves no row to start).                                        *)
(***************************************************************************)
EveryStreamEnds ==
    \A c \in Clients :
        []<>(\/ client[c].at = "closed"
             \/ HubIsGone(c) \/ NothingLeft(c)
             \/ Starts(c) /\ Started = Runs)
=============================================================================
