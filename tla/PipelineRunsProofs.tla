------------------------- MODULE PipelineRunsProofs -------------------------
(***************************************************************************)
(* Proofs about PipelineRuns, for any runs, stages, gates, tabs and        *)
(* faults: its safety, and that its streams implement EventTail.           *)
(*                                                                         *)
(* The inductive invariant is Safe: a row that was not used yet has        *)
(* neither hub nor worker, and a working worker has a running row          *)
(* (Rows); a hub's end is the last thing it hears of (Ends); and the queue *)
(* of a stream is what is left of its hub's log (Tails).                   *)
(***************************************************************************)
EXTENDS PipelineRuns, FiniteSetTheorems, TLAPS

Working == {"loading", "stage", "pause", "finish"}
Places == {"none", "loading", "stage", "pause", "finish", "close", "gone"}
ClientPlaces == {"closed", "connecting", "accepted", "tailing", "resynced", "ended"}

RunRow == [status : Statuses, from : 0..LastStage, gated : BOOLEAN]
WorkerRow == [at : Places, stage : 0..LastStage, copy : [Gates -> Entries],
              outcome : {"none", "unknown"} \cup Terminal]
HubRow == [inbox : Seq(Events \cup {"end"}), buffer : Seq(Events), done : BOOLEAN, held : BOOLEAN]
ClientRow == [at : ClientPlaces, from : 0..LastStage, gated : BOOLEAN, seen : Nat,
              run : Runs \cup {0}, queue : Seq(Nat), over : BOOLEAN]
EditRow == [on : BOOLEAN, copy : [Gates -> Entries]]

Types ==
    /\ run \in [Runs -> RunRow]
    /\ worker \in [Runs -> WorkerRow]
    /\ hub \in [Runs -> HubRow]
    /\ client \in [Clients -> ClientRow]
    /\ charged \in 0..Affordable /\ runless \in Nat
    /\ ledger \in [Gates -> Entries]
    /\ edit \in [Gates -> EditRow]
    /\ signed \subseteq Gates /\ torn \in BOOLEAN
    /\ faults \in Nat

Rows ==
    /\ \A r \in Runs : run[r].status = "none" => hub[r] = NoHub /\ worker[r] = NoWorker
    /\ \A r \in Runs : worker[r].at \in Working => run[r].status = "running"
    /\ \A r \in Runs : worker[r].at = "finish" => worker[r].outcome \in Terminal
    /\ \A q, r \in Runs : worker[q].at \in Working /\ worker[r].at \in Working => q = r

Ends ==
    \A r \in Runs :
        /\ hub[r].done => hub[r].inbox = <<>> /\ worker[r].at \in {"none", "gone"}
        /\ \A i \in 1..Len(hub[r].inbox) :
              hub[r].inbox[i] = "end" => i = Len(hub[r].inbox) /\ worker[r].at = "gone"

(***************************************************************************)
(* The number of events in each log, and of end marks after them.  A queue *)
(* holds the last m of n events, and after them the marks.                 *)
(***************************************************************************)
Lengths == [r \in Runs |-> Len(hub[r].buffer)]
Marks == [r \in Runs |-> IF hub[r].done THEN 1 ELSE 0]

Rest(queue, marks) == Len(queue) - marks

IsRestOf(queue, n, marks) ==
    LET m == Rest(queue, marks) IN
    /\ m \in 0..n
    /\ \A i \in 1..m : queue[i] = (n - m) + i
    /\ marks = 1 => queue[m + 1] = 0

(* What a tab can be while the log of its run has n events. *)
Follows(row, n, marks) ==
    /\ row.at = "closed" => row = Closed
    /\ row.over => row.at = "ended"
    /\ row.at \in {"accepted", "tailing", "ended"} => row.run \in Runs
    /\ row.at = "tailing" => IsRestOf(row.queue, n, marks)
    /\ row.at = "ended" => row.queue = <<>> /\ marks = 1

Tails == \A c \in Clients : Follows(client[c], Lengths[client[c].run], Marks[client[c].run])

Safe == Types /\ Rows /\ Ends /\ Tails /\ ChargesMatchRuns /\ ApprovedIsSignedOff

-----------------------------------------------------------------------------

LEMMA Constants ==
    /\ MaxRuns \in Nat /\ LastStage \in Nat /\ 1 \in 0..LastStage /\ Affordable \in Nat
    /\ Runs \subseteq Nat /\ 0 \notin Runs /\ IsFiniteSet(Runs)
    /\ \A c \in Clients : \A ask \in Asks[c] : ask[1] \in 0..LastStage /\ ask[2] \in BOOLEAN
<1>1. /\ MaxRuns \in Nat /\ LastStage \in Nat /\ 1 \in 0..LastStage /\ Affordable \in Nat
      /\ Runs \subseteq Nat /\ 0 \notin Runs
    BY StagesAssumption, BoundsAssumption DEF Runs
<1>2. IsFiniteSet(Runs)
    BY <1>1, FS_Interval DEF Runs
<1>3. \A c \in Clients : \A ask \in Asks[c] : ask[1] \in 0..LastStage /\ ask[2] \in BOOLEAN
    <2>1. SUFFICES ASSUME NEW c \in Clients, NEW ask \in Asks[c]
                   PROVE  ask[1] \in 0..LastStage /\ ask[2] \in BOOLEAN
        OBVIOUS
    <2>2. Asks[c] \in SUBSET ((0..LastStage) \X BOOLEAN)
        BY StagesAssumption
    <2>3. ask \in (0..LastStage) \X BOOLEAN
        BY <2>2
    <2>4. QED
        BY <2>3
<1>4. QED
    BY <1>1, <1>2, <1>3

LEMMA Blanks ==
    /\ Absent \in RunRow /\ Absent.status = "none"
    /\ NoWorker \in WorkerRow /\ NoWorker.at = "none" /\ NoWorker.outcome = "none"
    /\ NoHub \in HubRow /\ NoHub.inbox = <<>> /\ NoHub.buffer = <<>> /\ NoHub.done = FALSE
    /\ Closed \in ClientRow /\ Closed.at = "closed" /\ Closed.seen = 0 /\ Closed.over = FALSE
    /\ Closed.queue = <<>> /\ Closed.run = 0
    /\ NoEdit \in EditRow
<1>1. Absent \in RunRow /\ Absent.status = "none"
    BY Constants DEF Absent, RunRow, Statuses
<1>2. NoWorker \in WorkerRow /\ NoWorker.at = "none" /\ NoWorker.outcome = "none"
    BY Constants DEF NoWorker, WorkerRow, Places, Entries
<1>3. NoHub \in HubRow /\ NoHub.inbox = <<>> /\ NoHub.buffer = <<>> /\ NoHub.done = FALSE
    BY DEF NoHub, HubRow
<1>4. Closed \in ClientRow /\ Closed.at = "closed" /\ Closed.seen = 0 /\ Closed.over = FALSE
      /\ Closed.queue = <<>> /\ Closed.run = 0
    BY Constants DEF Closed, ClientRow, ClientPlaces
<1>5. NoEdit \in EditRow
    BY DEF NoEdit, EditRow, Entries
<1>6. QED
    BY <1>1, <1>2, <1>3, <1>4, <1>5

LEMMA RunsAreFew ==
    IsFiniteSet(FreshRuns) /\ Cardinality(FreshRuns) \in Nat
<1>1. FreshRuns \subseteq Runs
    BY DEF FreshRuns, Started
<1>2. QED
    BY <1>1, Constants, FS_Subset, FS_CardinalityType

(* The rows, field by field. *)
LEMMA Shapes ==
    ASSUME Types
    PROVE  /\ \A r \in Runs : /\ run[r] \in RunRow /\ worker[r] \in WorkerRow /\ hub[r] \in HubRow
                              /\ run[r].status \in Statuses /\ run[r].from \in 0..LastStage
                              /\ worker[r].at \in Places /\ worker[r].stage \in 0..LastStage
                              /\ worker[r].copy \in [Gates -> Entries]
                              /\ hub[r].inbox \in Seq(Events \cup {"end"}) /\ hub[r].buffer \in Seq(Events)
                              /\ hub[r].done \in BOOLEAN
           /\ \A c \in Clients : /\ client[c] \in ClientRow /\ client[c].at \in ClientPlaces
                                 /\ client[c].from \in 0..LastStage /\ client[c].gated \in BOOLEAN
                                 /\ client[c].seen \in Nat /\ client[c].run \in Runs \cup {0}
                                 /\ client[c].queue \in Seq(Nat) /\ client[c].over \in BOOLEAN
<1>1. \A r \in Runs : run[r] \in RunRow /\ worker[r] \in WorkerRow /\ hub[r] \in HubRow
    BY DEF Types
<1>2. \A c \in Clients : client[c] \in ClientRow
    BY DEF Types
<1>3. \A x \in RunRow : x.status \in Statuses /\ x.from \in 0..LastStage
    BY DEF RunRow
<1>4. \A x \in WorkerRow : x.at \in Places /\ x.stage \in 0..LastStage /\ x.copy \in [Gates -> Entries]
    BY DEF WorkerRow
<1>5. \A x \in HubRow : /\ x.inbox \in Seq(Events \cup {"end"}) /\ x.buffer \in Seq(Events)
                        /\ x.done \in BOOLEAN
    BY DEF HubRow
<1>6. \A x \in ClientRow : /\ x.at \in ClientPlaces /\ x.from \in 0..LastStage /\ x.gated \in BOOLEAN
                           /\ x.seen \in Nat /\ x.run \in Runs \cup {0}
                           /\ x.queue \in Seq(Nat) /\ x.over \in BOOLEAN
    BY DEF ClientRow
<1>7. QED
    BY <1>1, <1>2, <1>3, <1>4, <1>5, <1>6

LEMMA TypesOK ==
    ASSUME Types, Tails, ChargesMatchRuns
    PROVE TypeOK
<1>1. /\ run \in [Runs -> [status : Statuses, from : 0..LastStage, gated : BOOLEAN]]
      /\ charged \in 0..Affordable
      /\ ledger \in [Gates -> Entries]
      /\ edit \in [Gates -> [on : BOOLEAN, copy : [Gates -> Entries]]]
      /\ signed \subseteq Gates /\ torn \in BOOLEAN
    BY DEF Types, RunRow, EditRow
<1>2. \A x \in HubRow : x.held \in BOOLEAN
    BY DEF HubRow
<1>3. \A r \in Runs : hub[r].held \in BOOLEAN
    BY <1>2, Shapes
<1>4. \A r \in Runs :
          /\ worker[r].at \in {"none", "loading", "stage", "pause", "finish", "close", "gone"}
          /\ worker[r].stage \in 0..LastStage
          /\ worker[r].copy \in [Gates -> Entries]
          /\ hub[r].inbox \in Seq(Events \cup {"end"})
          /\ hub[r].buffer \in Seq(Events)
          /\ hub[r].done \in BOOLEAN /\ hub[r].held \in BOOLEAN
    BY <1>3, Shapes DEF Places
<1>5. \A c \in Clients :
          /\ client[c].at \in {"closed", "connecting", "accepted", "tailing", "resynced", "ended"}
          /\ client[c].run \in Runs \cup {0}
          /\ client[c].at \in {"accepted", "tailing", "ended"} => client[c].run # 0
          /\ client[c].queue \in Seq(Nat)
    BY Shapes, Constants DEF ClientPlaces, Tails, Follows
<1>6. runless \in 0..charged
    <2>1. charged \in Nat /\ runless \in Nat /\ Cardinality(FreshRuns) \in Nat
        BY RunsAreFew, Constants DEF Types
    <2>2. QED
        BY <2>1 DEF ChargesMatchRuns
<1>7. QED
    BY <1>1, <1>4, <1>5, <1>6 DEF TypeOK

LEMMA InitSafe ==
    ASSUME Init
    PROVE Safe
<1>1. Types
    <2>1. run \in [Runs -> RunRow] /\ worker \in [Runs -> WorkerRow] /\ hub \in [Runs -> HubRow]
        BY Blanks DEF Init
    <2>2. client \in [Clients -> ClientRow]
        BY Blanks DEF Init
    <2>3. ledger \in [Gates -> Entries] /\ signed \subseteq Gates /\ torn \in BOOLEAN
        BY DEF Init, Entries
    <2>4. charged \in 0..Affordable /\ runless \in Nat /\ faults \in Nat
        BY Constants DEF Init
    <2>5. edit \in [Gates -> EditRow]
        BY Blanks DEF Init
    <2>6. QED
        BY <2>1, <2>2, <2>3, <2>4, <2>5 DEF Types
<1>2. Rows
    BY Blanks DEF Init, Rows, Working
<1>3. Ends
    BY Blanks DEF Init, Ends
<1>4. Tails
    BY Blanks DEF Init, Tails, Follows
<1>5. ChargesMatchRuns
    <2>1. FreshRuns = {}
        BY Blanks DEF Init, FreshRuns, Started
    <2>2. Cardinality(FreshRuns) = 0
        BY <2>1, FS_EmptySet
    <2>3. QED
        BY <2>2 DEF Init, ChargesMatchRuns
<1>6. ApprovedIsSignedOff
    BY DEF Init, ApprovedIsSignedOff
<1>7. QED
    BY <1>1, <1>2, <1>3, <1>4, <1>5, <1>6 DEF Safe

-----------------------------------------------------------------------------
(* Steps of tabs: the logs stay as they are.                               *)

LogsStay == Lengths' = Lengths /\ Marks' = Marks

LEMMA TailsNext ==
    ASSUME \A c \in Clients : Follows(client'[c], Lengths'[client'[c].run], Marks'[client'[c].run])
    PROVE  Tails'
BY DEF Tails, Follows, IsRestOf, Rest

LEMMA TabsMove ==
    ASSUME Tails, LogsStay,
           \A c \in Clients :
              \/ client'[c] = client[c]
              \/ Follows(client'[c], Lengths[client'[c].run], Marks[client'[c].run])
    PROVE  Tails'
<1>1. \A c \in Clients : Follows(client'[c], Lengths[client'[c].run], Marks[client'[c].run])
    BY DEF Tails
<1>2. QED
    BY <1>1, TailsNext DEF LogsStay

(* What a step of the tabs alone leaves as it was. *)
LEMMA OnlyTabs ==
    ASSUME Safe, client' \in [Clients -> ClientRow],
           UNCHANGED <<run, worker, hub, chargeVars, reviewVars>>,
           faults' \in Nat,
           \A c \in Clients :
              \/ client'[c] = client[c]
              \/ Follows(client'[c], Lengths[client'[c].run], Marks[client'[c].run])
    PROVE  Safe'
<1>1. Types'
    BY DEF Safe, Types, chargeVars, reviewVars, RunRow, EditRow
<1>2. Rows'
    BY DEF Safe, Rows
<1>3. Ends'
    BY DEF Safe, Ends
<1>4. Tails'
    <2>1. LogsStay
        BY DEF LogsStay, Lengths, Marks
    <2>2. QED
        BY <2>1, TabsMove DEF Safe
<1>5. ChargesMatchRuns'
    <2>1. FreshRuns' = FreshRuns
        BY DEF FreshRuns, Started
    <2>2. QED
        BY <2>1 DEF Safe, ChargesMatchRuns, chargeVars
<1>6. ApprovedIsSignedOff'
    BY DEF Safe, ApprovedIsSignedOff, reviewVars
<1>7. QED
    BY <1>1, <1>2, <1>3, <1>4, <1>5, <1>6 DEF Safe

(* A tab that is not attached to a stream, or no longer, fits any log. *)
LEMMA Detached ==
    ASSUME NEW row, row.at = "connecting" \/ row.at = "resynced", ~row.over, NEW n, NEW marks
    PROVE  Follows(row, n, marks)
BY DEF Follows

LEMMA ClosedFits ==
    ASSUME NEW n, NEW marks
    PROVE Follows(Closed, n, marks)
BY Blanks DEF Follows

LEMMA ReconnectingRow ==
    ASSUME Types, NEW c \in Clients
    PROVE  /\ Reconnecting(c) \in ClientRow /\ Reconnecting(c).at = "connecting"
           /\ ~Reconnecting(c).over /\ Reconnecting(c).seen = client[c].seen
<1> DEFINE old == client[c]
           new == [old EXCEPT !.at = "connecting", !.run = 0, !.queue = <<>>, !.over = FALSE]
<1>1. old \in ClientRow
    BY DEF Types
<1>2. Reconnecting(c) = new
    BY DEF Reconnecting
<1>3. old.seen = client[c].seen
    OBVIOUS
<1> HIDE DEF old
<1>4. new.at = "connecting" /\ ~new.over /\ new.seen = old.seen
    BY <1>1 DEF ClientRow
<1>5. <<>> \in Seq(Nat) /\ "connecting" \in ClientPlaces
    BY DEF ClientPlaces
<1>6. new \in ClientRow
    BY <1>1, <1>5 DEF ClientRow
<1>7. QED
    BY <1>2, <1>3, <1>4, <1>6

LEMMA OneTab ==
    ASSUME Safe, NEW c \in Clients, NEW row \in ClientRow, SetClient(c, row),
           Follows(row, Lengths[row.run], Marks[row.run]),
           UNCHANGED <<run, worker, hub, chargeVars, reviewVars>>,
           faults' \in Nat
    PROVE  Safe'
<1>1. client \in [Clients -> ClientRow]
    BY DEF Safe, Types
<1>2. client' \in [Clients -> ClientRow]
    BY <1>1 DEF SetClient
<1>3. \A d \in Clients :
          \/ client'[d] = client[d]
          \/ Follows(client'[d], Lengths[client'[d].run], Marks[client'[d].run])
    BY <1>1 DEF SetClient
<1>4. QED
    BY <1>2, <1>3, OnlyTabs

LEMMA FaultsCount ==
    ASSUME Types
    PROVE  (faults' = faults => faults' \in Nat) /\ (Fault => faults' \in Nat)
BY DEF Types, Fault

LEMMA OpenSafe ==
    ASSUME Safe, NEW c \in Clients, Open(c)
    PROVE Safe'
<1>1. PICK ask \in Asks[c] :
          SetClient(c, [Closed EXCEPT !.at = "connecting", !.from = ask[1], !.gated = ask[2]])
    BY DEF Open
<1> DEFINE row == [Closed EXCEPT !.at = "connecting", !.from = ask[1], !.gated = ask[2]]
<1>2. ask[1] \in 0..LastStage /\ ask[2] \in BOOLEAN
    BY Constants
<1>3. row \in ClientRow /\ row.at = "connecting" /\ ~row.over
    BY <1>2, Blanks DEF ClientRow, ClientPlaces
<1>4. SetClient(c, row)
    BY <1>1
<1>5. UNCHANGED <<run, worker, hub, chargeVars, reviewVars>> /\ faults' = faults
    BY DEF Open
<1> HIDE DEF row
<1>6. Follows(row, Lengths[row.run], Marks[row.run])
    BY <1>3, Detached
<1>7. QED
    BY <1>3, <1>4, <1>5, <1>6, OneTab, FaultsCount DEF Safe

LEMMA CloseSafe ==
    ASSUME Safe, NEW c \in Clients, SetClient(c, Closed),
           UNCHANGED <<run, worker, hub, chargeVars, reviewVars, faults>>
    PROVE  Safe'
BY Blanks, ClosedFits, OneTab, FaultsCount DEF Safe

LEMMA ReconnectSafe ==
    ASSUME Safe, NEW c \in Clients, SetClient(c, Reconnecting(c)),
           UNCHANGED <<run, worker, hub, chargeVars, reviewVars>>,
           faults' \in Nat
    PROVE  Safe'
<1> DEFINE row == Reconnecting(c)
<1>1. row \in ClientRow /\ row.at = "connecting" /\ ~row.over
    BY ReconnectingRow DEF Safe
<1>2. SetClient(c, row)
    OBVIOUS
<1> HIDE DEF row
<1>3. Follows(row, Lengths[row.run], Marks[row.run])
    BY <1>1, Detached
<1>4. QED
    BY <1>1, <1>2, <1>3, OneTab

LEMMA DropSafe ==
    ASSUME Safe, NEW c \in Clients, Drop(c)
    PROVE Safe'
BY ReconnectSafe, FaultsCount DEF Safe, Drop

LEMMA ReopenSafe ==
    ASSUME Safe, NEW c \in Clients, Reopen(c) \/ OpenAgain(c)
    PROVE Safe'
BY ReconnectSafe, FaultsCount DEF Safe, Reopen, OpenAgain

LEMMA LeaveSafe ==
    ASSUME Safe, NEW c \in Clients, Leave(c) \/ Refuse(c)
    PROVE Safe'
BY CloseSafe DEF Leave, Refuse

(* A tab is in no stream until it is tailing. *)
LEMMA NotOver ==
    ASSUME Safe, NEW c \in Clients, client[c].at # "ended"
    PROVE  ~client[c].over
<1>1. client[c].over \in BOOLEAN
    BY Shapes DEF Safe
<1>2. QED
    BY <1>1 DEF Safe, Tails, Follows

LEMMA AttachSafe ==
    ASSUME Safe, NEW c \in Clients, Attach(c)
    PROVE Safe'
<1>1. PICK r \in Runs : Accept(c, r)
    BY DEF Attach
<1> DEFINE row == [client[c] EXCEPT !.at = "accepted", !.run = r]
<1>2. client[c] \in ClientRow /\ ~client[c].over
    BY NotOver DEF Safe, Types, Attach
<1>3. row \in ClientRow /\ row.at = "accepted" /\ ~row.over /\ row.run = r
    BY <1>2 DEF ClientRow, ClientPlaces
<1>4. Follows(row, Lengths[row.run], Marks[row.run])
    BY <1>3 DEF Follows
<1>5. SetClient(c, row) /\ UNCHANGED <<run, worker, hub, chargeVars, reviewVars>> /\ faults' = faults
    BY <1>1 DEF Accept, Attach
<1> HIDE DEF row
<1>6. QED
    BY <1>3, <1>4, <1>5, OneTab, FaultsCount DEF Safe

LEMMA ResyncSafe ==
    ASSUME Safe, NEW c \in Clients, Resync(c)
    PROVE Safe'
<1> DEFINE row == [client[c] EXCEPT !.at = "resynced"]
<1>1. client[c] \in ClientRow /\ ~client[c].over
    BY NotOver DEF Safe, Types, Resync
<1>2. row \in ClientRow /\ row.at = "resynced" /\ ~row.over
    BY <1>1 DEF ClientRow, ClientPlaces
<1>3. SetClient(c, row) /\ UNCHANGED <<run, worker, hub, chargeVars, reviewVars>> /\ faults' = faults
    BY DEF Resync
<1> HIDE DEF row
<1>4. Follows(row, Lengths[row.run], Marks[row.run])
    BY <1>2, Detached
<1>5. QED
    BY <1>2, <1>3, <1>4, OneTab, FaultsCount DEF Safe

-----------------------------------------------------------------------------
(* The queue of a stream.                                                  *)

LEMMA Missed ==
    ASSUME NEW k \in Nat, NEW n \in Nat, n > k
    PROVE  /\ After(k, n) \in Seq(Nat) /\ Len(After(k, n)) = n - k
           /\ \A i \in 1..n - k : After(k, n)[i] = k + i
BY DEF After

LEMMA NoneMissed ==
    ASSUME NEW k \in Nat, NEW n \in Nat, ~(n > k)
    PROVE  After(k, n) = <<>>
BY DEF After

(* The mark of the end is put in the queue, or is not there yet. *)
LEMMA RestEnds ==
    ASSUME NEW queue \in Seq(Nat), NEW n \in Nat, IsRestOf(queue, n, 0)
    PROVE  /\ IsRestOf(Append(queue, 0), n, 1)
           /\ Rest(Append(queue, 0), 1) = Rest(queue, 0)
<1> DEFINE l == Len(queue)
           longer == Append(queue, 0)
<1>1. /\ l \in 0..n /\ Rest(queue, 0) = l
      /\ \A i \in 1..l : queue[i] = (n - l) + i
    BY DEF IsRestOf, Rest
<1>2. /\ Len(longer) = l + 1 /\ longer[l + 1] = 0
      /\ \A i \in 1..l : longer[i] = queue[i]
    OBVIOUS
<1> HIDE DEF l, longer
<1>3. Rest(longer, 1) = l
    BY <1>1, <1>2 DEF Rest
<1>4. IsRestOf(longer, n, 1)
    BY <1>1, <1>2, <1>3 DEF IsRestOf
<1>5. QED
    BY <1>1, <1>3, <1>4 DEF longer

LEMMA RestGrows ==
    ASSUME NEW queue \in Seq(Nat), NEW n \in Nat, IsRestOf(queue, n, 0)
    PROVE  /\ IsRestOf(Append(queue, n + 1), n + 1, 0)
           /\ Rest(Append(queue, n + 1), 0) = Rest(queue, 0) + 1
<1> DEFINE l == Len(queue)
           longer == Append(queue, n + 1)
<1>1. /\ l \in 0..n /\ Rest(queue, 0) = l
      /\ \A i \in 1..l : queue[i] = (n - l) + i
    BY DEF IsRestOf, Rest
<1>2. /\ Len(longer) = l + 1 /\ longer[l + 1] = n + 1
      /\ \A i \in 1..l : longer[i] = queue[i]
    OBVIOUS
<1> HIDE DEF l, longer
<1>3. Rest(longer, 0) = l + 1
    BY <1>1, <1>2 DEF Rest
<1>4. ASSUME NEW i \in 1..l + 1
      PROVE  longer[i] = ((n + 1) - (l + 1)) + i
    <2>1. CASE i = l + 1
        BY <1>1, <1>2, <2>1
    <2>2. CASE i # l + 1
        <3>1. i \in 1..l
            BY <1>1, <2>2
        <3>2. QED
            BY <1>1, <1>2, <3>1
    <2>3. QED
        BY <2>1, <2>2
<1> DEFINE m == l + 1
           high == n + 1
<1>5. IsRestOf(longer, high, 0)
    <2>1. Rest(longer, 0) = m /\ m \in 0..high /\ \A i \in 1..m : longer[i] = (high - m) + i
        BY <1>1, <1>3, <1>4
    <2> HIDE DEF m, high
    <2>2. QED
        BY <2>1 DEF IsRestOf
<1>6. QED
    BY <1>1, <1>3, <1>5 DEF longer

LEMMA MissedIsRest ==
    ASSUME NEW k \in Nat, NEW n \in Nat
    PROVE  /\ After(k, n) \in Seq(Nat) /\ IsRestOf(After(k, n), n, 0)
           /\ Rest(After(k, n), 0) = IF n > k THEN n - k ELSE 0
<1>1. CASE n > k
    <2>1. Rest(After(k, n), 0) = n - k
        BY <1>1, Missed DEF Rest
    <2>2. \A i \in 1..n - k : After(k, n)[i] = (n - (n - k)) + i
        BY <1>1, Missed
    <2>3. IsRestOf(After(k, n), n, 0)
        BY <1>1, <2>1, <2>2 DEF IsRestOf
    <2>4. QED
        BY <1>1, <2>1, <2>3, Missed
<1>2. CASE ~(n > k)
    <2>1. After(k, n) = <<>>
        BY <1>2, NoneMissed
    <2>2. Rest(After(k, n), 0) = 0
        BY <2>1 DEF Rest
    <2>3. IsRestOf(After(k, n), n, 0)
        BY <2>2 DEF IsRestOf
    <2>4. <<>> \in Seq(Nat)
        OBVIOUS
    <2>5. After(k, n) \in Seq(Nat)
        BY <2>1, <2>4
    <2>6. QED
        BY <1>2, <2>2, <2>3, <2>5
<1>3. QED
    BY <1>1, <1>2

(* What a tab missed is what is left for it. *)
LEMMA CatchUp ==
    ASSUME NEW k \in Nat, NEW n \in Nat, NEW marks \in {0, 1}, NEW queue,
           queue = IF marks = 1 THEN After(k, n) \o << 0 >> ELSE After(k, n) \o <<>>
    PROVE  /\ queue \in Seq(Nat) /\ IsRestOf(queue, n, marks)
           /\ Rest(queue, marks) = IF n > k THEN n - k ELSE 0
<1> DEFINE missed == After(k, n)
<1>1. missed \in Seq(Nat) /\ IsRestOf(missed, n, 0)
      /\ Rest(missed, 0) = IF n > k THEN n - k ELSE 0
    BY MissedIsRest
<1>2. queue = IF marks = 1 THEN missed \o << 0 >> ELSE missed \o <<>>
    OBVIOUS
<1> HIDE DEF missed
<1>3. missed \o << 0 >> = Append(missed, 0) /\ missed \o <<>> = missed /\ Append(missed, 0) \in Seq(Nat)
    BY <1>1
<1>4. CASE marks = 1
    BY <1>1, <1>2, <1>3, <1>4, RestEnds
<1>5. CASE marks = 0
    BY <1>1, <1>2, <1>3, <1>5
<1>6. QED
    BY <1>4, <1>5

(* The head of the queue is the next event, or the end. *)
LEMMA RestHead ==
    ASSUME NEW queue \in Seq(Nat), NEW n \in Nat, NEW marks \in {0, 1},
           IsRestOf(queue, n, marks), queue # <<>>
    PROVE  /\ Head(queue) = 0 => marks = 1 /\ Rest(queue, marks) = 0
           /\ Head(queue) # 0 =>
                 /\ Head(queue) = (n - Rest(queue, marks)) + 1 /\ Head(queue) \in 1..n
                 /\ Tail(queue) \in Seq(Nat) /\ IsRestOf(Tail(queue), n, marks)
                 /\ Rest(Tail(queue), marks) = Rest(queue, marks) - 1
<1> DEFINE m == Rest(queue, marks)
           rest == Tail(queue)
<1>1. /\ m \in 0..n
      /\ \A i \in 1..m : queue[i] = (n - m) + i
      /\ marks = 1 => queue[m + 1] = 0
    BY DEF IsRestOf
<1>2. Len(queue) = m + marks /\ Len(queue) \in Nat \ {0} /\ Head(queue) = queue[1]
    BY DEF Rest
<1>3. /\ rest \in Seq(Nat) /\ Len(rest) = Len(queue) - 1
      /\ \A i \in 1..Len(queue) - 1 : rest[i] = queue[i + 1]
    BY <1>2
<1>4. Rest(rest, marks) = Len(rest) - marks
    BY DEF Rest
<1> HIDE DEF m, rest
<1>5. CASE m = 0
    BY <1>1, <1>2, <1>5 DEF m
<1>6. CASE m # 0
    <2>1. queue[1] = (n - m) + 1 /\ queue[1] \in 1..n
        BY <1>1, <1>6
    <2>2. Rest(rest, marks) = m - 1
        BY <1>1, <1>2, <1>3, <1>4
    <2>3. ASSUME NEW i \in 1..m - 1
          PROVE  rest[i] = (n - (m - 1)) + i
        <3>1. i \in 1..Len(queue) - 1 /\ i + 1 \in 1..m
            BY <1>1, <1>2
        <3>2. rest[i] = queue[i + 1]
            BY <1>3, <3>1
        <3>3. queue[i + 1] = (n - m) + (i + 1)
            BY <1>1, <3>1
        <3>4. QED
            BY <1>1, <3>2, <3>3
    <2>4. ASSUME marks = 1
          PROVE  rest[(m - 1) + 1] = 0
        <3>1. m \in 1..Len(queue) - 1
            BY <1>1, <1>2, <1>6, <2>4
        <3>2. rest[m] = queue[m + 1]
            BY <1>3, <3>1
        <3>3. QED
            BY <1>1, <2>4, <3>2
    <2>5. IsRestOf(rest, n, marks)
        BY <1>1, <1>6, <2>2, <2>3, <2>4 DEF IsRestOf
    <2>6. QED
        BY <1>2, <1>3, <2>1, <2>2, <2>5 DEF m, rest
<1>7. QED
    BY <1>5, <1>6

-----------------------------------------------------------------------------
(* Steps of streams.                                                       *)

LEMMA LogsTyped ==
    ASSUME Types, NEW r \in Runs
    PROVE  /\ Lengths[r] = Len(hub[r].buffer) /\ Lengths[r] \in Nat
           /\ Marks[r] = (IF hub[r].done THEN 1 ELSE 0) /\ Marks[r] \in {0, 1}
<1>1. hub[r].buffer \in Seq(Events)
    BY Shapes
<1>2. Lengths[r] = Len(hub[r].buffer) /\ Marks[r] = (IF hub[r].done THEN 1 ELSE 0)
    BY DEF Lengths, Marks
<1>3. QED
    BY <1>1, <1>2

(* What is known of a tab that is tailing. *)
LEMMA TailingTab ==
    ASSUME Safe, NEW c \in Clients, client[c].at = "tailing"
    PROVE  /\ client[c] \in ClientRow /\ client[c].queue \in Seq(Nat) /\ client[c].seen \in Nat
           /\ client[c].run \in Runs /\ ~client[c].over
           /\ Lengths[client[c].run] \in Nat /\ Marks[client[c].run] \in {0, 1}
           /\ Lengths[client[c].run] = Len(hub[client[c].run].buffer)
           /\ IsRestOf(client[c].queue, Lengths[client[c].run], Marks[client[c].run])
<1>1. Follows(client[c], Lengths[client[c].run], Marks[client[c].run])
    BY DEF Safe, Tails
<1>2. client[c].run \in Runs /\ IsRestOf(client[c].queue, Lengths[client[c].run], Marks[client[c].run])
    BY <1>1 DEF Follows
<1>3. QED
    BY <1>2, Shapes, LogsTyped, NotOver DEF Safe

(* The first queue of a stream. *)
LEMMA Backlog ==
    ASSUME Types, NEW r \in Runs, NEW k \in Nat, NEW queue,
           queue = After(k, Len(hub[r].buffer)) \o (IF hub[r].done THEN << 0 >> ELSE <<>>)
    PROVE  /\ queue \in Seq(Nat) /\ IsRestOf(queue, Lengths[r], Marks[r])
           /\ Rest(queue, Marks[r]) = IF Lengths[r] > k THEN Lengths[r] - k ELSE 0
<1> DEFINE n == Lengths[r]
           marks == Marks[r]
<1>1. n = Len(hub[r].buffer) /\ marks = (IF hub[r].done THEN 1 ELSE 0)
    BY LogsTyped
<1>2. n \in Nat /\ marks \in {0, 1}
    BY LogsTyped
<1> HIDE DEF n, marks
<1>3. queue = IF marks = 1 THEN After(k, n) \o << 0 >> ELSE After(k, n) \o <<>>
    <2>1. CASE hub[r].done
        BY <1>1, <2>1
    <2>2. CASE ~hub[r].done
        BY <1>1, <2>2
    <2>3. QED
        BY <2>1, <2>2
<1>4. queue \in Seq(Nat) /\ IsRestOf(queue, n, marks) /\ Rest(queue, marks) = IF n > k THEN n - k ELSE 0
    BY <1>2, <1>3, CatchUp
<1>5. QED
    BY <1>4 DEF n, marks

LEMMA SubscribeSafe ==
    ASSUME Safe, NEW c \in Clients, Subscribe(c)
    PROVE Safe'
<1> DEFINE old == client[c]
           queue == After(old.seen, Len(hub[old.run].buffer))
                    \o (IF hub[old.run].done THEN << 0 >> ELSE <<>>)
           row == [old EXCEPT !.at = "tailing", !.queue = queue]
<1>1. Follows(old, Lengths[old.run], Marks[old.run]) /\ old.at = "accepted"
    BY DEF Safe, Tails, Subscribe
<1>2. old \in ClientRow /\ old.seen \in Nat /\ old.run \in Runs /\ ~old.over
    BY <1>1, Shapes, NotOver DEF Safe, Follows
<1>3. SetClient(c, row) /\ UNCHANGED <<run, worker, hub, chargeVars, reviewVars>> /\ faults' = faults
    BY DEF Subscribe
<1>4. queue \in Seq(Nat) /\ IsRestOf(queue, Lengths[old.run], Marks[old.run])
    BY <1>2, Backlog DEF Safe
<1> HIDE DEF old, queue
<1>5. row \in ClientRow /\ row.at = "tailing" /\ ~row.over /\ row.run = old.run /\ row.queue = queue
    BY <1>2, <1>4 DEF ClientRow, ClientPlaces
<1> HIDE DEF row
<1>6. Follows(row, Lengths[row.run], Marks[row.run])
    BY <1>2, <1>4, <1>5 DEF Follows
<1>7. QED
    BY <1>3, <1>5, <1>6, OneTab, FaultsCount DEF Safe

LEMMA ReceiveSafe ==
    ASSUME Safe, NEW c \in Clients, Receive(c)
    PROVE Safe'
<1> DEFINE old == client[c]
           i == Head(old.queue)
           row == [old EXCEPT !.seen = i, !.queue = Tail(@)]
<1>1. /\ old \in ClientRow /\ old.queue \in Seq(Nat) /\ old.run \in Runs /\ ~old.over
      /\ old.at = "tailing" /\ Lengths[old.run] \in Nat /\ Marks[old.run] \in {0, 1}
      /\ IsRestOf(old.queue, Lengths[old.run], Marks[old.run])
      /\ old.queue # <<>> /\ i # 0
    BY TailingTab DEF Receive
<1>2. /\ SetClient(c, Closed) \/ SetClient(c, row)
      /\ UNCHANGED <<run, worker, hub, chargeVars, reviewVars, faults>>
    BY DEF Receive
<1>3. /\ i \in Nat /\ Tail(old.queue) \in Seq(Nat)
      /\ IsRestOf(Tail(old.queue), Lengths[old.run], Marks[old.run])
    BY <1>1, RestHead
<1> HIDE DEF old, i
<1>4. /\ row \in ClientRow /\ row.at = "tailing" /\ ~row.over /\ row.run = old.run
      /\ row.queue = Tail(old.queue)
    BY <1>1, <1>3 DEF ClientRow
<1> HIDE DEF row
<1>5. Follows(row, Lengths[row.run], Marks[row.run])
    BY <1>1, <1>3, <1>4 DEF Follows
<1>6. CASE SetClient(c, Closed)
    BY <1>2, <1>6, CloseSafe
<1>7. CASE SetClient(c, row)
    BY <1>2, <1>4, <1>5, <1>7, OneTab, FaultsCount DEF Safe
<1>8. QED
    BY <1>2, <1>6, <1>7

LEMMA ReceiveEndSafe ==
    ASSUME Safe, NEW c \in Clients, ReceiveEnd(c)
    PROVE Safe'
<1> DEFINE old == client[c]
           row == [old EXCEPT !.at = "ended", !.over = TRUE, !.queue = <<>>]
<1>1. /\ old \in ClientRow /\ old.queue \in Seq(Nat) /\ old.run \in Runs
      /\ Lengths[old.run] \in Nat /\ Marks[old.run] \in {0, 1}
      /\ IsRestOf(old.queue, Lengths[old.run], Marks[old.run])
      /\ old.queue # <<>> /\ Head(old.queue) = 0
    BY TailingTab DEF ReceiveEnd
<1>2. SetClient(c, row) /\ UNCHANGED <<run, worker, hub, chargeVars, reviewVars>> /\ faults' = faults
    BY DEF ReceiveEnd
<1>3. Marks[old.run] = 1
    BY <1>1, RestHead
<1> HIDE DEF old
<1>4. row.at = "ended" /\ row.over = TRUE /\ row.run = old.run /\ row.queue = <<>>
    BY <1>1 DEF ClientRow
<1>5. <<>> \in Seq(Nat) /\ "ended" \in ClientPlaces
    BY DEF ClientPlaces
<1>6. row \in ClientRow
    BY <1>1, <1>5 DEF ClientRow
<1> HIDE DEF row
<1>7. Follows(row, Lengths[row.run], Marks[row.run])
    BY <1>1, <1>3, <1>4 DEF Follows
<1>8. QED
    BY <1>2, <1>6, <1>7, OneTab, FaultsCount DEF Safe

-----------------------------------------------------------------------------
(* Steps of hubs on the loop.                                              *)

LEMMA PutTyped ==
    ASSUME Types, NEW r \in Runs, NEW i \in Nat, Put(r, i)
    PROVE  /\ client' \in [Clients -> ClientRow]
           /\ \A c \in Subscribers(r) :
                 client'[c] = [client[c] EXCEPT !.queue = Append(client[c].queue, i)]
           /\ \A c \in Clients \ Subscribers(r) : client'[c] = client[c]
<1>1. ASSUME NEW c \in Clients
      PROVE  [client[c] EXCEPT !.queue = Append(client[c].queue, i)] \in ClientRow
    <2> DEFINE old == client[c]
               longer == Append(old.queue, i)
    <2>1. old \in ClientRow /\ longer \in Seq(Nat)
        BY Shapes
    <2> HIDE DEF old, longer
    <2>2. [old EXCEPT !.queue = longer] \in ClientRow
        BY <2>1 DEF ClientRow
    <2>3. QED
        BY <2>2 DEF old, longer
<1>2. \A c \in Clients : client[c] \in ClientRow
    BY DEF Types
<1>3. client' = [c \in Clients |->
                    IF c \in Subscribers(r) THEN [client[c] EXCEPT !.queue = Append(client[c].queue, i)]
                    ELSE client[c]]
    BY DEF Put
<1>4. Subscribers(r) \subseteq Clients
    BY DEF Subscribers
<1>5. QED
    BY <1>1, <1>2, <1>3, <1>4

(* The end of a hub is news to its subscribers, and to nobody before it. *)
LEMMA HubSteps ==
    ASSUME Safe, NEW r \in Runs, NEW row \in HubRow, NEW i \in Nat, NEW marks,
           hub' = [hub EXCEPT ![r] = row], Put(r, i),
           UNCHANGED <<run, worker, chargeVars, reviewVars, faults>>,
           hub[r].inbox # <<>>,
           row.done => row.inbox = <<>> /\ worker[r].at = "gone",
           \A j \in 1..Len(row.inbox) :
              row.inbox[j] = "end" => j = Len(row.inbox) /\ worker[r].at = "gone",
           row.done => marks = 1, ~row.done => marks = 0,
           \A queue \in Seq(Nat) :
              IsRestOf(queue, Lengths[r], 0) => IsRestOf(Append(queue, i), Len(row.buffer), marks)
    PROVE  Safe'
<1>1. hub \in [Runs -> HubRow] /\ ~hub[r].done /\ run[r].status # "none"
    <2>1. hub[r].done \in BOOLEAN /\ hub \in [Runs -> HubRow]
        BY Shapes DEF Safe, Types
    <2>2. QED
        BY <2>1, Blanks DEF Safe, Rows, Ends
<1>2. hub' \in [Runs -> HubRow] /\ hub'[r] = row /\ \A q \in Runs \ {r} : hub'[q] = hub[q]
    BY <1>1
<1>3. Types'
    BY <1>2, PutTyped DEF Safe, Types, chargeVars, reviewVars, RunRow, EditRow
<1>4. Rows'
    <2>1. \A q \in Runs : run[q].status = "none" => hub'[q] = NoHub
        BY <1>1, <1>2 DEF Safe, Rows
    <2>2. QED
        BY <2>1 DEF Safe, Rows
<1>5. Ends'
    <2>1. \A q \in Runs \ {r} :
              /\ hub'[q].done => hub'[q].inbox = <<>> /\ worker[q].at \in {"none", "gone"}
              /\ \A j \in 1..Len(hub'[q].inbox) :
                    hub'[q].inbox[j] = "end" => j = Len(hub'[q].inbox) /\ worker[q].at = "gone"
        BY <1>2 DEF Safe, Ends
    <2>2. QED
        BY <1>2, <2>1 DEF Ends
<1>6. Tails'
    <2>1. ASSUME NEW c \in Clients
          PROVE  Follows(client'[c], Lengths'[client'[c].run], Marks'[client'[c].run])
        <3>1. Follows(client[c], Lengths[client[c].run], Marks[client[c].run])
            BY DEF Safe, Tails
        <3>2. /\ Lengths'[r] = Len(row.buffer) /\ Marks'[r] = marks
              /\ \A q \in Runs \ {r} : Lengths'[q] = Lengths[q] /\ Marks'[q] = Marks[q]
            BY <1>2 DEF Lengths, Marks
        <3>3. Marks[r] = 0
            BY <1>1 DEF Marks
        <3>4. CASE c \in Subscribers(r)
            <4> DEFINE old == client[c]
                       longer == Append(old.queue, i)
                       new == [old EXCEPT !.queue = longer]
            <4>1. old.at = "tailing" /\ old.run = r
                BY <3>4 DEF Subscribers
            <4>2. old \in ClientRow /\ old.queue \in Seq(Nat) /\ ~old.over /\ IsRestOf(old.queue, Lengths[r], 0)
                BY <3>3, <4>1, TailingTab, SMTT(30)
            <4>3. IsRestOf(longer, Len(row.buffer), marks)
                BY <4>2
            <4>4. client'[c] = new
                <5>1. client' = [d \in Clients |->
                                    IF d \in Subscribers(r)
                                    THEN [client[d] EXCEPT !.queue = Append(client[d].queue, i)]
                                    ELSE client[d]]
                    BY DEF Put
                <5>2. QED
                    BY <3>4, <5>1, Zenon
            <4> HIDE DEF old, longer
            <4>5. new.at = "tailing" /\ new.run = r /\ ~new.over /\ new.queue = longer
                BY <4>1, <4>2 DEF ClientRow
            <4> HIDE DEF new
            <4>6. Follows(new, Len(row.buffer), marks)
                BY <4>3, <4>5 DEF Follows
            <4>7. QED
                BY <3>2, <4>4, <4>5, <4>6
        <3>5. CASE c \notin Subscribers(r)
            <4>1. client'[c] = client[c]
                BY <3>5, PutTyped DEF Safe
            <4>2. CASE client[c].run = r
                <5>1. client[c].at # "tailing" /\ client[c].at # "ended"
                    BY <3>1, <3>3, <3>5, <4>2 DEF Follows, Subscribers
                <5>2. QED
                    BY <3>1, <4>1, <5>1 DEF Follows
            <4>3. CASE client[c].run \in Runs \ {r}
                BY <3>1, <3>2, <4>1, <4>3
            <4>4. CASE client[c].run \notin Runs
                BY <3>1, <4>1, <4>4 DEF Follows
            <4>5. QED
                BY <4>2, <4>3, <4>4
        <3>6. QED
            BY <3>4, <3>5
    <2>2. QED
        BY <2>1, TailsNext
<1>7. ChargesMatchRuns'
    <2>1. FreshRuns' = FreshRuns
        BY DEF FreshRuns, Started
    <2>2. QED
        BY <2>1 DEF Safe, ChargesMatchRuns, chargeVars
<1>8. ApprovedIsSignedOff'
    BY DEF Safe, ApprovedIsSignedOff, reviewVars
<1>9. QED
    BY <1>3, <1>4, <1>5, <1>6, <1>7, <1>8 DEF Safe

LEMMA PublishSafe ==
    ASSUME Safe, NEW r \in Runs, Publish(r)
    PROVE Safe'
<1> DEFINE h == hub[r]
           n == Len(h.buffer)
           event == Head(h.inbox)
           row == [h EXCEPT !.inbox = Tail(@), !.buffer = Append(@, event)]
<1>1. h \in HubRow /\ h.inbox \in Seq(Events \cup {"end"}) /\ h.buffer \in Seq(Events) /\ n \in Nat
    BY Shapes DEF Safe
<1>2. h.inbox # <<>> /\ event # "end"
    BY DEF Publish
<1>3. /\ hub' = [hub EXCEPT ![r] = row]
      /\ Put(r, n + 1)
      /\ UNCHANGED <<run, worker, chargeVars, reviewVars, faults>>
    BY DEF Publish
<1>4. Lengths[r] = n
    BY DEF Lengths
<1>5. ~h.done
    BY <1>2 DEF Safe, Ends
<1>6. \A j \in 1..Len(h.inbox) : h.inbox[j] = "end" => j = Len(h.inbox) /\ worker[r].at = "gone"
    BY DEF Safe, Ends
<1> HIDE DEF h
<1>7. event \in Events /\ Tail(h.inbox) \in Seq(Events \cup {"end"})
    BY <1>1, <1>2
<1>8. Append(h.buffer, event) \in Seq(Events) /\ Len(Append(h.buffer, event)) = n + 1
    BY <1>1, <1>7
<1>9. row \in HubRow /\ ~row.done /\ row.inbox = Tail(h.inbox) /\ Len(row.buffer) = n + 1
    <2>1. row.inbox = Tail(h.inbox) /\ row.buffer = Append(h.buffer, event) /\ row.done = h.done
        BY <1>1 DEF HubRow
    <2>2. row \in HubRow
        BY <1>1, <1>7, <1>8 DEF HubRow
    <2>3. QED
        BY <1>5, <1>8, <2>1, <2>2
<1>10. \A j \in 1..Len(Tail(h.inbox)) :
           Tail(h.inbox)[j] = "end" => j = Len(Tail(h.inbox)) /\ worker[r].at = "gone"
    <2>1. Len(Tail(h.inbox)) = Len(h.inbox) - 1 /\ Len(h.inbox) \in Nat \ {0}
        BY <1>1, <1>2
    <2>2. ASSUME NEW j \in 1..Len(h.inbox) - 1
          PROVE  j + 1 \in 1..Len(h.inbox) /\ Tail(h.inbox)[j] = h.inbox[j + 1]
        BY <1>1, <1>2, <2>1
    <2>3. QED
        BY <1>6, <2>1, <2>2
<1>11. \A queue \in Seq(Nat) : IsRestOf(queue, n, 0) => IsRestOf(Append(queue, n + 1), n + 1, 0)
    BY <1>1, RestGrows
<1>12. n + 1 \in Nat /\ hub[r].inbox # <<>>
    BY <1>1, <1>2 DEF h
<1> HIDE DEF n, event, row
<1>13. \A j \in 1..Len(row.inbox) :
           row.inbox[j] = "end" => j = Len(row.inbox) /\ worker[r].at = "gone"
    BY <1>9, <1>10
<1>14. \A queue \in Seq(Nat) :
           IsRestOf(queue, Lengths[r], 0) => IsRestOf(Append(queue, n + 1), Len(row.buffer), 0)
    BY <1>4, <1>9, <1>11
<1>15. QED
    BY <1>3, <1>9, <1>12, <1>13, <1>14, HubSteps

LEMMA CloseHubSafe ==
    ASSUME Safe, NEW r \in Runs, CloseHub(r)
    PROVE Safe'
<1> DEFINE h == hub[r]
           n == Len(h.buffer)
           row == [h EXCEPT !.inbox = <<>>, !.done = TRUE]
<1>1. h \in HubRow /\ h.inbox \in Seq(Events \cup {"end"}) /\ h.buffer \in Seq(Events) /\ n \in Nat
    BY Shapes DEF Safe
<1>2. h.inbox # <<>> /\ Head(h.inbox) = "end"
    BY DEF CloseHub
<1>3. hub' = [hub EXCEPT ![r] = row] /\ Put(r, 0)
      /\ UNCHANGED <<run, worker, chargeVars, reviewVars, faults>>
    BY DEF CloseHub
<1>4. Lengths[r] = n
    BY DEF Lengths
<1>5. worker[r].at = "gone"
    <2>1. 1 \in 1..Len(h.inbox) /\ h.inbox[1] = "end"
        BY <1>1, <1>2
    <2>2. QED
        BY <2>1 DEF Safe, Ends
<1>6. hub[r].inbox # <<>>
    BY <1>2
<1> HIDE DEF h
<1>7. <<>> \in Seq(Events \cup {"end"}) /\ TRUE \in BOOLEAN
    OBVIOUS
<1>8. row.done /\ row.inbox = <<>> /\ row.buffer = h.buffer
    BY <1>1 DEF HubRow
<1>9. row \in HubRow
    BY <1>1, <1>7 DEF HubRow
<1>10. \A queue \in Seq(Nat) : IsRestOf(queue, n, 0) => IsRestOf(Append(queue, 0), n, 1)
    BY <1>1, RestEnds
<1>11. Len(row.inbox) = 0 /\ Len(row.buffer) = n
    BY <1>8
<1> HIDE DEF n, row
<1>12. \A j \in 1..Len(row.inbox) :
           row.inbox[j] = "end" => j = Len(row.inbox) /\ worker[r].at = "gone"
    BY <1>11
<1>13. \A queue \in Seq(Nat) :
           IsRestOf(queue, Lengths[r], 0) => IsRestOf(Append(queue, 0), Len(row.buffer), 1)
    BY <1>4, <1>10, <1>11
<1>14. QED
    BY <1>3, <1>5, <1>6, <1>8, <1>9, <1>12, <1>13, HubSteps

-----------------------------------------------------------------------------
(* Steps of workers.                                                       *)

Signals == Events \cup {"end"}

LEMMA WorkerSteps ==
    ASSUME Safe, NEW r \in Runs, NEW row \in WorkerRow, NEW inbox \in Seq(Signals),
           worker' = [worker EXCEPT ![r] = row],
           hub' = [hub EXCEPT ![r] = [hub[r] EXCEPT !.inbox = inbox]],
           UNCHANGED <<client, chargeVars, edit>>, faults' \in Nat,
           run' \in [Runs -> RunRow], \A q \in Runs \ {r} : run'[q] = run[q],
           run'[r].status # "none", run'[r].from = run[r].from,
           worker[r].at \in Working \cup {"close"},
           row.at \in Working => worker[r].at \in Working /\ run'[r].status = "running",
           row.at = "finish" => row.outcome \in Terminal,
           \A j \in 1..Len(inbox) : inbox[j] = "end" => j = Len(inbox) /\ row.at = "gone",
           ledger' \in [Gates -> Entries], signed' \subseteq Gates, torn' \in BOOLEAN,
           ApprovedIsSignedOff'
    PROVE  Safe'
<1> DEFINE new == [hub[r] EXCEPT !.inbox = inbox]
<1>1. /\ hub \in [Runs -> HubRow] /\ worker \in [Runs -> WorkerRow] /\ run \in [Runs -> RunRow]
      /\ charged \in 0..Affordable /\ runless \in Nat /\ edit \in [Gates -> EditRow]
      /\ client \in [Clients -> ClientRow] /\ faults \in Nat
    BY DEF Safe, Types
<1>2. new \in HubRow /\ new.inbox = inbox /\ new.buffer = hub[r].buffer /\ new.done = hub[r].done
    <2>1. hub[r] \in HubRow
        BY <1>1
    <2>2. QED
        BY <2>1 DEF HubRow, Signals
<1>3. /\ hub' \in [Runs -> HubRow] /\ hub'[r] = new /\ \A q \in Runs \ {r} : hub'[q] = hub[q]
      /\ worker' \in [Runs -> WorkerRow] /\ worker'[r] = row
      /\ \A q \in Runs \ {r} : worker'[q] = worker[q]
    BY <1>1, <1>2
<1> HIDE DEF new
<1>4. run[r].status # "none"
    BY Blanks DEF Safe, Rows, Working
<1>5. Types'
    BY <1>1, <1>3 DEF Types, chargeVars
<1>6. Rows'
    <2>1. \A q \in Runs : run'[q].status = "none" => hub'[q] = NoHub /\ worker'[q] = NoWorker
        BY <1>3 DEF Safe, Rows
    <2>2. \A q \in Runs : worker'[q].at \in Working => run'[q].status = "running"
        BY <1>3 DEF Safe, Rows
    <2>3. \A q \in Runs : worker'[q].at = "finish" => worker'[q].outcome \in Terminal
        BY <1>3 DEF Safe, Rows
    <2>4. \A q \in Runs : worker'[q].at \in Working => worker[q].at \in Working
        BY <1>3
    <2>5. \A p, q \in Runs : worker'[p].at \in Working /\ worker'[q].at \in Working => p = q
        BY <2>4 DEF Safe, Rows
    <2>6. QED
        BY <2>1, <2>2, <2>3, <2>5 DEF Rows
<1>7. Ends'
    <2>1. ~hub[r].done
        <3>1. hub[r].done => worker[r].at \in {"none", "gone"}
            BY DEF Safe, Ends
        <3>2. QED
            BY <3>1 DEF Working
    <2>2. /\ hub'[r].done => hub'[r].inbox = <<>> /\ worker'[r].at \in {"none", "gone"}
          /\ \A j \in 1..Len(hub'[r].inbox) :
                hub'[r].inbox[j] = "end" => j = Len(hub'[r].inbox) /\ worker'[r].at = "gone"
        BY <1>2, <1>3, <2>1
    <2>3. \A q \in Runs \ {r} :
              /\ hub'[q].done => hub'[q].inbox = <<>> /\ worker'[q].at \in {"none", "gone"}
              /\ \A j \in 1..Len(hub'[q].inbox) :
                    hub'[q].inbox[j] = "end" => j = Len(hub'[q].inbox) /\ worker'[q].at = "gone"
        BY <1>3 DEF Safe, Ends
    <2>4. QED
        BY <2>2, <2>3 DEF Ends
<1>8. Tails'
    <2>1. \A q \in Runs : hub'[q].buffer = hub[q].buffer /\ hub'[q].done = hub[q].done
        BY <1>2, <1>3
    <2>2. LogsStay
        BY <2>1 DEF LogsStay, Lengths, Marks
    <2>3. QED
        BY <2>2, TabsMove DEF Safe
<1>9. ChargesMatchRuns'
    <2>1. FreshRuns' = FreshRuns
        <3>1. \A q \in Runs : /\ run'[q].status = "none" <=> run[q].status = "none"
                              /\ run'[q].from = run[q].from
            BY <1>4
        <3>2. QED
            BY <3>1 DEF FreshRuns, Started
    <2>2. QED
        BY <2>1 DEF Safe, ChargesMatchRuns, chargeVars
<1>10. QED
    BY <1>5, <1>6, <1>7, <1>8, <1>9 DEF Safe

(* A worker that is not gone has not announced the end. *)
LEMMA NoEndYet ==
    ASSUME Safe, NEW r \in Runs, worker[r].at # "gone"
    PROVE  hub[r].inbox \in Seq(Signals) /\ \A j \in 1..Len(hub[r].inbox) : hub[r].inbox[j] # "end"
BY Shapes DEF Safe, Ends, Signals

LEMMA Unscheduled ==
    ASSUME Safe, NEW r \in Runs, hub' = hub
    PROVE  hub' = [hub EXCEPT ![r] = [hub[r] EXCEPT !.inbox = hub[r].inbox]]
<1>1. hub \in [Runs -> HubRow] /\ hub[r] \in HubRow
    BY DEF Safe, Types
<1>2. [hub[r] EXCEPT !.inbox = hub[r].inbox] = hub[r]
    BY <1>1 DEF HubRow
<1>3. QED
    BY <1>1, <1>2

LEMMA Scheduled ==
    ASSUME NEW inbox \in Seq(Signals), NEW events \in Seq(Signals),
           \A j \in 1..Len(inbox) : inbox[j] # "end",
           \A j \in 1..Len(events) : events[j] # "end"
    PROVE  /\ inbox \o events \in Seq(Signals)
           /\ \A j \in 1..Len(inbox \o events) : (inbox \o events)[j] # "end"
<1> DEFINE longer == inbox \o events
<1>1. /\ longer \in Seq(Signals) /\ Len(longer) = Len(inbox) + Len(events)
      /\ Len(inbox) \in Nat /\ Len(events) \in Nat
    OBVIOUS
<1>2. ASSUME NEW j \in 1..Len(longer)
      PROVE  longer[j] # "end"
    <2>1. CASE j <= Len(inbox)
        <3>1. j \in 1..Len(inbox) /\ longer[j] = inbox[j]
            BY <1>1, <2>1
        <3>2. QED
            BY <3>1
    <2>2. CASE j > Len(inbox)
        <3>1. j - Len(inbox) \in 1..Len(events) /\ longer[j] = events[j - Len(inbox)]
            BY <1>1, <2>2
        <3>2. QED
            BY <3>1
    <2>3. QED
        BY <1>1, <2>1, <2>2
<1>3. QED
    BY <1>1, <1>2

(* What a worker may report before its end. *)
LEMMA Reports ==
    /\ <<"progress">> \in Seq(Signals) /\ <<"progress", "done">> \in Seq(Signals)
    /\ <<"awaiting">> \in Seq(Signals) /\ <<"error">> \in Seq(Signals)
    /\ \A j \in 1..Len(<<"progress">>) : <<"progress">>[j] # "end"
    /\ \A j \in 1..Len(<<"progress", "done">>) : <<"progress", "done">>[j] # "end"
    /\ \A j \in 1..Len(<<"awaiting">>) : <<"awaiting">>[j] # "end"
    /\ \A j \in 1..Len(<<"error">>) : <<"error">>[j] # "end"
BY DEF Signals, Events, Terminal

(* A worker that leaves the rows and the ledger as they are. *)
LEMMA QuietSteps ==
    ASSUME Safe, NEW r \in Runs, NEW row \in WorkerRow, NEW inbox \in Seq(Signals),
           worker' = [worker EXCEPT ![r] = row],
           hub' = [hub EXCEPT ![r] = [hub[r] EXCEPT !.inbox = inbox]],
           UNCHANGED <<run, client, chargeVars, reviewVars>>, faults' \in Nat,
           worker[r].at \in Working \cup {"close"},
           row.at \in Working => worker[r].at \in Working,
           row.at = "finish" => row.outcome \in Terminal,
           \A j \in 1..Len(inbox) : inbox[j] = "end" => j = Len(inbox) /\ row.at = "gone"
    PROVE  Safe'
<1>1. run \in [Runs -> RunRow] /\ ledger \in [Gates -> Entries] /\ signed \subseteq Gates
      /\ torn \in BOOLEAN
    BY DEF Safe, Types
<1>2. run[r].status # "none" /\ (worker[r].at \in Working => run[r].status = "running")
    BY Blanks DEF Safe, Rows, Working
<1>3. ApprovedIsSignedOff'
    BY DEF Safe, ApprovedIsSignedOff, reviewVars
<1>4. run' = run /\ ledger' = ledger /\ signed' = signed /\ torn' = torn
      /\ UNCHANGED <<client, chargeVars, edit>>
    BY DEF reviewVars
<1>5. QED
    BY <1>1, <1>2, <1>3, <1>4, WorkerSteps

LEMMA LoadSafe ==
    ASSUME Safe, NEW r \in Runs, Load(r)
    PROVE Safe'
<1> DEFINE old == worker[r]
           stage == IF run[r].from = 0 THEN 1 ELSE run[r].from
           row == [old EXCEPT !.at = "stage", !.copy = ledger, !.stage = stage]
<1>1. old \in WorkerRow /\ ledger \in [Gates -> Entries] /\ run[r].from \in 0..LastStage
    BY Shapes DEF Safe, Types
<1>2. stage \in 0..LastStage
    BY <1>1, Constants
<1>3. /\ worker' = [worker EXCEPT ![r] = row] /\ old.at = "loading"
      /\ UNCHANGED <<run, hub, client, chargeVars, reviewVars, faults>>
    BY DEF Load
<1>4. old.at \in Working
    BY <1>3 DEF Working
<1> HIDE DEF old, stage
<1>5. row \in WorkerRow /\ row.at = "stage"
    BY <1>1, <1>2 DEF WorkerRow, Places
<1>6. hub' = [hub EXCEPT ![r] = [hub[r] EXCEPT !.inbox = hub[r].inbox]]
    BY <1>3, Unscheduled
<1>7. hub[r].inbox \in Seq(Signals) /\ \A j \in 1..Len(hub[r].inbox) : hub[r].inbox[j] # "end"
    BY <1>3, NoEndYet DEF old
<1> HIDE DEF row
<1>8. faults' \in Nat
    BY <1>3, FaultsCount DEF Safe
<1>9. QED
    BY <1>3, <1>4, <1>5, <1>6, <1>7, <1>8, QuietSteps DEF old

(* A worker at a stage reports something and goes on. *)
LEMMA StageSteps ==
    ASSUME Safe, NEW r \in Runs, NEW row \in WorkerRow, NEW events \in Seq(Signals),
           \A j \in 1..Len(events) : events[j] # "end",
           worker' = [worker EXCEPT ![r] = row], Schedule(r, events),
           worker[r].at = "stage", row.at = "finish" => row.outcome \in Terminal,
           UNCHANGED <<run, client, chargeVars, reviewVars>>, faults' \in Nat
    PROVE  Safe'
<1> DEFINE inbox == hub[r].inbox \o events
<1>1. inbox \in Seq(Signals) /\ \A j \in 1..Len(inbox) : inbox[j] # "end"
    BY NoEndYet, Scheduled
<1>2. hub' = [hub EXCEPT ![r] = [hub[r] EXCEPT !.inbox = inbox]]
    BY DEF Schedule
<1> HIDE DEF inbox
<1>3. worker[r].at \in Working
    BY DEF Working
<1>4. QED
    BY <1>1, <1>2, <1>3, QuietSteps

LEMMA RunStageSafe ==
    ASSUME Safe, NEW r \in Runs, RunStage(r)
    PROVE Safe'
<1> DEFINE old == worker[r]
           s == old.stage
           last == [NoWorker EXCEPT !.at = "finish", !.outcome = "done"]
           pausing == [old EXCEPT !.at = "pause"]
           next == [old EXCEPT !.stage = s + 1]
<1>1. old \in WorkerRow /\ s \in 0..LastStage /\ old.at = "stage"
    BY Shapes DEF Safe, RunStage
<1>2. UNCHANGED <<run, client, chargeVars, reviewVars>> /\ faults' \in Nat
    BY FaultsCount DEF Safe, RunStage
<1>3. CASE s = LastStage
    <2>1. worker' = [worker EXCEPT ![r] = last] /\ Schedule(r, <<"progress", "done">>)
        BY <1>3 DEF RunStage
    <2> HIDE DEF old, s
    <2>2. last \in WorkerRow /\ last.outcome = "done"
        BY Blanks DEF WorkerRow, Places, Terminal
    <2> HIDE DEF last
    <2>3. "done" \in Terminal
        BY DEF Terminal
    <2>4. QED
        BY <1>1, <1>2, <2>1, <2>2, <2>3, Reports, StageSteps DEF old
<1>4. CASE s # LastStage
    <2>1. Schedule(r, <<"progress">>)
          /\ (worker' = [worker EXCEPT ![r] = pausing] \/ worker' = [worker EXCEPT ![r] = next])
        BY <1>4 DEF RunStage
    <2>2. s + 1 \in 0..LastStage
        BY <1>1, <1>4, Constants
    <2> HIDE DEF old, s
    <2>3. pausing \in WorkerRow /\ pausing.at = "pause"
        BY <1>1 DEF WorkerRow, Places
    <2>4. next \in WorkerRow /\ next.at = "stage"
        BY <1>1, <2>2 DEF WorkerRow
    <2> HIDE DEF pausing, next
    <2>5. QED
        BY <1>1, <1>2, <2>1, <2>3, <2>4, Reports, StageSteps DEF old
<1>5. QED
    BY <1>3, <1>4

LEMMA StageRaisesSafe ==
    ASSUME Safe, NEW r \in Runs, StageRaises(r)
    PROVE Safe'
<1> DEFINE old == worker[r]
           row == [NoWorker EXCEPT !.at = "finish", !.outcome = "error"]
<1>1. old \in WorkerRow /\ old.at = "stage"
    BY Shapes DEF Safe, StageRaises
<1>2. /\ worker' = [worker EXCEPT ![r] = row] /\ Schedule(r, <<"error">>)
      /\ UNCHANGED <<run, client, chargeVars, reviewVars>> /\ faults' \in Nat
    BY FaultsCount DEF Safe, StageRaises
<1> HIDE DEF old
<1>3. row \in WorkerRow /\ row.outcome = "error"
    BY Blanks DEF WorkerRow, Places, Terminal
<1> HIDE DEF row
<1>4. "error" \in Terminal
    BY DEF Terminal
<1>5. QED
    BY <1>1, <1>2, <1>3, <1>4, Reports, StageSteps DEF old

LEMMA FinishFailsSafe ==
    ASSUME Safe, NEW r \in Runs, FinishFails(r)
    PROVE Safe'
<1> DEFINE old == worker[r]
           row == [old EXCEPT !.at = "close", !.outcome = "unknown"]
<1>1. old \in WorkerRow /\ old.at = "finish"
    BY Shapes DEF Safe, FinishFails
<1>2. /\ worker' = [worker EXCEPT ![r] = row]
      /\ UNCHANGED <<run, hub, client, chargeVars, reviewVars>> /\ faults' \in Nat
    BY FaultsCount DEF Safe, FinishFails
<1>3. hub' = [hub EXCEPT ![r] = [hub[r] EXCEPT !.inbox = hub[r].inbox]]
    BY <1>2, Unscheduled
<1>4. hub[r].inbox \in Seq(Signals) /\ \A j \in 1..Len(hub[r].inbox) : hub[r].inbox[j] # "end"
    BY <1>1, NoEndYet
<1> HIDE DEF old
<1>5. row \in WorkerRow /\ row.at = "close"
    BY <1>1 DEF WorkerRow, Places
<1> HIDE DEF row
<1>6. "finish" \in Working /\ "close" \notin Working
    BY DEF Working
<1>7. QED
    BY <1>1, <1>2, <1>3, <1>4, <1>5, <1>6, QuietSteps DEF old

LEMMA CloseWorkerSafe ==
    ASSUME Safe, NEW r \in Runs, Close(r)
    PROVE Safe'
<1> DEFINE inbox == Append(hub[r].inbox, "end")
           row == [NoWorker EXCEPT !.at = "gone"]
<1>1. worker[r] \in WorkerRow /\ worker[r].at = "close"
    BY Shapes DEF Safe, Close
<1>2. hub[r].inbox \in Seq(Signals) /\ \A j \in 1..Len(hub[r].inbox) : hub[r].inbox[j] # "end"
    BY <1>1, NoEndYet
<1>3. hub' = [hub EXCEPT ![r] = [hub[r] EXCEPT !.inbox = inbox]]
    <2>1. hub[r].inbox \o <<"end">> = inbox
        BY <1>2
    <2>2. QED
        BY <2>1 DEF Close, Schedule
<1>4. inbox \in Seq(Signals) /\ \A j \in 1..Len(inbox) : inbox[j] = "end" => j = Len(inbox)
    BY <1>2 DEF Signals
<1>5. /\ worker' = [worker EXCEPT ![r] = row]
      /\ UNCHANGED <<run, client, chargeVars, reviewVars>> /\ faults' \in Nat
    BY FaultsCount DEF Safe, Close
<1>6. row \in WorkerRow /\ row.at = "gone"
    BY Blanks DEF WorkerRow, Places
<1> HIDE DEF row, inbox
<1>7. "gone" \notin Working
    BY DEF Working
<1>8. QED
    BY <1>1, <1>3, <1>4, <1>5, <1>6, <1>7, QuietSteps

LEMMA TouchTyped ==
    ASSUME NEW entries \in [Gates -> Entries], NEW gate
    PROVE  Touch(entries, gate) \in [Gates -> Entries]
BY DEF Touch, Entries

(***************************************************************************)
(* A gate approved after the ledger was written at a gate is one before    *)
(* it, and approved already.                                               *)
(***************************************************************************)
LEMMA TouchKeeps ==
    ASSUME NEW entries \in [Gates -> Entries], NEW gate \in 0..LastStage,
           NEW g \in Gates, Touch(entries, gate)[g] = "approved"
    PROVE  g < gate /\ entries[g] = "approved"
<1>1. g \in Nat
    BY StagesAssumption
<1>2. Touch(entries, gate)[g] =
          IF g = gate THEN "pending" ELSE IF g > gate THEN "absent" ELSE entries[g]
    BY DEF Touch
<1>3. g # gate /\ ~(g > gate)
    BY <1>2
<1>4. QED
    BY <1>1, <1>2, <1>3

LEMMA PauseSafe ==
    ASSUME Safe, NEW r \in Runs, Pause(r)
    PROVE Safe'
<1> DEFINE old == worker[r]
           inbox == hub[r].inbox \o <<"awaiting">>
           row == [NoWorker EXCEPT !.at = "finish", !.outcome = "awaiting"]
<1>1. old \in WorkerRow /\ old.at = "pause" /\ old.copy \in [Gates -> Entries] /\ old.stage \in 0..LastStage
    BY Shapes DEF Safe, Pause
<1>2. /\ worker' = [worker EXCEPT ![r] = row]
      /\ hub' = [hub EXCEPT ![r] = [hub[r] EXCEPT !.inbox = inbox]]
      /\ ledger' = Touch(old.copy, old.stage)
      /\ signed' = {g \in signed : g < old.stage}
      /\ torn' = (torn \/ old.copy # ledger)
      /\ UNCHANGED <<run, client, chargeVars, edit, reviews, faults>>
    BY DEF Pause, Schedule, Unsign
<1>3. inbox \in Seq(Signals) /\ \A j \in 1..Len(inbox) : inbox[j] # "end"
    BY <1>1, NoEndYet, Scheduled, Reports
<1>4. ledger' \in [Gates -> Entries] /\ signed' \subseteq Gates /\ torn' \in BOOLEAN
    BY <1>1, <1>2, TouchTyped DEF Safe, Types
<1>5. ASSUME ~torn', NEW g \in Gates, ledger'[g] = "approved"
      PROVE  g \in signed'
    <2>1. ~torn /\ old.copy = ledger
        BY <1>2, <1>5
    <2>2. g < old.stage /\ ledger[g] = "approved"
        BY <1>1, <1>2, <1>5, <2>1, TouchKeeps
    <2>3. g \in signed
        BY <2>1, <2>2 DEF Safe, ApprovedIsSignedOff
    <2>4. QED
        BY <1>2, <2>2, <2>3
<1>6. ApprovedIsSignedOff'
    BY <1>5 DEF ApprovedIsSignedOff
<1> HIDE DEF inbox, old
<1>7. row \in WorkerRow /\ row.at = "finish" /\ row.outcome = "awaiting"
    BY Blanks DEF WorkerRow, Places, Terminal
<1> HIDE DEF row
<1>8. "awaiting" \in Terminal /\ "pause" \in Working
    BY DEF Terminal, Working
<1>9. /\ run' \in [Runs -> RunRow] /\ run' = run /\ run[r].status # "none"
      /\ run[r].status = "running" /\ faults' \in Nat
    BY <1>1, <1>2, <1>8, Blanks, FaultsCount DEF Safe, Types, Rows, old
<1>10. QED
    BY <1>1, <1>2, <1>3, <1>4, <1>6, <1>7, <1>8, <1>9, WorkerSteps DEF old

LEMMA FinishSafe ==
    ASSUME Safe, NEW r \in Runs, Finish(r)
    PROVE Safe'
<1> DEFINE old == worker[r]
           row == [old EXCEPT !.at = "close"]
           new == [run[r] EXCEPT !.status = old.outcome]
<1>1. old \in WorkerRow /\ old.at = "finish" /\ old.outcome \in Terminal /\ run[r] \in RunRow
    BY Shapes DEF Safe, Finish, Rows
<1>2. /\ worker' = [worker EXCEPT ![r] = row]
      /\ run' = [run EXCEPT ![r] = new]
      /\ UNCHANGED <<hub, client, chargeVars, reviewVars, faults>>
    BY DEF Finish, Goto
<1>3. hub' = [hub EXCEPT ![r] = [hub[r] EXCEPT !.inbox = hub[r].inbox]]
    BY <1>2, Unscheduled
<1>4. hub[r].inbox \in Seq(Signals) /\ \A j \in 1..Len(hub[r].inbox) : hub[r].inbox[j] # "end"
    BY <1>1, NoEndYet
<1>5. new \in RunRow /\ new.status = old.outcome /\ new.from = run[r].from /\ new.status # "none"
    BY <1>1 DEF RunRow, Statuses, Terminal
<1> HIDE DEF old, new
<1>6. row \in WorkerRow /\ row.at = "close"
    BY <1>1 DEF WorkerRow, Places
<1> HIDE DEF row
<1>7. "finish" \in Working /\ "close" \notin Working
    BY DEF Working
<1>8. run \in [Runs -> RunRow] /\ ledger \in [Gates -> Entries] /\ signed \subseteq Gates /\ torn \in BOOLEAN
    BY DEF Safe, Types
<1>9. /\ run' \in [Runs -> RunRow] /\ run'[r] = new /\ \A q \in Runs \ {r} : run'[q] = run[q]
    BY <1>2, <1>5, <1>8
<1>10. ApprovedIsSignedOff'
    BY <1>2 DEF Safe, ApprovedIsSignedOff, reviewVars
<1>11. /\ ledger' = ledger /\ signed' = signed /\ torn' = torn /\ UNCHANGED <<client, chargeVars, edit>>
       /\ faults' \in Nat
    BY <1>2, FaultsCount DEF Safe, reviewVars
<1>12. QED
    BY <1>1, <1>2, <1>3, <1>4, <1>5, <1>6, <1>7, <1>8, <1>9, <1>10, <1>11, WorkerSteps DEF old

-----------------------------------------------------------------------------
(* Reviews.                                                                *)

(* The ledger is written again, with the gates signed off. *)
LEMMA LedgerSteps ==
    ASSUME Safe, UNCHANGED <<run, worker, hub, client, chargeVars, faults>>,
           ledger' \in [Gates -> Entries], edit' \in [Gates -> EditRow],
           signed' \subseteq Gates, torn' \in BOOLEAN, ApprovedIsSignedOff'
    PROVE  Safe'
<1>1. Types'
    BY DEF Safe, Types, RunRow, chargeVars
<1>2. Rows' /\ Ends'
    BY DEF Safe, Rows, Ends
<1>3. Tails'
    <2>1. LogsStay
        BY DEF LogsStay, Lengths, Marks
    <2>2. QED
        BY <2>1, TabsMove DEF Safe
<1>4. ChargesMatchRuns'
    <2>1. FreshRuns' = FreshRuns
        BY DEF FreshRuns, Started
    <2>2. QED
        BY <2>1 DEF Safe, ChargesMatchRuns, chargeVars
<1>5. QED
    BY <1>1, <1>2, <1>3, <1>4 DEF Safe

LEMMA ApproveSafe ==
    ASSUME Safe, NEW g \in Gates, Approve(g)
    PROVE  Safe'
<1>1. ledger \in [Gates -> Entries] /\ signed \subseteq Gates /\ torn \in BOOLEAN
      /\ edit \in [Gates -> EditRow]
    BY DEF Safe, Types
<1>2. /\ ledger' = [ledger EXCEPT ![g] = "approved"] /\ signed' = signed \cup {g}
      /\ torn' = torn /\ edit' = edit
      /\ UNCHANGED <<run, worker, hub, client, chargeVars, faults>>
    BY DEF Approve
<1>3. ledger' \in [Gates -> Entries]
    BY <1>1, <1>2 DEF Entries
<1>4. ApprovedIsSignedOff'
    BY <1>1, <1>2 DEF Safe, ApprovedIsSignedOff
<1>5. QED
    BY <1>1, <1>2, <1>3, <1>4, LedgerSteps

(***************************************************************************)
(* A gate is touched in a copy of the ledger: were it outdated, the ledger *)
(* would be torn, so the gates it approves were signed off before.         *)
(***************************************************************************)
LEMMA TouchSafe ==
    ASSUME Safe, NEW g \in Gates, NEW copy \in [Gates -> Entries],
           ledger' = Touch(copy, g), Unsign(g), torn' = (torn \/ copy # ledger),
           edit' \in [Gates -> EditRow],
           UNCHANGED <<run, worker, hub, client, chargeVars, faults>>
    PROVE  Safe'
<1>1. signed \subseteq Gates /\ torn \in BOOLEAN /\ g \in 0..LastStage
    BY StagesAssumption DEF Safe, Types
<1>2. signed' = {h \in signed : h < g}
    BY DEF Unsign
<1>3. ledger' \in [Gates -> Entries]
    BY TouchTyped
<1>4. ASSUME ~torn', NEW h \in Gates, ledger'[h] = "approved"
      PROVE  h \in signed'
    <2>1. ~torn /\ copy = ledger
        BY <1>4
    <2>2. h < g /\ ledger[h] = "approved"
        BY <1>1, <1>4, <2>1, TouchKeeps
    <2>3. h \in signed
        BY <2>1, <2>2 DEF Safe, ApprovedIsSignedOff
    <2>4. QED
        BY <1>2, <2>2, <2>3
<1>5. ApprovedIsSignedOff'
    BY <1>4 DEF ApprovedIsSignedOff
<1>6. QED
    BY <1>1, <1>2, <1>3, <1>5, LedgerSteps

LEMMA RejectSafe ==
    ASSUME Safe, NEW g \in Gates, Reject(g)
    PROVE  Safe'
<1>1. ledger \in [Gates -> Entries] /\ edit \in [Gates -> EditRow] /\ torn \in BOOLEAN
    BY DEF Safe, Types
<1>2. torn' = (torn \/ ledger # ledger) /\ edit' \in [Gates -> EditRow]
    BY <1>1 DEF Reject
<1>3. /\ ledger' = Touch(ledger, g) /\ Unsign(g)
      /\ UNCHANGED <<run, worker, hub, client, chargeVars, faults>>
    BY DEF Reject
<1>4. QED
    BY <1>1, <1>2, <1>3, TouchSafe

LEMMA RegenerateSafe ==
    ASSUME Safe, NEW g \in Gates, Regenerate(g)
    PROVE  Safe'
<1>1. ledger \in [Gates -> Entries] /\ edit \in [Gates -> EditRow]
      /\ signed \subseteq Gates /\ torn \in BOOLEAN
    BY DEF Safe, Types
<1>2. /\ edit' = [edit EXCEPT ![g] = [on |-> TRUE, copy |-> ledger]]
      /\ ledger' = ledger /\ signed' = signed /\ torn' = torn
      /\ UNCHANGED <<run, worker, hub, client, chargeVars, faults>>
    BY DEF Regenerate
<1>3. edit' \in [Gates -> EditRow]
    BY <1>1, <1>2 DEF EditRow
<1>4. ApprovedIsSignedOff'
    BY <1>2 DEF Safe, ApprovedIsSignedOff
<1>5. QED
    BY <1>1, <1>2, <1>3, <1>4, LedgerSteps

LEMMA RegeneratedSafe ==
    ASSUME Safe, NEW g \in Gates, Regenerated(g)
    PROVE  Safe'
<1> DEFINE copy == edit[g].copy
<1>1. edit \in [Gates -> EditRow]
    BY DEF Safe, Types
<1>2. copy \in [Gates -> Entries]
    BY <1>1 DEF EditRow
<1>3. /\ ledger' = Touch(copy, g) /\ Unsign(g) /\ torn' = (torn \/ copy # ledger)
      /\ edit' = [edit EXCEPT ![g] = NoEdit]
      /\ UNCHANGED <<run, worker, hub, client, chargeVars, faults>>
    BY DEF Regenerated
<1>4. edit' \in [Gates -> EditRow]
    BY <1>1, <1>3, Blanks
<1> HIDE DEF copy
<1>5. QED
    BY <1>2, <1>3, <1>4, TouchSafe

-----------------------------------------------------------------------------
(* The death of the process.                                               *)

LEMMA DieRows ==
    ASSUME Types, Die
    PROVE  /\ worker' \in [Runs -> WorkerRow] /\ \A r \in Runs : worker'[r] = NoWorker
           /\ hub' \in [Runs -> HubRow]
           /\ \A r \in Runs : /\ hub'[r].inbox = <<>> /\ hub'[r].buffer = hub[r].buffer
                              /\ hub'[r].done = hub[r].done
                              /\ hub[r] = NoHub => hub'[r] = NoHub
           /\ client' \in [Clients -> ClientRow]
           /\ \A c \in Clients : client'[c] = client[c] \/ client'[c] = Reconnecting(c)
           /\ edit' \in [Gates -> EditRow]
<1>1. worker' \in [Runs -> WorkerRow] /\ \A r \in Runs : worker'[r] = NoWorker
    BY Blanks DEF Die
<1>2. ASSUME NEW old \in HubRow
      PROVE  LET new == [old EXCEPT !.inbox = <<>>, !.held = FALSE] IN
             /\ new \in HubRow /\ new.inbox = <<>> /\ new.buffer = old.buffer /\ new.done = old.done
             /\ old = NoHub => new = NoHub
    <2> DEFINE new == [old EXCEPT !.inbox = <<>>, !.held = FALSE]
    <2>1. new.inbox = <<>> /\ new.buffer = old.buffer /\ new.done = old.done
        BY DEF HubRow
    <2>2. <<>> \in Seq(Events \cup {"end"}) /\ FALSE \in BOOLEAN
        OBVIOUS
    <2>3. new \in HubRow
        BY <2>2 DEF HubRow
    <2>4. old = NoHub => new = NoHub
        <3>1. ASSUME NEW x \in HubRow, NEW y \in HubRow,
                     x.inbox = y.inbox, x.buffer = y.buffer, x.done = y.done, x.held = y.held
              PROVE  x = y
            <4>1. x = [inbox |-> x.inbox, buffer |-> x.buffer, done |-> x.done, held |-> x.held]
                BY DEF HubRow
            <4>2. y = [inbox |-> y.inbox, buffer |-> y.buffer, done |-> y.done, held |-> y.held]
                BY DEF HubRow
            <4>3. QED
                BY <3>1, <4>1, <4>2
        <3>2. new.held = FALSE
            BY DEF HubRow
        <3>3. NoHub \in HubRow /\ NoHub.inbox = <<>> /\ NoHub.held = FALSE
            BY Blanks DEF NoHub
        <3>4. QED
            BY <2>1, <2>3, <3>1, <3>2, <3>3
    <2>5. QED
        BY <2>1, <2>3, <2>4
<1>3. hub' = [r \in Runs |-> [hub[r] EXCEPT !.inbox = <<>>, !.held = FALSE]]
    BY DEF Die
<1>4. \A r \in Runs : hub[r] \in HubRow
    BY DEF Types
<1>5. hub' \in [Runs -> HubRow]
    BY <1>2, <1>3, <1>4
<1>6. \A r \in Runs : /\ hub'[r].inbox = <<>> /\ hub'[r].buffer = hub[r].buffer
                      /\ hub'[r].done = hub[r].done
                      /\ hub[r] = NoHub => hub'[r] = NoHub
    BY <1>2, <1>3, <1>4
<1>7. client' = [c \in Clients |->
          IF client[c].at \in {"accepted", "tailing"} THEN Reconnecting(c) ELSE client[c]]
    BY DEF Die
<1>8. \A c \in Clients : client[c] \in ClientRow /\ Reconnecting(c) \in ClientRow
    BY ReconnectingRow DEF Types
<1>9. edit' \in [Gates -> EditRow]
    BY Blanks DEF Die
<1>10. QED
    BY <1>1, <1>5, <1>6, <1>7, <1>8, <1>9

(* Rows keep their beginnings, and no row is new. *)
LEMMA DieSafe ==
    ASSUME Safe, Die, run' \in [Runs -> RunRow],
           \A r \in Runs : /\ run'[r].status = "none" <=> run[r].status = "none"
                           /\ run'[r].from = run[r].from,
           charged' \in 0..Affordable, runless' \in Nat, charged' - runless' = charged - runless,
           faults' \in Nat, UNCHANGED <<ledger, signed, torn, reviews>>
    PROVE  Safe'
<1>1. Types'
    BY DieRows DEF Safe, Types
<1>2. Rows'
    <2>1. \A r \in Runs : run'[r].status = "none" => hub'[r] = NoHub /\ worker'[r] = NoWorker
        BY DieRows DEF Safe, Rows
    <2>2. \A r \in Runs : worker'[r].at \notin Working /\ worker'[r].at # "finish"
        BY Blanks, DieRows DEF Safe, Working
    <2>3. QED
        BY <2>1, <2>2 DEF Rows
<1>3. Ends'
    <2>1. \A r \in Runs : hub'[r].inbox = <<>> /\ worker'[r].at = "none"
        BY Blanks, DieRows DEF Safe
    <2>2. QED
        BY <2>1 DEF Ends
<1>4. Tails'
    <2>1. LogsStay
        BY DieRows DEF Safe, LogsStay, Lengths, Marks
    <2>2. \A c \in Clients :
              \/ client'[c] = client[c]
              \/ Follows(client'[c], Lengths[client'[c].run], Marks[client'[c].run])
        <3>1. ASSUME NEW c \in Clients, client'[c] = Reconnecting(c)
              PROVE  Follows(client'[c], Lengths[client'[c].run], Marks[client'[c].run])
            <4>1. client'[c].at = "connecting" /\ ~client'[c].over
                BY <3>1, ReconnectingRow DEF Safe
            <4>2. QED
                BY <4>1, Detached
        <3>2. QED
            BY <3>1, DieRows DEF Safe
    <2>3. QED
        BY <2>1, <2>2, TabsMove DEF Safe
<1>5. ChargesMatchRuns'
    <2>1. FreshRuns' = FreshRuns
        BY DEF FreshRuns, Started
    <2>2. /\ Cardinality(FreshRuns) \in Nat /\ charged \in Nat /\ runless \in Nat
          /\ charged' \in Nat /\ runless' \in Nat
        BY RunsAreFew, Constants DEF Safe, Types
    <2>3. charged = Cardinality(FreshRuns) + runless
        BY DEF Safe, ChargesMatchRuns
    <2>4. charged' = Cardinality(FreshRuns) + runless'
        BY <2>2, <2>3
    <2>5. QED
        BY <2>1, <2>4 DEF ChargesMatchRuns
<1>6. ApprovedIsSignedOff'
    BY DEF Safe, ApprovedIsSignedOff
<1>7. QED
    BY <1>1, <1>2, <1>3, <1>4, <1>5, <1>6 DEF Safe

LEMMA RestartSafe ==
    ASSUME Safe, Restart
    PROVE Safe'
<1>1. run \in [Runs -> RunRow] /\ charged \in 0..Affordable /\ runless \in Nat /\ faults \in Nat
    BY DEF Safe, Types
<1>2. faults' = faults + 1 /\ charged' = charged /\ runless' = runless /\ Die /\ UNCHANGED <<ledger, signed, torn, reviews>>
    BY DEF Restart, Fault, chargeVars
<1>3. run' = [r \in Runs |->
                 [run[r] EXCEPT !.status = IF run[r].status = "running" THEN "interrupted" ELSE run[r].status]]
    BY DEF Restart
<1>4. ASSUME NEW old \in RunRow, NEW status \in Statuses, status = "none" <=> old.status = "none"
      PROVE  LET new == [old EXCEPT !.status = status] IN
             new \in RunRow /\ new.from = old.from /\ (new.status = "none" <=> old.status = "none")
    BY <1>4 DEF RunRow
<1>5. ASSUME NEW r \in Runs
      PROVE  /\ run'[r] \in RunRow /\ run'[r].from = run[r].from
             /\ run'[r].status = "none" <=> run[r].status = "none"
    <2> DEFINE status == IF run[r].status = "running" THEN "interrupted" ELSE run[r].status
    <2>1. run[r] \in RunRow /\ run[r].status \in Statuses
        BY Shapes DEF Safe
    <2>2. status \in Statuses /\ (status = "none" <=> run[r].status = "none")
        BY <2>1 DEF Statuses
    <2>3. run'[r] = [run[r] EXCEPT !.status = status]
        BY <1>3
    <2> HIDE DEF status
    <2>4. QED
        BY <1>4, <2>1, <2>2, <2>3
<1>6. run' \in [Runs -> RunRow]
    BY <1>3, <1>5
<1>7. charged' \in 0..Affordable /\ runless' \in Nat /\ charged' - runless' = charged - runless
      /\ faults' \in Nat
    BY <1>1, <1>2, Constants
<1>8. QED
    BY <1>2, <1>5, <1>6, <1>7, DieSafe

LEMMA ChargeInVainSafe ==
    ASSUME Safe, NEW c \in Clients, ChargeInVain(c)
    PROVE Safe'
<1>1. /\ run \in [Runs -> RunRow] /\ charged \in 0..Affordable /\ runless \in Nat /\ faults \in Nat
      /\ client \in [Clients -> ClientRow]
    BY DEF Safe, Types
<1>2. /\ faults' = faults + 1 /\ charged' = charged + 1 /\ runless' = runless + 1 /\ run' = run
      /\ UNCHANGED <<ledger, signed, torn, reviews>> /\ ~(charged >= Affordable)
    BY DEF ChargeInVain, Fault, Unpaid
<1>3. charged' \in 0..Affordable /\ runless' \in Nat /\ charged' - runless' = charged - runless
      /\ faults' \in Nat
    BY <1>1, <1>2, Constants
<1>4. CASE Die
    BY <1>1, <1>2, <1>3, <1>4, DieSafe
<1>5. CASE SetClient(c, Closed) /\ UNCHANGED <<worker, hub, edit>>
    <2>1. Types'
        <3>1. client' \in [Clients -> ClientRow]
            BY <1>1, <1>5, Blanks DEF SetClient
        <3>2. QED
            BY <1>2, <1>3, <1>5, <3>1 DEF Safe, Types
    <2>2. Rows' /\ Ends'
        BY <1>2, <1>5 DEF Safe, Rows, Ends
    <2>3. Tails'
        <3>1. LogsStay
            BY <1>5 DEF LogsStay, Lengths, Marks
        <3>2. \A d \in Clients :
                  \/ client'[d] = client[d]
                  \/ Follows(client'[d], Lengths[client'[d].run], Marks[client'[d].run])
            BY <1>1, <1>5, ClosedFits DEF SetClient
        <3>3. QED
            BY <3>1, <3>2, TabsMove DEF Safe
    <2>4. ChargesMatchRuns'
        <3>1. FreshRuns' = FreshRuns
            BY <1>2 DEF FreshRuns, Started
        <3>2. Cardinality(FreshRuns) \in Nat /\ charged \in Nat
            BY <1>1, RunsAreFew, Constants
        <3>3. charged + 1 = Cardinality(FreshRuns) + (runless + 1)
            BY <1>1, <3>2 DEF Safe, ChargesMatchRuns
        <3>4. QED
            BY <1>2, <3>1, <3>3 DEF ChargesMatchRuns
    <2>5. ApprovedIsSignedOff'
        BY <1>2 DEF Safe, ApprovedIsSignedOff
    <2>6. QED
        BY <2>1, <2>2, <2>3, <2>4, <2>5 DEF Safe
<1>6. QED
    BY <1>4, <1>5 DEF ChargeInVain

-----------------------------------------------------------------------------
(* A new run.                                                              *)

LEMMA StartRows ==
    ASSUME Safe, NEW c \in Clients, NEW r \in Runs \ Started, StartRun(r, c)
    PROVE  /\ run' \in [Runs -> RunRow] /\ \A q \in Runs \ {r} : run'[q] = run[q]
           /\ run'[r].status = "running" /\ run'[r].from = client[c].from
           /\ hub' \in [Runs -> HubRow]
           /\ \A q \in Runs : /\ hub'[q].inbox = hub[q].inbox /\ hub'[q].buffer = hub[q].buffer
                              /\ hub'[q].done = hub[q].done
                              /\ q # r /\ hub[q] = NoHub => hub'[q] = NoHub
           /\ worker' \in [Runs -> WorkerRow] /\ \A q \in Runs \ {r} : worker'[q] = worker[q]
           /\ worker'[r].at = "loading"
<1>1. /\ run \in [Runs -> RunRow] /\ hub \in [Runs -> HubRow] /\ worker \in [Runs -> WorkerRow]
      /\ r \in Runs /\ client[c].from \in 0..LastStage /\ client[c].gated \in BOOLEAN
    BY Shapes DEF Safe, Types
<1>2. hub[r] = NoHub /\ worker[r] = NoWorker
    BY DEF Safe, Rows, Started
<1>3. /\ run' \in [Runs -> RunRow] /\ \A q \in Runs \ {r} : run'[q] = run[q]
      /\ run'[r].status = "running" /\ run'[r].from = client[c].from
    <2> DEFINE row == [status |-> "running", from |-> client[c].from, gated |-> client[c].gated]
    <2>1. row \in RunRow /\ row.status = "running" /\ row.from = client[c].from
        BY <1>1 DEF RunRow, Statuses
    <2>2. run' = [run EXCEPT ![r] = row]
        BY DEF StartRun
    <2> HIDE DEF row
    <2>3. QED
        BY <1>1, <2>1, <2>2
<1>4. /\ worker' \in [Runs -> WorkerRow] /\ \A q \in Runs \ {r} : worker'[q] = worker[q]
      /\ worker'[r].at = "loading"
    <2> DEFINE row == [worker[r] EXCEPT !.at = "loading"]
    <2>1. worker[r] \in WorkerRow
        BY <1>1
    <2>2. row \in WorkerRow /\ row.at = "loading"
        BY <2>1 DEF WorkerRow, Places
    <2>3. worker' = [worker EXCEPT ![r] = row]
        BY DEF StartRun
    <2> HIDE DEF row
    <2>4. QED
        BY <1>1, <2>2, <2>3
<1>5. PICK evicted : hub' = [q \in Runs |-> IF q = r THEN [NoHub EXCEPT !.held = TRUE]
                                           ELSE [hub[q] EXCEPT !.held = hub[q].held /\ q \notin evicted]]
    BY DEF StartRun
<1>6. ASSUME NEW old \in HubRow, NEW held \in BOOLEAN
      PROVE  LET new == [old EXCEPT !.held = held] IN
             new \in HubRow /\ new.inbox = old.inbox /\ new.buffer = old.buffer /\ new.done = old.done
    BY DEF HubRow
<1>7. ASSUME NEW q \in Runs
      PROVE  /\ hub'[q] \in HubRow /\ hub'[q].inbox = hub[q].inbox
             /\ hub'[q].buffer = hub[q].buffer /\ hub'[q].done = hub[q].done
             /\ q # r /\ hub[q] = NoHub => hub'[q] = NoHub
    <2>1. CASE q = r
        <3>1. hub'[q] = [hub[q] EXCEPT !.held = TRUE]
            BY <1>2, <1>5, <2>1
        <3>2. hub[q] \in HubRow
            BY <1>1
        <3> DEFINE new == [hub[q] EXCEPT !.held = TRUE]
        <3>3. /\ new \in HubRow /\ new.inbox = hub[q].inbox
              /\ new.buffer = hub[q].buffer /\ new.done = hub[q].done
            BY <1>6, <3>2
        <3> HIDE DEF new
        <3>4. hub'[q] = new
            BY <3>1 DEF new
        <3>5. QED
            BY <2>1, <3>3, <3>4
    <2>2. CASE q # r
        <3> DEFINE held == hub[q].held /\ q \notin evicted
        <3>1. hub'[q] = [hub[q] EXCEPT !.held = held] /\ held \in BOOLEAN
            BY <1>5, <2>2
        <3>2. ASSUME hub[q] = NoHub
              PROVE  hub'[q] = NoHub
            <4>1. hub[q].held = FALSE
                BY <3>2 DEF NoHub
            <4>2. hub'[q] = [NoHub EXCEPT !.held = FALSE]
                BY <3>1, <3>2, <4>1
            <4>3. QED
                BY <4>2 DEF NoHub
        <3> HIDE DEF held
        <3>3. QED
            BY <1>1, <1>6, <3>1, <3>2
    <2>3. QED
        BY <2>1, <2>2
<1>8. hub' \in [Runs -> HubRow]
    BY <1>5, <1>7
<1>9. QED
    BY <1>3, <1>4, <1>7, <1>8

(* Nobody works while no row is running, so the new worker is alone. *)
LEMMA StartSafe ==
    ASSUME Safe, NEW c \in Clients, Start(c)
    PROVE Safe'
<1>1. PICK r \in Runs \ Started : StartRun(r, c) /\ Accept(c, r)
    BY DEF Start
<1> DEFINE old == client[c]
           tab == [old EXCEPT !.at = "accepted", !.run = r]
<1>2. /\ old \in ClientRow /\ ~old.over /\ old.from \in 0..LastStage /\ old.at = "connecting"
      /\ client \in [Clients -> ClientRow] /\ charged \in 0..Affordable /\ r \in Runs
    BY Shapes, NotOver DEF Safe, Types, Start
<1>3. /\ client' = [client EXCEPT ![c] = tab]
      /\ UNCHANGED <<runless, ledger, edit, signed, torn, reviews, faults>>
      /\ charged' = charged + (IF old.from = 0 THEN 1 ELSE 0)
      /\ old.from = 0 => charged < Affordable
      /\ \A q \in Runs : run[q].status # "running"
    <2>1. ~Unpaid(c) /\ Running = {} /\ charged' = charged + (IF IsFresh(c) THEN 1 ELSE 0)
        BY DEF Start, Starts
    <2>2. IsFresh(c) <=> old.from = 0
        BY DEF IsFresh
    <2>3. old.from = 0 => charged < Affordable
        BY <1>2, <2>1, <2>2, Constants DEF Unpaid
    <2>4. \A q \in Runs : run[q].status # "running"
        BY <2>1 DEF Running
    <2>5. UNCHANGED <<runless, ledger, edit, signed, torn, reviews, faults>>
        BY DEF Start, reviewVars
    <2>6. client' = [client EXCEPT ![c] = tab]
        BY <1>1 DEF Accept, SetClient
    <2>7. QED
        BY <2>1, <2>2, <2>3, <2>4, <2>5, <2>6
<1> HIDE DEF old
<1>4. tab \in ClientRow /\ tab.at = "accepted" /\ ~tab.over /\ tab.run = r
    BY <1>2 DEF ClientRow, ClientPlaces
<1> HIDE DEF tab
<1>5. Types'
    <2>1. client' \in [Clients -> ClientRow]
        BY <1>2, <1>3, <1>4
    <2>2. charged' \in 0..Affordable
        BY <1>2, <1>3, Constants
    <2>3. QED
        BY <1>1, <1>3, <2>1, <2>2, StartRows DEF Safe, Types
<1>6. \A q \in Runs : worker[q].at \notin Working
    BY <1>3 DEF Safe, Rows
<1>7. Rows'
    <2>1. \A q \in Runs : run'[q].status = "none" => hub'[q] = NoHub /\ worker'[q] = NoWorker
        BY <1>1, StartRows DEF Safe, Rows
    <2>2. \A q \in Runs : worker'[q].at \in Working => q = r
        BY <1>1, <1>6, StartRows
    <2>3. worker'[r].at = "loading" /\ run'[r].status = "running"
        BY <1>1, StartRows
    <2>4. \A q \in Runs : worker'[q].at = "finish" => worker'[q].outcome \in Terminal
        BY <2>2, <2>3 DEF Working
    <2>5. QED
        BY <2>1, <2>2, <2>3, <2>4 DEF Rows
<1>8. Ends'
    <2>1. hub[r].inbox = <<>> /\ hub[r].done = FALSE
        BY <1>1, Blanks DEF Safe, Rows, Started
    <2>2. /\ hub'[r].done => hub'[r].inbox = <<>> /\ worker'[r].at \in {"none", "gone"}
          /\ \A i \in 1..Len(hub'[r].inbox) :
                hub'[r].inbox[i] = "end" => i = Len(hub'[r].inbox) /\ worker'[r].at = "gone"
        BY <1>1, <2>1, StartRows
    <2>3. \A q \in Runs \ {r} :
              /\ hub'[q].done => hub'[q].inbox = <<>> /\ worker'[q].at \in {"none", "gone"}
              /\ \A i \in 1..Len(hub'[q].inbox) :
                    hub'[q].inbox[i] = "end" => i = Len(hub'[q].inbox) /\ worker'[q].at = "gone"
        BY <1>1, StartRows DEF Safe, Ends
    <2>4. QED
        BY <2>2, <2>3 DEF Ends
<1>9. Tails'
    <2>1. LogsStay
        BY <1>1, StartRows DEF LogsStay, Lengths, Marks
    <2>2. Follows(tab, Lengths[tab.run], Marks[tab.run])
        BY <1>2, <1>4 DEF Follows
    <2>3. \A d \in Clients :
              \/ client'[d] = client[d]
              \/ Follows(client'[d], Lengths[client'[d].run], Marks[client'[d].run])
        BY <1>2, <1>3, <2>2
    <2>4. QED
        BY <2>1, <2>3, TabsMove DEF Safe
<1>10. ChargesMatchRuns'
    <2>1. r \notin FreshRuns
        BY <1>1 DEF FreshRuns
    <2>2. FreshRuns' = FreshRuns \cup (IF old.from = 0 THEN {r} ELSE {})
        <3>1. \A q \in Runs \ {r} : run'[q] = run[q]
            BY <1>1, StartRows
        <3>2. run'[r].status = "running" /\ run'[r].from = old.from /\ run[r].status = "none"
            BY <1>1, StartRows DEF old, Started
        <3>3. QED
            BY <1>2, <3>1, <3>2 DEF FreshRuns, Started
    <2>3. Cardinality(FreshRuns') = Cardinality(FreshRuns) + (IF old.from = 0 THEN 1 ELSE 0)
        <3>1. Cardinality(FreshRuns \cup {r}) = Cardinality(FreshRuns) + 1
            BY <2>1, RunsAreFew, FS_AddElement
        <3>2. CASE old.from = 0
            BY <2>2, <3>1, <3>2
        <3>3. CASE old.from # 0
            <4>1. FreshRuns' = FreshRuns
                BY <2>2, <3>3
            <4>2. QED
                BY <3>3, <4>1, RunsAreFew
        <3>4. QED
            BY <3>2, <3>3
    <2>4. Cardinality(FreshRuns) \in Nat /\ charged \in Nat /\ runless \in Nat
        BY RunsAreFew, Constants DEF Safe, Types
    <2>5. charged = Cardinality(FreshRuns) + runless
        BY DEF Safe, ChargesMatchRuns
    <2>6. charged' = Cardinality(FreshRuns') + runless'
        BY <1>3, <2>3, <2>4, <2>5
    <2>7. QED
        BY <2>6 DEF ChargesMatchRuns
<1>11. ApprovedIsSignedOff'
    BY <1>3 DEF Safe, ApprovedIsSignedOff
<1>12. QED
    BY <1>5, <1>7, <1>8, <1>9, <1>10, <1>11 DEF Safe

-----------------------------------------------------------------------------

LEMMA StutterSafe ==
    ASSUME Safe, UNCHANGED vars
    PROVE Safe'
<1>1. Types' /\ Rows' /\ Ends' /\ ApprovedIsSignedOff'
    BY DEF Safe, vars, Types, Rows, Ends, ApprovedIsSignedOff, RunRow, EditRow
<1>2. Tails'
    BY TabsMove DEF Safe, vars, LogsStay, Lengths, Marks
<1>3. ChargesMatchRuns'
    <2>1. FreshRuns' = FreshRuns
        BY DEF vars, FreshRuns, Started
    <2>2. QED
        BY <2>1 DEF Safe, vars, ChargesMatchRuns
<1>4. QED
    BY <1>1, <1>2, <1>3 DEF Safe

LEMMA NextSafe ==
    ASSUME Safe, [Next]_vars
    PROVE Safe'
<1>1. CASE UNCHANGED vars
    BY <1>1, StutterSafe
<1>2. ASSUME NEW c \in Clients, Open(c) \/ Leave(c) \/ Drop(c) \/ Serve(c) \/ ChargeInVain(c)
      PROVE  Safe'
    BY <1>2, OpenSafe, LeaveSafe, DropSafe, ReopenSafe, AttachSafe, ResyncSafe, SubscribeSafe,
       ReceiveSafe, ReceiveEndSafe, StartSafe, ChargeInVainSafe DEF Serve
<1>3. ASSUME NEW r \in Runs, Loop(r) \/ Work(r) \/ StageRaises(r) \/ FinishFails(r)
      PROVE  Safe'
    BY <1>3, PublishSafe, CloseHubSafe, LoadSafe, RunStageSafe, PauseSafe, FinishSafe,
       CloseWorkerSafe, StageRaisesSafe, FinishFailsSafe DEF Loop, Work
<1>4. ASSUME NEW g \in Gates, Approve(g) \/ Reject(g) \/ Regenerate(g) \/ Regenerated(g)
      PROVE  Safe'
    BY <1>4, ApproveSafe, RejectSafe, RegenerateSafe, RegeneratedSafe
<1>5. CASE Restart
    BY <1>5, RestartSafe
<1>6. QED
    BY <1>1, <1>2, <1>3, <1>4, <1>5 DEF Next

LEMMA AlwaysSafe == Spec => []Safe
<1>1. Init => Safe
    BY InitSafe
<1>2. Safe /\ [Next]_vars => Safe'
    BY NextSafe
<1>3. QED
    BY <1>1, <1>2, PTL DEF Spec

(* Runs, workers, hubs and tabs keep their shapes, and no more is charged *)
(* than the owner can pay.                                                *)
THEOREM TypeCorrect == Spec => []TypeOK
<1>1. Safe => TypeOK
    BY TypesOK DEF Safe
<1>2. QED
    BY <1>1, AlwaysSafe, PTL

(* No two workers are at the project's artifacts at once (service.py). *)
THEOREM NoDuplicateRun == Spec => []OneWorkerAtATime
<1>1. Safe => OneWorkerAtATime
    <2>1. SUFFICES ASSUME Safe PROVE OneWorkerAtATime
        OBVIOUS
    <2>2. \A q, r \in AtWork : q = r
        BY <2>1 DEF Safe, Rows, Working, AtWork
    <2>3. CASE AtWork = {}
        BY <2>3, FS_EmptySet DEF OneWorkerAtATime
    <2>4. CASE AtWork # {}
        <3>1. PICK r : r \in AtWork
            BY <2>4
        <3>2. AtWork = {r}
            BY <2>2, <3>1
        <3>3. Cardinality(AtWork) = 1
            BY <3>2, FS_Singleton
        <3>4. QED
            BY <3>3 DEF OneWorkerAtATime
    <2>5. QED
        BY <2>3, <2>4
<1>2. QED
    BY <1>1, AlwaysSafe, PTL

(* Every fresh run is charged once and nothing else is, but for the runs *)
(* whose row was not written after the charge.                           *)
THEOREM ChargedOnce == Spec => []ChargesMatchRuns
<1>1. Safe => ChargesMatchRuns
    BY DEF Safe
<1>2. QED
    BY <1>1, AlwaysSafe, PTL

(* A gate that the ledger approves was signed off since it was last paused *)
(* at, rejected or made anew, unless the ledger was written from an        *)
(* outdated copy.                                                          *)
THEOREM NoForgedApproval == Spec => []ApprovedIsSignedOff
<1>1. Safe => ApprovedIsSignedOff
    BY DEF Safe
<1>2. QED
    BY <1>1, AlwaysSafe, PTL

-----------------------------------------------------------------------------
(* What EventTail sees of a tab: its place is n less what its queue holds. *)

ViewAs(row, n) ==
    LET following == row.at \in {"tailing", "ended"} IN
    [log |-> IF following THEN row.run ELSE 0,
     place |-> IF following
               THEN IF row.queue # <<>> /\ Head(row.queue) # 0 THEN Head(row.queue) - 1 ELSE n
               ELSE 0,
     seen |-> row.seen,
     over |-> row.over]

LEMMA Viewed ==
    /\ Views = [c \in Clients |-> Views[c]] /\ Views' = [c \in Clients |-> Views'[c]]
    /\ \A c \in Clients :
          /\ Views[c] = ViewAs(client[c], Len(hub[client[c].run].buffer))
          /\ Views'[c] = ViewAs(client'[c], Len(hub'[client'[c].run].buffer))
<1>1. \A c \in Clients : Views[c] = View(c) /\ Views'[c] = View(c)'
    BY DEF Views
<1>2. ASSUME NEW c \in Clients
      PROVE  View(c) = ViewAs(client[c], Len(hub[client[c].run].buffer))
    BY DEF View, ViewAs, Following, PlaceOf
<1>3. ASSUME NEW c \in Clients
      PROVE  View(c)' = ViewAs(client'[c], Len(hub'[client'[c].run].buffer))
    BY DEF View, ViewAs, Following, PlaceOf
<1>4. Views = [c \in Clients |-> Views[c]] /\ Views' = [c \in Clients |-> Views'[c]]
    BY DEF Views
<1>5. QED
    BY <1>1, <1>2, <1>3, <1>4

LEMMA AwayView ==
    ASSUME NEW row, row.at # "tailing", row.at # "ended", NEW n
    PROVE  ViewAs(row, n) = [log |-> 0, place |-> 0, seen |-> row.seen, over |-> row.over]
BY DEF ViewAs

LEMMA TailingView ==
    ASSUME NEW row, row.at = "tailing", row.queue \in Seq(Nat), NEW n \in Nat, NEW marks \in {0, 1},
           IsRestOf(row.queue, n, marks)
    PROVE  ViewAs(row, n) = [log |-> row.run, place |-> n - Rest(row.queue, marks),
                             seen |-> row.seen, over |-> row.over]
<1> DEFINE queue == row.queue
           place == IF queue # <<>> /\ Head(queue) # 0 THEN Head(queue) - 1 ELSE n
<1>1. ViewAs(row, n) = [log |-> row.run, place |-> place, seen |-> row.seen, over |-> row.over]
    BY DEF ViewAs
<1>2. queue \in Seq(Nat) /\ IsRestOf(queue, n, marks) /\ Rest(queue, marks) \in 0..n
    BY DEF IsRestOf
<1> HIDE DEF queue
<1>3. place = n - Rest(queue, marks)
    <2>1. CASE queue = <<>>
        <3>1. Rest(queue, marks) = 0
            BY <1>2, <2>1 DEF Rest
        <3>2. QED
            BY <2>1, <3>1
    <2>2. CASE queue # <<>> /\ Head(queue) = 0
        BY <1>2, <2>2, RestHead
    <2>3. CASE queue # <<>> /\ Head(queue) # 0
        <3>1. Head(queue) = (n - Rest(queue, marks)) + 1
            BY <1>2, <2>3, RestHead
        <3>2. QED
            BY <1>2, <2>3, <3>1
    <2>4. QED
        BY <2>1, <2>2, <2>3
<1>4. QED
    BY <1>1, <1>3 DEF queue

LEMMA EndedView ==
    ASSUME NEW row, row.at = "ended", row.queue = <<>>, NEW n
    PROVE  ViewAs(row, n) = [log |-> row.run, place |-> n, seen |-> row.seen, over |-> row.over]
BY DEF ViewAs

LogsKept == \A r \in Runs : hub'[r].buffer = hub[r].buffer /\ hub'[r].done = hub[r].done

LEMMA SameLogs ==
    ASSUME LogsKept
    PROVE Buffers' = Buffers /\ Finished' = Finished
BY DEF LogsKept, Buffers, Finished

LEMMA SameView ==
    ASSUME Safe, LogsKept, NEW c \in Clients, client'[c] = client[c]
    PROVE  Views'[c] = Views[c]
<1>1. CASE client[c].run \in Runs
    BY <1>1, Viewed DEF LogsKept
<1>2. CASE client[c].run \notin Runs
    <2>1. client[c].at # "tailing" /\ client[c].at # "ended"
        BY <1>2 DEF Safe, Tails, Follows
    <2>2. QED
        BY <2>1, Viewed, AwayView
<1>3. QED
    BY <1>1, <1>2

LEMMA AwayStays ==
    ASSUME NEW c \in Clients, client[c].at # "tailing", client[c].at # "ended",
           client'[c].at # "tailing", client'[c].at # "ended",
           client'[c].seen = client[c].seen, client'[c].over = client[c].over
    PROVE  Views'[c] = Views[c]
<1> DEFINE Away(row) == [log |-> 0, place |-> 0, seen |-> row.seen, over |-> row.over]
<1>1. ViewAs(client[c], Len(hub[client[c].run].buffer)) = Away(client[c])
    BY AwayView
<1>2. ViewAs(client'[c], Len(hub'[client'[c].run].buffer)) = Away(client'[c])
    BY AwayView
<1>3. Away(client[c]) = Away(client'[c])
    OBVIOUS
<1> HIDE DEF Away
<1>4. QED
    BY <1>1, <1>2, <1>3, Viewed

LEMMA Unseen ==
    ASSUME LogsKept, \A c \in Clients : Views'[c] = Views[c]
    PROVE  UNCHANGED Stream!tailVars
<1>1. Views' = Views
    BY Viewed
<1>2. QED
    BY <1>1, SameLogs DEF Stream!tailVars

LEMMA Parting ==
    ASSUME Safe, LogsKept,
           \A c \in Clients :
              client'[c] = client[c] \/ client'[c] = Closed \/ client'[c] = Reconnecting(c)
    PROVE  Stream!Leave
<1> DEFINE closed == {c \in Clients : client'[c] = Closed}
           gone == {c \in Clients : client'[c] = Reconnecting(c)}
<1>1. ASSUME NEW c \in closed
      PROVE  Views'[c] = Stream!Away(0)
    BY <1>1, Blanks, Viewed, AwayView DEF Stream!Away
<1>2. ASSUME NEW c \in gone
      PROVE  Views'[c] = Stream!Away(Views[c].seen)
    <2>1. /\ client'[c].at = "connecting" /\ ~client'[c].over
          /\ client'[c].seen = client[c].seen /\ client'[c].over \in BOOLEAN
        <3>1. Reconnecting(c).over \in BOOLEAN
            BY ReconnectingRow DEF Safe, ClientRow
        <3>2. QED
            BY <3>1, ReconnectingRow DEF Safe
    <2>2. Views[c].seen = client[c].seen
        BY Viewed DEF ViewAs
    <2>3. QED
        BY <2>1, <2>2, Viewed, AwayView DEF Stream!Away
<1>3. ASSUME NEW c \in Clients, c \notin closed, c \notin gone
      PROVE  Views'[c] = Views[c]
    BY <1>3, SameView
<1>4. closed \in SUBSET Clients /\ gone \in SUBSET Clients
    OBVIOUS
<1> HIDE DEF closed, gone
<1>5. Views' = [c \in Clients |-> IF c \in closed THEN Stream!Away(0)
                                 ELSE IF c \in gone THEN Stream!Away(Views[c].seen) ELSE Views[c]]
    BY <1>1, <1>2, <1>3, Viewed
<1>6. QED
    BY <1>4, <1>5, SameLogs DEF Stream!Leave

-----------------------------------------------------------------------------
(* Every step is one of EventTail, or none.                                *)

LEMMA SetClientDoes ==
    ASSUME Safe, NEW c \in Clients, NEW row, SetClient(c, row), hub' = hub
    PROVE  /\ LogsKept /\ client'[c] = row /\ \A d \in Clients \ {c} : client'[d] = client[d]
           /\ \A d \in Clients \ {c} : Views'[d] = Views[d]
<1>1. client \in [Clients -> ClientRow] /\ LogsKept
    BY DEF Safe, Types, LogsKept
<1>2. client'[c] = row /\ \A d \in Clients \ {c} : client'[d] = client[d]
    BY <1>1 DEF SetClient
<1>3. QED
    BY <1>1, <1>2, SameView

LEMMA PartingTab ==
    ASSUME Safe, NEW c \in Clients, hub' = hub,
           SetClient(c, Closed) \/ SetClient(c, Reconnecting(c))
    PROVE  Stream!Leave
BY SetClientDoes, Parting

LEMMA AwayTab ==
    ASSUME Safe, NEW c \in Clients, NEW row, SetClient(c, row), hub' = hub,
           client[c].at # "tailing", client[c].at # "ended",
           row.at # "tailing", row.at # "ended",
           row.seen = client[c].seen, row.over = client[c].over
    PROVE  UNCHANGED Stream!tailVars
<1>1. Views'[c] = Views[c]
    BY SetClientDoes, AwayStays
<1>2. QED
    BY <1>1, SetClientDoes, Unseen

LEMMA OpenStreams ==
    ASSUME Safe, NEW c \in Clients, Open(c)
    PROVE UNCHANGED Stream!tailVars
<1>1. PICK ask \in Asks[c] :
          SetClient(c, [Closed EXCEPT !.at = "connecting", !.from = ask[1], !.gated = ask[2]])
    BY DEF Open
<1> DEFINE row == [Closed EXCEPT !.at = "connecting", !.from = ask[1], !.gated = ask[2]]
<1>2. client[c] = Closed /\ client[c].at = "closed" /\ hub' = hub
    BY DEF Open, Safe, Tails, Follows
<1>3. row.at = "connecting" /\ row.seen = Closed.seen /\ row.over = Closed.over
    BY Blanks DEF ClientRow
<1>4. SetClient(c, row)
    BY <1>1
<1> HIDE DEF row
<1>5. QED
    BY <1>2, <1>3, <1>4, AwayTab

LEMMA AttachStreams ==
    ASSUME Safe, NEW c \in Clients, Attach(c) \/ Resync(c)
    PROVE  UNCHANGED Stream!tailVars
<1> DEFINE old == client[c]
<1>1. old \in ClientRow /\ old.at = "connecting" /\ hub' = hub
    BY Shapes DEF Safe, Attach, Resync
<1>2. ASSUME NEW r \in Runs, Accept(c, r)
      PROVE  UNCHANGED Stream!tailVars
    <2> DEFINE row == [old EXCEPT !.at = "accepted", !.run = r]
    <2>1. SetClient(c, row)
        BY <1>2 DEF Accept
    <2> HIDE DEF old
    <2>2. row.at = "accepted" /\ row.seen = old.seen /\ row.over = old.over
        BY <1>1 DEF ClientRow
    <2> HIDE DEF row
    <2>3. QED
        BY <1>1, <2>1, <2>2, AwayTab DEF old
<1>3. CASE Resync(c)
    <2> DEFINE row == [old EXCEPT !.at = "resynced"]
    <2>1. SetClient(c, row)
        BY <1>3 DEF Resync
    <2> HIDE DEF old
    <2>2. row.at = "resynced" /\ row.seen = old.seen /\ row.over = old.over
        BY <1>1 DEF ClientRow
    <2> HIDE DEF row
    <2>3. QED
        BY <1>1, <2>1, <2>2, AwayTab DEF old
<1>4. QED
    BY <1>2, <1>3 DEF Attach

LEMMA LeaveStreams ==
    ASSUME Safe, NEW c \in Clients,
           Leave(c) \/ Refuse(c) \/ Drop(c) \/ Reopen(c) \/ OpenAgain(c)
    PROVE  Stream!Leave
<1>1. hub' = hub /\ (SetClient(c, Closed) \/ SetClient(c, Reconnecting(c)))
    BY DEF Leave, Refuse, Drop, Reopen, OpenAgain
<1>2. QED
    BY <1>1, PartingTab

ViewRow == [log : Runs \cup {0}, place : Nat, seen : Nat, over : BOOLEAN]

LEMMA ViewsEqual ==
    ASSUME NEW x \in ViewRow, NEW y \in ViewRow,
           x.log = y.log, x.place = y.place, x.seen = y.seen, x.over = y.over
    PROVE  x = y
BY DEF ViewRow

Joined(view, l, place) == [view EXCEPT !.log = l, !.place = place]
Advanced(view, next) == [view EXCEPT !.place = next, !.seen = next]

LEMMA JoinedView ==
    ASSUME NEW old \in ViewRow, NEW new \in ViewRow, NEW l \in Runs, NEW place \in Nat,
           new.log = l, new.place = place, new.seen = old.seen, new.over = old.over
    PROVE  new = Joined(old, l, place)
<1> DEFINE x == Joined(old, l, place)
<1>1. x \in ViewRow /\ x.log = l /\ x.place = place /\ x.seen = old.seen /\ x.over = old.over
    BY DEF ViewRow, Joined
<1> HIDE DEF x
<1>2. QED
    BY <1>1, ViewsEqual DEF x

LEMMA ReadView ==
    ASSUME NEW old \in ViewRow, NEW new \in ViewRow, NEW next \in Nat,
           new.place = next, new.seen = next, new.log = old.log, new.over = old.over
    PROVE  new = Advanced(old, next)
<1> DEFINE x == Advanced(old, next)
<1>1. x \in ViewRow /\ x.place = next /\ x.seen = next /\ x.log = old.log /\ x.over = old.over
    BY DEF ViewRow, Advanced
<1> HIDE DEF x
<1>2. QED
    BY <1>1, ViewsEqual DEF x

LEMMA OverView ==
    ASSUME NEW old \in ViewRow, NEW new \in ViewRow,
           new.over = TRUE, new.log = old.log, new.place = old.place, new.seen = old.seen
    PROVE  new = [old EXCEPT !.over = TRUE]
<1> DEFINE x == [old EXCEPT !.over = TRUE]
<1>1. x \in ViewRow /\ x.over = TRUE /\ x.log = old.log /\ x.place = old.place /\ x.seen = old.seen
    BY DEF ViewRow
<1> HIDE DEF x
<1>2. QED
    BY <1>1, ViewsEqual DEF x

LEMMA SubscribeStreams ==
    ASSUME Safe, NEW c \in Clients, Subscribe(c)
    PROVE  Stream!Join(c, client[c].run)
<1> DEFINE old == client[c]
           l == old.run
           queue == After(old.seen, Len(hub[l].buffer)) \o (IF hub[l].done THEN << 0 >> ELSE <<>>)
           row == [old EXCEPT !.at = "tailing", !.queue = queue]
           n == Lengths[l]
           marks == Marks[l]
           place == IF old.seen <= n THEN old.seen ELSE n
<1>1. /\ old.at = "accepted" /\ old \in ClientRow /\ old.seen \in Nat /\ old.over = FALSE /\ l \in Runs
      /\ hub' = hub /\ SetClient(c, row)
    <2>1. old.at = "accepted" /\ hub' = hub /\ SetClient(c, row)
        BY DEF Subscribe
    <2>2. l \in Runs
        BY <2>1 DEF Safe, Tails, Follows
    <2>3. old.over \in BOOLEAN /\ ~old.over
        BY <2>1, Shapes, NotOver DEF Safe
    <2>4. QED
        BY <2>1, <2>2, <2>3, Shapes DEF Safe
<1>2. n = Len(hub[l].buffer) /\ n \in Nat /\ marks \in {0, 1} /\ Buffers[l] = hub[l].buffer
    BY <1>1, LogsTyped DEF Safe, Buffers
<1>3. /\ queue \in Seq(Nat) /\ IsRestOf(queue, n, marks)
      /\ Rest(queue, marks) = IF n > old.seen THEN n - old.seen ELSE 0
    BY <1>1, Backlog DEF Safe
<1>4. Views[c] = [log |-> 0, place |-> 0, seen |-> old.seen, over |-> FALSE]
    BY <1>1, Viewed, AwayView
<1>5. client'[c] = row /\ \A d \in Clients \ {c} : Views'[d] = Views[d]
    BY <1>1, SetClientDoes
<1>6. LogsKept
    BY <1>1 DEF LogsKept
<1> HIDE DEF queue
<1>7. /\ row.at = "tailing" /\ row.queue = queue /\ row.run = l
      /\ row.seen = old.seen /\ row.over = FALSE
    BY <1>1 DEF ClientRow
<1> HIDE DEF row, n, marks
<1>8. n - Rest(queue, marks) = place /\ place \in Nat
    <2>1. CASE n > old.seen
        <3>1. Rest(queue, marks) = n - old.seen /\ place = old.seen
            BY <1>1, <1>2, <1>3, <2>1
        <3>2. QED
            BY <1>1, <1>2, <3>1
    <2>2. CASE ~(n > old.seen)
        <3>1. Rest(queue, marks) = 0 /\ place = n
            BY <1>1, <1>2, <1>3, <2>2
        <3>2. QED
            BY <1>2, <3>1
    <2>3. QED
        BY <2>1, <2>2
<1>9. Views'[c] = [log |-> l, place |-> place, seen |-> old.seen, over |-> FALSE]
    <2>1. hub'[row.run].buffer = hub[l].buffer
        BY <1>1, <1>7
    <2>2. Views'[c] = ViewAs(row, n)
        BY <1>2, <1>5, <2>1, Viewed
    <2>3. ViewAs(row, n) = [log |-> l, place |-> n - Rest(queue, marks), seen |-> old.seen, over |-> FALSE]
        BY <1>2, <1>3, <1>7, TailingView
    <2>4. QED
        BY <1>8, <2>2, <2>3
<1> HIDE DEF place
<1>10. Views[c] \in ViewRow /\ Views'[c] \in ViewRow
    BY <1>1, <1>4, <1>8, <1>9 DEF ViewRow
<1>11. Views'[c] = Joined(Views[c], l, place)
    <2>1. /\ Views'[c].log = l /\ Views'[c].place = place /\ Views'[c].seen = Views[c].seen
          /\ Views'[c].over = Views[c].over
        BY <1>4, <1>9
    <2>2. l \in Runs /\ place \in Nat
        BY <1>1, <1>8
    <2> HIDE DEF l
    <2>3. QED
        BY <1>10, <2>1, <2>2, JoinedView
<1>12. Views' = [Views EXCEPT ![c] = [Views[c] EXCEPT !.log = l, !.place = place]]
    <2>1. Views' = [Views EXCEPT ![c] = Views'[c]]
        BY <1>5, Viewed
    <2>2. QED
        BY <1>11, <2>1 DEF Joined
<1>13. Views[c].log = 0 /\ Views[c].seen = old.seen
    BY <1>4
<1>14. place = IF Views[c].seen <= Len(Buffers[l]) THEN Views[c].seen ELSE Len(Buffers[l])
    BY <1>2, <1>13 DEF place
<1>15. QED
    BY <1>6, <1>12, <1>13, <1>14, SameLogs DEF Stream!Join

LEMMA ReceiveStreams ==
    ASSUME Safe, NEW c \in Clients, Receive(c)
    PROVE  Stream!Read(c) \/ Stream!Leave
<1> DEFINE old == client[c]
           l == old.run
           i == Head(old.queue)
           row == [old EXCEPT !.seen = i, !.queue = Tail(@)]
           n == Lengths[l]
           marks == Marks[l]
           m == Rest(old.queue, marks)
<1>1. /\ old.at = "tailing" /\ old \in ClientRow /\ old.queue \in Seq(Nat) /\ l \in Runs
      /\ old.seen \in Nat /\ old.over = FALSE
      /\ n \in Nat /\ marks \in {0, 1} /\ IsRestOf(old.queue, n, marks)
      /\ n = Len(hub[l].buffer) /\ old.queue # <<>> /\ i # 0
    <2>1. old.at = "tailing" /\ old.queue # <<>> /\ i # 0
        BY DEF Receive
    <2>2. old.over \in BOOLEAN
        BY Shapes DEF Safe
    <2>3. QED
        BY <2>1, <2>2, TailingTab
<1>2. hub' = hub /\ (SetClient(c, Closed) \/ SetClient(c, row))
    BY DEF Receive
<1>3. CASE SetClient(c, Closed)
    BY <1>2, <1>3, PartingTab
<1>4. CASE SetClient(c, row)
    <2>1. /\ i = (n - m) + 1 /\ i \in 1..n /\ m \in 0..n
          /\ Tail(old.queue) \in Seq(Nat) /\ IsRestOf(Tail(old.queue), n, marks)
          /\ Rest(Tail(old.queue), marks) = m - 1
        <3>1. m \in 0..n
            BY <1>1 DEF IsRestOf
        <3>2. /\ i = (n - Rest(old.queue, marks)) + 1 /\ i \in 1..n
              /\ Tail(old.queue) \in Seq(Nat) /\ IsRestOf(Tail(old.queue), n, marks)
              /\ Rest(Tail(old.queue), marks) = Rest(old.queue, marks) - 1
            <4> HIDE DEF n, marks
            <4>1. QED
                BY <1>1, RestHead, SMTT(30)
        <3>3. QED
            BY <3>1, <3>2
    <2>2. Views[c] = [log |-> l, place |-> n - m, seen |-> old.seen, over |-> FALSE]
        <3>1. Views[c] = ViewAs(old, n)
            BY <1>1, Viewed
        <3>2. ViewAs(old, n) = [log |-> old.run, place |-> n - Rest(old.queue, marks),
                                seen |-> old.seen, over |-> old.over]
            BY <1>1, TailingView
        <3>3. QED
            BY <1>1, <3>1, <3>2
    <2>3. client'[c] = row /\ LogsKept /\ \A d \in Clients \ {c} : Views'[d] = Views[d]
        BY <1>2, <1>4, SetClientDoes
    <2>4. Buffers[l] = hub[l].buffer
        BY <1>1 DEF Buffers
    <2> HIDE DEF i, n, marks, m
    <2>5. /\ row.at = "tailing" /\ row.queue = Tail(old.queue) /\ row.run = l
          /\ row.seen = i /\ row.over = FALSE
        BY <1>1 DEF ClientRow
    <2> HIDE DEF row
    <2>6. Views'[c] = [log |-> l, place |-> i, seen |-> i, over |-> FALSE]
        <3>1. hub'[row.run].buffer = hub[l].buffer
            BY <1>2, <2>5
        <3>2. Views'[c] = ViewAs(row, n)
            BY <1>1, <2>3, <3>1, Viewed
        <3>3. ViewAs(row, n) = [log |-> l, place |-> n - Rest(row.queue, marks), seen |-> i, over |-> FALSE]
            <4>1. n \in Nat /\ marks \in {0, 1} /\ row.queue \in Seq(Nat) /\ IsRestOf(row.queue, n, marks)
                BY <1>1, <2>1, <2>5
            <4>2. QED
                BY <2>5, <4>1, TailingView
        <3>4. n - Rest(row.queue, marks) = i
            <4>1. Rest(row.queue, marks) = m - 1
                BY <2>1, <2>5
            <4>2. n \in Nat /\ i = (n - m) + 1 /\ m \in 0..n
                BY <1>1, <2>1
            <4>3. QED
                BY <4>1, <4>2
        <3>5. QED
            BY <3>2, <3>3, <3>4
    <2>7. /\ Views[c] \in ViewRow /\ Views'[c] \in ViewRow /\ n - m \in Nat /\ i = Views[c].place + 1
          /\ i \in Nat
        <3>1. n - m \in Nat /\ i \in Nat /\ i = (n - m) + 1
            <4>1. n \in Nat
                BY <1>1
            <4>2. i = (n - m) + 1 /\ i \in 1..n /\ m \in 0..n
                BY <2>1
            <4>3. QED
                BY <4>1, <4>2
        <3>2. l \in Runs \cup {0} /\ old.seen \in Nat
            BY <1>1
        <3>3. Views[c] \in ViewRow
            BY <2>2, <3>1, <3>2 DEF ViewRow
        <3>4. Views'[c] \in ViewRow
            BY <2>6, <3>1, <3>2 DEF ViewRow
        <3>5. Views[c].place = n - m
            BY <2>2
        <3>6. QED
            BY <3>1, <3>3, <3>4, <3>5
    <2>8. Views'[c] = Advanced(Views[c], i)
        <3>1. /\ Views'[c].place = i /\ Views'[c].seen = i /\ Views'[c].log = Views[c].log
              /\ Views'[c].over = Views[c].over
            BY <2>2, <2>6
        <3>2. QED
            BY <2>7, <3>1, ReadView
    <2>9. Views' = [Views EXCEPT ![c] = [Views[c] EXCEPT !.place = i, !.seen = i]]
        <3>1. Views' = [Views EXCEPT ![c] = Views'[c]]
            BY <2>3, Viewed
        <3>2. QED
            BY <2>8, <3>1 DEF Advanced
    <2>10. Views[c].log # 0 /\ ~Views[c].over /\ i <= Len(Buffers[Views[c].log])
        <3>1. Views[c].log = l /\ Views[c].over = FALSE
            BY <2>2
        <3>2. l # 0 /\ i <= Len(Buffers[l])
            BY <1>1, <2>1, <2>4, Constants
        <3>3. QED
            BY <3>1, <3>2
    <2>11. Stream!Read(c)
        BY <2>3, <2>7, <2>9, <2>10, SameLogs DEF Stream!Read
    <2>12. QED
        BY <2>11
<1>5. QED
    BY <1>2, <1>3, <1>4

LEMMA ReceiveEndStreams ==
    ASSUME Safe, NEW c \in Clients, ReceiveEnd(c)
    PROVE  Stream!End(c)
<1> DEFINE old == client[c]
           l == old.run
           row == [old EXCEPT !.at = "ended", !.over = TRUE, !.queue = <<>>]
           n == Lengths[l]
           marks == Marks[l]
<1>1. /\ old.at = "tailing" /\ old \in ClientRow /\ old.queue \in Seq(Nat) /\ l \in Runs
      /\ old.seen \in Nat /\ old.over = FALSE
      /\ n \in Nat /\ marks \in {0, 1} /\ IsRestOf(old.queue, n, marks)
      /\ n = Len(hub[l].buffer) /\ old.queue # <<>> /\ Head(old.queue) = 0
    <2>1. old.at = "tailing" /\ old.queue # <<>> /\ Head(old.queue) = 0
        BY DEF ReceiveEnd
    <2>2. old.over \in BOOLEAN
        BY Shapes DEF Safe
    <2>3. /\ old \in ClientRow /\ old.queue \in Seq(Nat) /\ old.seen \in Nat /\ l \in Runs /\ ~old.over
          /\ n \in Nat /\ marks \in {0, 1} /\ n = Len(hub[l].buffer) /\ IsRestOf(old.queue, n, marks)
        BY <2>1, TailingTab
    <2> HIDE DEF old, n, marks
    <2>4. QED
        BY <2>1, <2>2, <2>3
<1>2. hub' = hub /\ SetClient(c, row)
    BY DEF ReceiveEnd
<1>3. marks = 1 /\ Rest(old.queue, marks) = 0
    BY <1>1, RestHead
<1>4. hub[l].done
    BY <1>1, <1>3 DEF Marks
<1>5. Views[c] = [log |-> l, place |-> n, seen |-> old.seen, over |-> FALSE]
    <2>1. n - Rest(old.queue, marks) = n
        BY <1>1, <1>3
    <2>2. Views[c] = ViewAs(old, n)
        BY <1>1, Viewed
    <2>3. ViewAs(old, n) = [log |-> old.run, place |-> n - Rest(old.queue, marks),
                            seen |-> old.seen, over |-> old.over]
        BY <1>1, TailingView
    <2>4. QED
        BY <1>1, <2>1, <2>2, <2>3
<1>6. client'[c] = row /\ LogsKept /\ \A d \in Clients \ {c} : Views'[d] = Views[d]
    BY <1>2, SetClientDoes
<1>7. Buffers[l] = hub[l].buffer /\ l \in Finished
    BY <1>1, <1>4 DEF Buffers, Finished
<1> HIDE DEF n, marks
<1>8. row.at = "ended" /\ row.queue = <<>> /\ row.run = l /\ row.seen = old.seen /\ row.over = TRUE
    BY <1>1 DEF ClientRow
<1> HIDE DEF row
<1>9. Views'[c] = [log |-> l, place |-> n, seen |-> old.seen, over |-> TRUE]
    <2>1. hub'[row.run].buffer = hub[l].buffer
        BY <1>2, <1>8
    <2>2. Views'[c] = ViewAs(row, n)
        BY <1>1, <1>6, <2>1, Viewed
    <2>3. ViewAs(row, n) = [log |-> l, place |-> n, seen |-> old.seen, over |-> TRUE]
        BY <1>8, EndedView
    <2>4. QED
        BY <2>2, <2>3
<1>10. Views[c] \in ViewRow /\ Views'[c] \in ViewRow
    BY <1>1, <1>5, <1>9 DEF ViewRow
<1>11. Views'[c] = [Views[c] EXCEPT !.over = TRUE]
    <2>1. /\ Views'[c].over = TRUE /\ Views'[c].log = Views[c].log /\ Views'[c].place = Views[c].place
          /\ Views'[c].seen = Views[c].seen
        BY <1>5, <1>9
    <2>2. QED
        BY <1>10, <2>1, OverView
<1>12. Views' = [Views EXCEPT ![c] = [Views[c] EXCEPT !.over = TRUE]]
    <2>1. Views' = [Views EXCEPT ![c] = Views'[c]]
        BY <1>6, Viewed
    <2>2. QED
        BY <1>11, <2>1
<1>13. Views[c].log \in Finished /\ Views[c].place = Len(Buffers[Views[c].log])
    BY <1>1, <1>5, <1>7
<1>14. QED
    BY <1>6, <1>12, <1>13, SameLogs DEF Stream!End

(* What is put in the queues changes no place: there is as much more in the *)
(* log, or it is the end.                                                   *)
LEMMA PutViews ==
    ASSUME Safe, NEW r \in Runs, NEW row, NEW i \in Nat, NEW marks \in {0, 1}, NEW n \in Nat,
           hub' = [hub EXCEPT ![r] = row], Put(r, i), ~hub[r].done, n = Len(row.buffer),
           \A queue \in Seq(Nat) :
              IsRestOf(queue, Lengths[r], 0) =>
                 /\ IsRestOf(Append(queue, i), n, marks)
                 /\ n - Rest(Append(queue, i), marks) = Lengths[r] - Rest(queue, 0)
    PROVE  Views' = Views
<1>1. hub \in [Runs -> HubRow] /\ Marks[r] = 0
    BY DEF Safe, Types, Marks
<1>2. hub'[r] = row /\ \A q \in Runs \ {r} : hub'[q] = hub[q]
    BY <1>1
<1>3. ASSUME NEW c \in Clients
      PROVE  Views'[c] = Views[c]
    <2>1. CASE c \in Subscribers(r)
        <3> DEFINE old == client[c]
                   longer == Append(old.queue, i)
                   new == [old EXCEPT !.queue = longer]
        <3>1. old.at = "tailing" /\ old.run = r
            BY <2>1 DEF Subscribers
        <3>2. /\ old \in ClientRow /\ old.queue \in Seq(Nat) /\ Lengths[r] \in Nat
              /\ IsRestOf(old.queue, Lengths[r], 0) /\ Lengths[r] = Len(hub[r].buffer)
            BY <1>1, <3>1, TailingTab
        <3>3. client'[c] = new
            BY <2>1, PutTyped DEF Safe
        <3>4. longer \in Seq(Nat) /\ IsRestOf(longer, n, marks)
              /\ n - Rest(longer, marks) = Lengths[r] - Rest(old.queue, 0)
            BY <3>2
        <3>5. Views[c] = ViewAs(old, Lengths[r])
            BY <3>1, <3>2, Viewed
        <3>6. ViewAs(old, Lengths[r]) = [log |-> r, place |-> Lengths[r] - Rest(old.queue, 0),
                                         seen |-> old.seen, over |-> old.over]
            BY <3>1, <3>2, TailingView
        <3> HIDE DEF old, longer
        <3>7. /\ new.at = "tailing" /\ new.run = r /\ new.queue = longer
              /\ new.seen = old.seen /\ new.over = old.over
            BY <3>1, <3>2 DEF ClientRow
        <3> HIDE DEF new
        <3>8. Views'[c] = ViewAs(new, n)
            <4>1. hub'[new.run].buffer = row.buffer
                BY <1>2, <3>7
            <4>2. QED
                BY <3>3, <4>1, Viewed
        <3>9. ViewAs(new, n) = [log |-> r, place |-> n - Rest(longer, marks),
                                seen |-> old.seen, over |-> old.over]
            BY <3>4, <3>7, TailingView
        <3>10. QED
            BY <3>4, <3>5, <3>6, <3>8, <3>9
    <2>2. CASE c \notin Subscribers(r)
        <3>1. client'[c] = client[c]
            BY <2>2, PutTyped DEF Safe
        <3>2. CASE client[c].run \in Runs \ {r}
            BY <1>2, <3>1, <3>2, Viewed
        <3>3. CASE client[c].run \notin Runs \ {r}
            <4>1. client[c].at # "tailing" /\ client[c].at # "ended"
                BY <1>1, <2>2, <3>3 DEF Safe, Tails, Follows, Subscribers
            <4>2. QED
                BY <3>1, <4>1, AwayStays
        <3>4. QED
            BY <3>2, <3>3
    <2>3. QED
        BY <2>1, <2>2
<1>4. QED
    BY <1>3, Viewed

LEMMA PublishStreams ==
    ASSUME Safe, NEW r \in Runs, Publish(r)
    PROVE Stream!Write(r)
<1> DEFINE h == hub[r]
           n == Len(h.buffer)
           event == Head(h.inbox)
           row == [h EXCEPT !.inbox = Tail(@), !.buffer = Append(@, event)]
<1>1. h \in HubRow /\ h.inbox \in Seq(Events \cup {"end"}) /\ h.buffer \in Seq(Events) /\ n \in Nat
      /\ hub \in [Runs -> HubRow]
    BY Shapes DEF Safe, Types
<1>2. hub' = [hub EXCEPT ![r] = row] /\ Put(r, n + 1) /\ h.inbox # <<>> /\ event # "end"
    BY DEF Publish
<1>3. Lengths[r] = n
    BY DEF Lengths
<1>4. ~h.done
    BY <1>2 DEF Safe, Ends
<1> HIDE DEF h
<1>5. event \in Events
    BY <1>1, <1>2
<1>6. row.buffer = Append(h.buffer, event) /\ row.done = h.done
    BY <1>1 DEF HubRow
<1>7. Len(row.buffer) = n + 1 /\ n + 1 \in Nat
    BY <1>1, <1>6
<1> HIDE DEF n, event, row
<1>8. ASSUME NEW queue \in Seq(Nat), IsRestOf(queue, n, 0)
      PROVE  /\ IsRestOf(Append(queue, n + 1), n + 1, 0)
             /\ (n + 1) - Rest(Append(queue, n + 1), 0) = n - Rest(queue, 0)
    <2>1. /\ IsRestOf(Append(queue, n + 1), n + 1, 0)
          /\ Rest(Append(queue, n + 1), 0) = Rest(queue, 0) + 1
        BY <1>1, <1>8, RestGrows
    <2>2. Rest(queue, 0) \in 0..n
        BY <1>8 DEF IsRestOf
    <2>3. QED
        BY <1>1, <2>1, <2>2
<1>9. Views' = Views
    <2>1. /\ hub' = [hub EXCEPT ![r] = row] /\ Put(r, n + 1) /\ ~hub[r].done
          /\ n + 1 \in Nat /\ n + 1 = Len(row.buffer)
        BY <1>2, <1>4, <1>7 DEF h
    <2>2. \A queue \in Seq(Nat) :
              IsRestOf(queue, Lengths[r], 0) =>
                 /\ IsRestOf(Append(queue, n + 1), n + 1, 0)
                 /\ (n + 1) - Rest(Append(queue, n + 1), 0) = Lengths[r] - Rest(queue, 0)
        BY <1>3, <1>8
    <2>3. QED
        BY <2>1, <2>2, PutViews
<1>10. Buffers' = [Buffers EXCEPT ![r] = Append(Buffers[r], event)]
    <2>1. hub'[r].buffer = Append(h.buffer, event) /\ \A q \in Runs \ {r} : hub'[q].buffer = hub[q].buffer
        BY <1>1, <1>2, <1>6
    <2>2. QED
        BY <2>1 DEF Buffers, h
<1>11. Finished' = Finished /\ r \notin Finished
    <2>1. \A q \in Runs : hub'[q].done = hub[q].done
        BY <1>1, <1>2, <1>6 DEF h
    <2>2. QED
        BY <1>4, <2>1 DEF Finished, h
<1>12. QED
    BY <1>5, <1>9, <1>10, <1>11 DEF Stream!Write

LEMMA CloseHubStreams ==
    ASSUME Safe, NEW r \in Runs, CloseHub(r)
    PROVE Stream!Seal(r)
<1> DEFINE h == hub[r]
           n == Len(h.buffer)
           row == [h EXCEPT !.inbox = <<>>, !.done = TRUE]
<1>1. h \in HubRow /\ h.buffer \in Seq(Events) /\ n \in Nat /\ hub \in [Runs -> HubRow]
    BY Shapes DEF Safe, Types
<1>2. hub' = [hub EXCEPT ![r] = row] /\ Put(r, 0) /\ h.inbox # <<>>
    BY DEF CloseHub
<1>3. Lengths[r] = n
    BY DEF Lengths
<1>4. ~h.done
    BY <1>2 DEF Safe, Ends
<1> HIDE DEF h
<1>5. row.buffer = h.buffer /\ row.done = TRUE
    BY <1>1 DEF HubRow
<1>6. Len(row.buffer) = n
    BY <1>5
<1> HIDE DEF n, row
<1>7. ASSUME NEW queue \in Seq(Nat), IsRestOf(queue, n, 0)
      PROVE  /\ IsRestOf(Append(queue, 0), n, 1)
             /\ n - Rest(Append(queue, 0), 1) = n - Rest(queue, 0)
    BY <1>1, <1>7, RestEnds
<1>8. Views' = Views
    BY <1>1, <1>2, <1>3, <1>4, <1>6, <1>7, PutViews DEF h
<1>9. Buffers' = Buffers
    <2>1. \A q \in Runs : hub'[q].buffer = hub[q].buffer
        BY <1>1, <1>2, <1>5 DEF h
    <2>2. QED
        BY <2>1 DEF Buffers
<1>10. Finished' = Finished \cup {r}
    <2>1. hub'[r].done = TRUE /\ \A q \in Runs \ {r} : hub'[q].done = hub[q].done
        BY <1>1, <1>2, <1>5
    <2>2. QED
        BY <2>1 DEF Finished
<1>11. QED
    BY <1>8, <1>9, <1>10 DEF Stream!Seal

LEMMA ScheduleStreams ==
    ASSUME Safe, NEW r \in Runs, NEW events, Schedule(r, events), client' = client
    PROVE  UNCHANGED Stream!tailVars
<1> DEFINE h == hub[r]
           inbox == h.inbox \o events
           row == [h EXCEPT !.inbox = inbox]
<1>1. h \in HubRow /\ hub \in [Runs -> HubRow] /\ hub' = [hub EXCEPT ![r] = row]
    BY Shapes DEF Safe, Types, Schedule
<1> HIDE DEF h, inbox
<1>2. row.buffer = h.buffer /\ row.done = h.done
    BY <1>1 DEF HubRow
<1> HIDE DEF row
<1>3. LogsKept
    BY <1>1, <1>2 DEF LogsKept, h
<1>4. QED
    BY <1>3, SameView, Unseen

LEMMA QuietStreams ==
    ASSUME Safe, hub' = hub, client' = client
    PROVE  UNCHANGED Stream!tailVars
<1>1. LogsKept
    BY DEF LogsKept
<1>2. QED
    BY <1>1, SameView, Unseen

LEMMA WorkStreams ==
    ASSUME Safe, NEW r \in Runs, Work(r) \/ StageRaises(r) \/ FinishFails(r)
    PROVE  UNCHANGED Stream!tailVars
<1>1. CASE Load(r) \/ Finish(r) \/ FinishFails(r)
    BY <1>1, QuietStreams DEF Load, Finish, FinishFails
<1>2. CASE RunStage(r)
    BY <1>2, ScheduleStreams DEF RunStage
<1>3. CASE Pause(r) \/ StageRaises(r) \/ Close(r)
    BY <1>3, ScheduleStreams DEF Pause, StageRaises, Close
<1>4. QED
    BY <1>1, <1>2, <1>3 DEF Work

LEMMA StartStreams ==
    ASSUME Safe, NEW c \in Clients, Start(c)
    PROVE UNCHANGED Stream!tailVars
<1>1. PICK r \in Runs \ Started : StartRun(r, c) /\ Accept(c, r)
    BY DEF Start
<1>2. LogsKept
    BY <1>1, StartRows DEF LogsKept
<1> DEFINE old == client[c]
           row == [old EXCEPT !.at = "accepted", !.run = r]
<1>3. old \in ClientRow /\ old.at = "connecting" /\ client \in [Clients -> ClientRow]
    BY Shapes DEF Safe, Types, Start
<1>4. client' = [client EXCEPT ![c] = row]
    BY <1>1 DEF Accept, SetClient
<1> HIDE DEF old
<1>5. row.at = "accepted" /\ row.seen = old.seen /\ row.over = old.over
    BY <1>3 DEF ClientRow
<1> HIDE DEF row
<1>6. client'[c] = row /\ \A d \in Clients \ {c} : client'[d] = client[d]
    BY <1>3, <1>4
<1>7. Views'[c] = Views[c]
    BY <1>3, <1>5, <1>6, AwayStays DEF old
<1>8. QED
    BY <1>2, <1>6, <1>7, SameView, Unseen

LEMMA DieStreams ==
    ASSUME Safe, Die
    PROVE Stream!Leave
<1>1. LogsKept
    BY DieRows DEF Safe, LogsKept
<1>2. QED
    BY <1>1, DieRows, Parting DEF Safe

LEMMA InitStreams ==
    ASSUME Init
    PROVE Stream!Init
<1>1. Buffers = [r \in Runs |-> <<>>] /\ Finished = {}
    BY Blanks DEF Init, Buffers, Finished
<1>2. ASSUME NEW c \in Clients
      PROVE  Views[c] = Stream!Away(0)
    BY Blanks, Viewed, AwayView DEF Init, Stream!Away
<1>3. Views = [c \in Clients |-> Stream!Away(0)]
    BY <1>2, Viewed
<1>4. QED
    BY <1>1, <1>3 DEF Stream!Init

LEMMA NextStreams ==
    ASSUME Safe, [Next]_vars
    PROVE [Stream!Next]_(Stream!tailVars)
<1>1. CASE UNCHANGED vars
    BY <1>1, QuietStreams DEF vars
<1>2. ASSUME NEW c \in Clients, Open(c) \/ Leave(c) \/ Drop(c) \/ Serve(c) \/ ChargeInVain(c)
      PROVE  [Stream!Next]_(Stream!tailVars)
    <2>1. CASE Open(c) \/ Attach(c) \/ Resync(c) \/ Start(c)
        BY <2>1, OpenStreams, AttachStreams, StartStreams
    <2>2. CASE Leave(c) \/ Refuse(c) \/ Drop(c) \/ Reopen(c) \/ OpenAgain(c)
        BY <2>2, LeaveStreams DEF Stream!Next
    <2>3. CASE Subscribe(c)
        <3>1. client[c].run \in Runs
            BY <2>3 DEF Subscribe, Safe, Tails, Follows
        <3>2. QED
            BY <2>3, <3>1, SubscribeStreams DEF Stream!Next
    <2>4. CASE Receive(c)
        BY <2>4, ReceiveStreams DEF Stream!Next
    <2>5. CASE ReceiveEnd(c)
        BY <2>5, ReceiveEndStreams DEF Stream!Next
    <2>6. CASE ChargeInVain(c)
        <3>1. CASE Die
            BY <3>1, DieStreams DEF Stream!Next
        <3>2. CASE SetClient(c, Closed) /\ UNCHANGED hub
            BY <3>2, PartingTab DEF Stream!Next
        <3>3. QED
            BY <2>6, <3>1, <3>2 DEF ChargeInVain
    <2>7. QED
        BY <1>2, <2>1, <2>2, <2>3, <2>4, <2>5, <2>6 DEF Serve
<1>3. ASSUME NEW r \in Runs, Loop(r) \/ Work(r) \/ StageRaises(r) \/ FinishFails(r)
      PROVE  [Stream!Next]_(Stream!tailVars)
    BY <1>3, PublishStreams, CloseHubStreams, WorkStreams DEF Loop, Stream!Next
<1>4. ASSUME NEW g \in Gates, Approve(g) \/ Reject(g) \/ Regenerate(g) \/ Regenerated(g)
      PROVE  [Stream!Next]_(Stream!tailVars)
    BY <1>4, QuietStreams DEF Approve, Reject, Regenerate, Regenerated
<1>5. CASE Restart
    BY <1>5, DieStreams DEF Restart, Stream!Next
<1>6. QED
    BY <1>1, <1>2, <1>3, <1>4, <1>5 DEF Next

(* What a tab is given of a run is the hub's log, without gap or repetition, *)
(* and all of it when the stream says it is over (hub.py, RunHub).           *)
THEOREM StreamsTailTheLog == Spec => TailsTheLog
<1>1. Init => Stream!Init
    BY InitStreams
<1>2. Safe /\ [Next]_vars => [Stream!Next]_(Stream!tailVars)
    BY NextStreams
<1>3. QED
    BY <1>1, <1>2, AlwaysSafe, PTL DEF Spec, TailsTheLog, Stream!Spec

=============================================================================
