------------------------------ MODULE Replay ------------------------------
(***************************************************************************)
(* The replay coordinator (replay-coordinator.ts): an operator starts a    *)
(* run, executors drive it from its checkpoint, and operators pause,       *)
(* resume and abort it from outside.                                       *)
(*                                                                         *)
(* Every statement is a transaction of its own, so each is a step here,    *)
(* and nothing stops two executors from driving one run.                   *)
(***************************************************************************)
EXTENDS Naturals, FiniteSets

CONSTANTS
    Events,             \* named by the key a batch is ordered by
    Letters,            \* those that are dead letters; the others are outbox rows
    Late,               \* outbox rows whose producer has yet to commit
    Aged,               \* those so old that retention may take them meanwhile
    Refused,            \* no longer valid in the registry, or of an erased tenant
    Runs,
    Scope,              \* the events each run's request selects
    GroupOf,            \* the group each run replays to
    Executors, Operators,
    BatchSize,
    CheckpointInterval,
    MaxConcurrentRuns,
    MaxCommands,        \* bound: what operators ask for
    MaxFaults           \* bound: deliveries that throw, executors that die

ASSUME EventsAssumption ==
    /\ Events \subseteq Nat \ {0} /\ IsFiniteSet(Events)
    /\ Letters \subseteq Events /\ Late \subseteq Events \ Letters
    /\ Aged \subseteq Events \ Late
(* A request names dead letters or a range of outbox rows, never both. *)
ASSUME ScopeAssumption ==
    /\ Runs # {} /\ Scope \in [Runs -> SUBSET Events]
    /\ \A r \in Runs : Scope[r] \subseteq Letters \/ Scope[r] \cap Letters = {}
ASSUME BoundsAssumption ==
    /\ BatchSize \in Nat \ {0} /\ CheckpointInterval \in Nat \ {0}
    /\ MaxConcurrentRuns \in Nat /\ MaxCommands \in Nat /\ MaxFaults \in Nat

VARIABLES
    present,    \* the events a batch may find: there, and above the retention floor
    run,        \* replay_runs
    exec,       \* what each executor holds in memory
    op,         \* what each operator has read and is about to write
    promised,   \* for each run, the events present when it started
    reached,    \* for each run, the events it has counted
    handed,     \* for each run, the events it has handed to its group
    doubled,    \* runs that two executors have driven at once
    commands, faults

vars == <<present, run, exec, op, promised, reached, handed, doubled, commands, faults>>

-----------------------------------------------------------------------------

Statuses == {"none", "pending", "running", "paused", "completed", "aborted", "failed"}

(* The partial unique index ranges over these. *)
Holding == {"pending", "running", "paused"}

Keys == Events \cup {0}

(* count stands for delivered + skipped + suppressed_as_duplicate. *)
RunRow == [status : Statuses, checkpoint : Keys, count : 0..Cardinality(Events)]

(***************************************************************************)
(* An executor: its run, its place in execute, its cursor, count and       *)
(* distance from the last checkpoint, the batch it has left, and the       *)
(* status it will set once its progress is saved ("none": it just returns).*)
(***************************************************************************)
IdleExecutor == [run |-> CHOOSE r \in Runs : TRUE, at |-> "idle", cursor |-> 0, count |-> 0,
                 since |-> 0, batch |-> {}, then |-> "none"]

IdleOperator == [command |-> "none", runs |-> {}]

Init ==
    /\ present = Events \ Late
    /\ run = [r \in Runs |-> [status |-> "none", checkpoint |-> 0, count |-> 0]]
    /\ exec = [x \in Executors |-> IdleExecutor]
    /\ op = [o \in Operators |-> IdleOperator]
    /\ promised = [r \in Runs |-> {}]
    /\ reached = [r \in Runs |-> {}]
    /\ handed = [r \in Runs |-> {}]
    /\ doubled = {}
    /\ commands = 0
    /\ faults = 0

(* Runs of r's group that hold its token, r apart. *)
Rivals(r) == {q \in Runs \ {r} : GroupOf[q] = GroupOf[r] /\ run[q].status \in Holding}

(***************************************************************************)
(* The index refuses a second holder.  A status is otherwise written       *)
(* without looking at the one it replaces.                                 *)
(***************************************************************************)
Accepts(r, status) == status \notin Holding \/ Rivals(r) = {}

SetStatus(r, status) ==
    /\ Accepts(r, status)
    /\ run' = [run EXCEPT ![r] = [@ EXCEPT !.status = status]]

Fault == faults < MaxFaults /\ faults' = faults + 1

-----------------------------------------------------------------------------
(* What the operators do: read, then write in a transaction of its own.    *)

Ask(o, command, runs) ==
    /\ op[o] = IdleOperator
    /\ commands < MaxCommands
    /\ commands' = commands + 1
    /\ op' = [op EXCEPT ![o] = [command |-> command, runs |-> runs]]
    /\ UNCHANGED <<present, run, exec, promised, reached, handed, doubled, faults>>

Active == {r \in Runs : run[r].status \in Holding}

(* start counts the active runs, *)
CountActive(o) ==
    \E rs \in SUBSET {r \in Runs : run[r].status = "none"} :
        /\ rs # {}
        /\ \A q, r \in rs : q # r => GroupOf[q] # GroupOf[r] /\ Scope[q] = Scope[r]
        /\ Cardinality(Active) + Cardinality(rs) <= MaxConcurrentRuns
        /\ Ask(o, "start", rs)

(* pause and abort read a run whatever its status, resume a paused one. *)
LoadForCommand(o) ==
    \E r \in Runs, command \in {"pause", "resume", "abort"} :
        /\ run[r].status # "none"
        /\ command = "resume" => run[r].status = "paused"
        /\ Ask(o, command, {r})

OperatorReturns(o) == op' = [op EXCEPT ![o] = IdleOperator]

(* and inserts one run for each group named, or none of them. *)
InsertRuns(o) ==
    LET rs == op[o].runs IN
    /\ op[o].command = "start"
    /\ IF \A r \in rs : run[r].status = "none" /\ Rivals(r) = {}
       THEN /\ run' = [r \in Runs |-> IF r \in rs THEN [run[r] EXCEPT !.status = "pending"]
                                                  ELSE run[r]]
            /\ promised' = [r \in Runs |-> IF r \in rs THEN Scope[r] \cap present
                                                       ELSE promised[r]]
       ELSE UNCHANGED <<run, promised>>
    /\ OperatorReturns(o)
    /\ UNCHANGED <<present, exec, reached, handed, doubled, commands, faults>>

Written == [pause |-> "paused", resume |-> "running", abort |-> "aborted"]

WriteCommand(o) ==
    /\ op[o].command \in DOMAIN Written
    /\ \A r \in op[o].runs :
          IF Accepts(r, Written[op[o].command])
          THEN SetStatus(r, Written[op[o].command])
          ELSE UNCHANGED run
    /\ OperatorReturns(o)
    /\ UNCHANGED <<present, exec, promised, reached, handed, doubled, commands, faults>>

-----------------------------------------------------------------------------
(* execute.                                                                *)

Set(x, fields) == exec' = [exec EXCEPT ![x] = fields]
Return(x) == Set(x, IdleExecutor)

(* Mutant of Execute: the checkpoint is taken up, the counts begin anew. *)
ExecuteUncounted(x, r) ==
    /\ exec[x].at = "idle"
    /\ run[r].status \in {"pending", "running", "paused", "failed"}
    /\ Set(x, [run |-> r, at |-> "begin", cursor |-> run[r].checkpoint,
               count |-> 0, since |-> 0, batch |-> {}, then |-> "none"])
    /\ doubled' = doubled \cup {q \in {r} : \E y \in Executors :
                                               exec[y].at # "idle" /\ exec[y].run = q}
    /\ UNCHANGED <<present, run, op, promised, reached, handed, commands, faults>>

(* Somebody executes r: everything it starts from is read here. *)
Execute(x, r) ==
    /\ exec[x].at = "idle"
    /\ run[r].status \in {"pending", "running", "paused", "failed"}
    /\ Set(x, [run |-> r, at |-> "begin", cursor |-> run[r].checkpoint,
               count |-> run[r].count, since |-> 0, batch |-> {}, then |-> "none"])
    /\ doubled' = doubled \cup {q \in {r} : \E y \in Executors :
                                               exec[y].at # "idle" /\ exec[y].run = q}
    /\ UNCHANGED <<present, run, op, promised, reached, handed, commands, faults>>

(* The run is set running, whatever became of it; a refusal is thrown. *)
Begin(x) ==
    LET r == exec[x].run IN
    /\ exec[x].at = "begin"
    /\ \/ SetStatus(r, "running") /\ Set(x, [exec[x] EXCEPT !.at = "check"])
       \/ ~Accepts(r, "running") /\ Return(x) /\ UNCHANGED run
    /\ UNCHANGED <<present, op, promised, reached, handed, doubled, commands, faults>>

(* x will save its progress and then set this status, or return. *)
Leave(x, status) == Set(x, [exec[x] EXCEPT !.at = "save", !.then = status, !.batch = {}])

(***************************************************************************)
(* Before every batch the run's status is read.  The caller's signal, or   *)
(* too much lag, pauses the run.                                           *)
(***************************************************************************)
Check(x) ==
    LET status == run[exec[x].run].status IN
    /\ exec[x].at = "check"
    /\ \/ status \in {"paused", "aborted"} /\ Leave(x, "none")
       \/ status \notin {"paused", "aborted"} /\ Set(x, [exec[x] EXCEPT !.at = "read"])
    /\ UNCHANGED <<present, run, op, promised, reached, handed, doubled, commands, faults>>

Interrupt(x) ==
    /\ exec[x].at \in {"check", "read"}
    /\ Fault
    /\ Leave(x, "paused")
    /\ UNCHANGED <<present, run, op, promised, reached, handed, doubled, commands>>

(***************************************************************************)
(* What the request still selects: of the dead letters, by name; of the    *)
(* outbox, what the query finds now, with the retention floor computed     *)
(* anew for every batch.                                                   *)
(***************************************************************************)
Remaining(x) ==
    {e \in Scope[exec[x].run] : e > exec[x].cursor /\ (e \in Letters \/ e \in present)}

(* The first BatchSize of S. *)
FirstOf(S) == {e \in S : Cardinality({f \in S : f < e}) < BatchSize}

(***************************************************************************)
(* A dead letter that is gone is passed over without a word, and a batch   *)
(* of which nothing is left ends the run like an empty one.                *)
(***************************************************************************)
ReadBatch(x) ==
    LET batch == FirstOf(Remaining(x)) \cap present IN
    /\ exec[x].at = "read"
    /\ \/ batch # {} /\ Set(x, [exec[x] EXCEPT !.at = "deliver", !.batch = batch])
       \/ batch = {} /\ Leave(x, "completed")
    /\ UNCHANGED <<present, run, op, promised, reached, handed, doubled, commands, faults>>

(* The event of the batch that x has reached. *)
EventOf(x) == CHOOSE e \in exec[x].batch : \A f \in exec[x].batch : e <= f

(* Where the loop goes from an event, whether or not it saved. *)
NextStop(rest, due) == IF due THEN "checkpoint" ELSE IF rest = {} THEN "check" ELSE "deliver"

(* Mutant of Count: the cursor moves over the whole batch. *)
CountBatch(x, due) ==
    LET e == EventOf(x)
        rest == exec[x].batch \ {e}
        last == CHOOSE f \in exec[x].batch : \A h \in exec[x].batch : h <= f
    IN
    /\ Set(x, [exec[x] EXCEPT !.cursor = last, !.count = @ + 1, !.since = @ + 1, !.batch = rest,
                              !.at = NextStop(rest, due)])
    /\ reached' = [reached EXCEPT ![exec[x].run] = @ \cup {e}]

(* The event is counted, and the cursor moves over it. *)
Count(x, due) ==
    LET e == EventOf(x)
        rest == exec[x].batch \ {e}
    IN
    /\ Set(x, [exec[x] EXCEPT !.cursor = e, !.count = @ + 1, !.since = @ + 1, !.batch = rest,
                              !.at = NextStop(rest, due)])
    /\ reached' = [reached EXCEPT ![exec[x].run] = @ \cup {e}]

(* Mutant of Deliver: the event just delivered is not counted yet. *)
DeliverOneMore(x) ==
    /\ exec[x].at = "deliver" /\ EventOf(x) \notin Refused
    /\ handed' = [handed EXCEPT ![exec[x].run] = @ \cup {EventOf(x)}]
    /\ Count(x, exec[x].since >= CheckpointInterval)
    /\ UNCHANGED <<present, run, op, promised, doubled, commands, faults>>

(* Delivered, suppressed as a duplicate, or failed and skipped: all count. *)
Deliver(x) ==
    /\ exec[x].at = "deliver" /\ EventOf(x) \notin Refused
    /\ handed' = [handed EXCEPT ![exec[x].run] = @ \cup {EventOf(x)}]
    /\ Count(x, exec[x].since + 1 >= CheckpointInterval)
    /\ UNCHANGED <<present, run, op, promised, doubled, commands, faults>>

(* A refused event is skipped, and no checkpoint is due after a skip. *)
Skip(x) ==
    /\ exec[x].at = "deliver" /\ EventOf(x) \in Refused
    /\ Count(x, FALSE)
    /\ UNCHANGED <<present, run, op, promised, handed, doubled, commands, faults>>

(* deliver throws, the event handed over or not: the run is to fail. *)
DeliveryThrows(x) ==
    /\ exec[x].at = "deliver" /\ EventOf(x) \notin Refused
    /\ Fault
    /\ handed' \in {handed, [handed EXCEPT ![exec[x].run] = @ \cup {EventOf(x)}]}
    /\ Leave(x, "failed")
    /\ UNCHANGED <<present, run, op, promised, reached, doubled, commands>>

(* Mutant of SaveProgress: the counts are added to those of the row. *)
AddProgress(x) ==
    run' = [run EXCEPT ![exec[x].run] = [@ EXCEPT !.checkpoint = exec[x].cursor,
                                                  !.count = @ + exec[x].count]]

(* Cursor and counts are written together, as they stand in memory. *)
SaveProgress(x) ==
    run' = [run EXCEPT ![exec[x].run] = [@ EXCEPT !.checkpoint = exec[x].cursor,
                                                  !.count = exec[x].count]]

(* The checkpoint that falls due inside a batch, *)
Checkpoint(x) ==
    /\ exec[x].at = "checkpoint"
    /\ SaveProgress(x)
    /\ Set(x, [exec[x] EXCEPT !.since = 0, !.at = NextStop(exec[x].batch, FALSE)])
    /\ UNCHANGED <<present, op, promised, reached, handed, doubled, commands, faults>>

(* and the one that ends an execution, before its status is set. *)
SaveLast(x) ==
    /\ exec[x].at = "save"
    /\ SaveProgress(x)
    /\ \/ exec[x].then = "none" /\ Return(x)
       \/ exec[x].then # "none" /\ Set(x, [exec[x] EXCEPT !.at = "set"])
    /\ UNCHANGED <<present, op, promised, reached, handed, doubled, commands, faults>>

(* Mutant of SetLast: a pause the index refuses is tried again. *)
SetLastAgain(x) ==
    LET r == exec[x].run IN
    /\ exec[x].at = "set"
    /\ \/ SetStatus(r, exec[x].then) /\ Return(x)
       \/ ~Accepts(r, exec[x].then) /\ Leave(x, exec[x].then) /\ UNCHANGED run
    /\ UNCHANGED <<present, op, promised, reached, handed, doubled, commands, faults>>

(* A pause the index refuses is an error of the loop: the run fails. *)
SetLast(x) ==
    LET r == exec[x].run IN
    /\ exec[x].at = "set"
    /\ \/ SetStatus(r, exec[x].then) /\ Return(x)
       \/ ~Accepts(r, exec[x].then) /\ Leave(x, "failed") /\ UNCHANGED run
    /\ UNCHANGED <<present, op, promised, reached, handed, doubled, commands, faults>>

(* The process dies, and what it held in memory with it. *)
Crash(x) ==
    /\ exec[x].at # "idle"
    /\ Fault
    /\ Return(x)
    /\ UNCHANGED <<present, run, op, promised, reached, handed, doubled, commands>>

-----------------------------------------------------------------------------
(* Around the coordinator.                                                 *)

(* A producer commits a row whose id was drawn earlier, *)
Appear(e) ==
    /\ e \in Late \ present
    /\ present' = present \cup {e}
    /\ UNCHANGED <<run, exec, op, promised, reached, handed, doubled, commands, faults>>

(***************************************************************************)
(* and retention takes an old event away: a dead letter is purged, an      *)
(* outbox row falls below the floor of the next batch.                     *)
(***************************************************************************)
Purge(e) ==
    /\ e \in Aged \cap present
    /\ present' = present \ {e}
    /\ UNCHANGED <<run, exec, op, promised, reached, handed, doubled, commands, faults>>

Operate(o) == CountActive(o) \/ LoadForCommand(o)
Answer(o) == InsertRuns(o) \/ WriteCommand(o)

Proceed(x) ==
    \/ Begin(x) \/ Check(x) \/ ReadBatch(x) \/ Deliver(x) \/ Skip(x)
    \/ Checkpoint(x) \/ SaveLast(x) \/ SetLast(x)

Next ==
    \/ \E o \in Operators : Operate(o) \/ Answer(o)
    \/ \E x \in Executors :
          \/ Proceed(x) \/ Interrupt(x) \/ DeliveryThrows(x) \/ Crash(x)
          \/ \E r \in Runs : Execute(x, r)
    \/ \E e \in Events : Appear(e) \/ Purge(e)

(* An execution goes on; nobody has to begin one. *)
Fairness == \A x \in Executors : WF_vars(Proceed(x))

Spec == Init /\ [][Next]_vars /\ Fairness

-----------------------------------------------------------------------------

Places == {"idle", "begin", "check", "read", "deliver", "checkpoint", "save", "set"}

TypeOK ==
    /\ present \subseteq Events
    /\ run \in [Runs -> RunRow]
    /\ exec \in [Executors -> [run : Runs, at : Places, cursor : Keys,
                               count : 0..Cardinality(Events), since : Nat,
                               batch : SUBSET Events, then : Statuses]]
    /\ op \in [Operators -> [command : {"none", "start"} \cup DOMAIN Written, runs : SUBSET Runs]]
    /\ promised \in [Runs -> SUBSET Events]
    /\ reached \in [Runs -> SUBSET Events]
    /\ handed \in [Runs -> SUBSET Events]
    /\ doubled \subseteq Runs
    /\ commands \in 0..MaxCommands /\ faults \in 0..MaxFaults

UpTo(S, k) == {e \in S : e <= k}

(***************************************************************************)
(* What a run promised, up to its checkpoint, it has delivered or skipped  *)
(* for a recorded reason, however often it was interrupted, failed, driven *)
(* twice at once or overtaken by a slower executor.  And a rebuild that    *)
(* looks complete is complete: of outbox rows it has reached every one     *)
(* there was at its start.  The exception, in both, is what retention has  *)
(* taken away by then: a letter purged, or a row that fell below the floor *)
(* while the run was under way, is passed over without a word.             *)
(***************************************************************************)
CheckpointIsCovered ==
    \A r \in Runs :
        LET owed == promised[r] \cap present IN
        /\ UpTo(owed, run[r].checkpoint) \subseteq reached[r]
        /\ run[r].status = "completed" => owed \ Letters \subseteq reached[r]

(***************************************************************************)
(* The counts of a row belong to its checkpoint: no event is counted twice *)
(* after an interruption, and none of those promised goes uncounted but    *)
(* for those retention has taken away.                                     *)
(***************************************************************************)
CountsMatchCheckpoint ==
    \A r \in Runs :
        /\ run[r].count <= Cardinality(UpTo(reached[r], run[r].checkpoint))
        /\ Cardinality(UpTo(promised[r] \cap present, run[r].checkpoint)) <= run[r].count

(***************************************************************************)
(* "At most checkpointInterval events are re-delivered after an            *)
(* interruption": of the events that were there all along, so many a run   *)
(* has handed over beyond its checkpoint, unless two executors drove it.   *)
(***************************************************************************)
RedeliveryIsBounded ==
    \A r \in Runs \ doubled :
        LET ahead == {e \in handed[r] : e > run[r].checkpoint} IN
        Cardinality(ahead \cap promised[r] \cap present) <= CheckpointInterval

(* Every execution returns, and with it whoever waits for it. *)
EveryExecutionReturns == \A x \in Executors : []<>(exec[x].at = "idle")
=============================================================================
