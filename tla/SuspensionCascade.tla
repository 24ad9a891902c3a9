------------------------- MODULE SuspensionCascade -------------------------
(***************************************************************************)
(* One organization, its workspaces and the cascade between them: the two  *)
(* lifecycles (organizations/service.ts, workspaces/service.ts), and the   *)
(* consumers of OrganizationSuspended and OrganizationReactivated, which   *)
(* suspend and restore the workspaces one transaction at a time            *)
(* (cascade/suspension.ts, workers/host/src/cascade/handlers.ts).          *)
(*                                                                         *)
(* A transition reads a row and updates it where the version is still the  *)
(* one it read, so it is one step here; losing that race is one of the     *)
(* faults of a cascade.  The latest audit record is the one the last       *)
(* commit wrote: the code orders records by created_at, the clock of the   *)
(* process that writes, so the clocks are taken to agree with the commits. *)
(***************************************************************************)
EXTENDS Naturals, FiniteSets, Sequences

CONSTANTS
    Workspaces,     \* named by the ids the cascade goes through in order
    Provisioned,    \* those there are at the beginning
    MaxWorkspaces,  \* planLimits.maxWorkspaces
    Workers,        \* processes that serve organization-lifecycle-cascade
    MaxCommands,    \* bound: what people ask of the organization and its workspaces
    MaxFaults       \* bound: transactions that fail, processes that die

ASSUME WorkspacesAssumption ==
    /\ Workspaces \subseteq Nat \ {0} /\ IsFiniteSet(Workspaces)
    /\ Provisioned \subseteq Workspaces
ASSUME BoundsAssumption ==
    MaxWorkspaces \in Nat /\ MaxCommands \in Nat /\ MaxFaults \in Nat

VARIABLES
    org,        \* the organization's status
    orgWas,     \* the status its latest audit record of each action left behind
    ws,         \* each workspace's status
    wsWas,      \* as orgWas, for each workspace
    marked,     \* workspaces whose latest suspension is the cascade's
    births,     \* the provision between its checks and its commit, if any
    feed,       \* the lifecycle events, and how far the group is with each
    worker,     \* the cascade each process is in
    owing, banned, touched, raced, overtaken,   \* history: see the properties
    commands, faults

history == <<owing, banned, touched, raced, overtaken>>
vars == <<org, orgWas, ws, wsWas, marked, births, feed, worker, history, commands, faults>>

-----------------------------------------------------------------------------
(* The two state machines.  A target of several statuses restores the one  *)
(* recorded by the action it undoes, if it is among them.                  *)

Rule(from, to) == [from |-> from, to |-> to]

TRANSITION_RULES ==
    [payment_failed |-> Rule({"active"}, {"past_due"}),
     payment_recovered |-> Rule({"past_due"}, {"active"}),
     suspend |-> Rule({"active", "past_due"}, {"suspended"}),
     reactivate |-> Rule({"suspended"}, {"active", "past_due"}),
     request_closure |-> Rule({"active", "past_due", "suspended"}, {"pending_closure"}),
     cancel_closure |-> Rule({"pending_closure"}, {"active", "past_due", "suspended"}),
     close |-> Rule({"pending_closure"}, {"closed"})]

WORKSPACE_TRANSITION_RULES ==
    [suspend |-> Rule({"active"}, {"suspended"}),
     reactivate |-> Rule({"suspended"}, {"active"}),
     archive |-> Rule({"active", "suspended"}, {"archived"}),
     restore |-> Rule({"archived"}, {"active", "suspended"}),
     request_deletion |-> Rule({"active", "archived"}, {"pending_deletion"}),
     cancel_deletion |-> Rule({"pending_deletion"}, {"active", "archived"})]

(* The action whose record a restoring transition reads. *)
Undoes == [reactivate |-> "suspend", cancel_closure |-> "request_closure",
           restore |-> "archive", cancel_deletion |-> "request_deletion"]

Target(rule, transition, was) ==
    IF Cardinality(rule.to) = 1 THEN CHOOSE s \in rule.to : TRUE
    ELSE IF was[Undoes[transition]] \in rule.to THEN was[Undoes[transition]]
    ELSE "active"

Recorded(was, transition, from) ==
    [a \in DOMAIN was |-> IF a = transition THEN from ELSE was[a]]

Actions == {"suspend", "archive", "request_deletion", "request_closure"}
NothingRecorded == [a \in Actions |-> "none"]

IdleWorker == [event |-> 0, todo |-> {}, eligible |-> FALSE, failed |-> FALSE]

Init ==
    /\ org = "active"
    /\ orgWas = NothingRecorded
    /\ ws = [w \in Workspaces |-> IF w \in Provisioned THEN "active" ELSE "none"]
    /\ wsWas = [w \in Workspaces |-> NothingRecorded]
    /\ marked = {}
    /\ births = {}
    /\ feed = <<>>
    /\ worker = [x \in Workers |-> IdleWorker]
    /\ owing = FALSE /\ banned = {} /\ touched = {} /\ raced = {} /\ overtaken = FALSE
    /\ commands = 0 /\ faults = 0

Command == commands < MaxCommands /\ commands' = commands + 1
Fault == faults < MaxFaults /\ faults' = faults + 1

-----------------------------------------------------------------------------
(* The organization.                                                       *)

(* Mutant of Published: every transition is announced to the group. *)
PublishedAlways(transition) == <<[kind |-> transition, state |-> "new"]>>

(* The two events the cascade's group consumes. *)
Published(transition) ==
    IF transition \in {"suspend", "reactivate"} THEN <<[kind |-> transition, state |-> "new"]>>
    ELSE <<>>

OrganizationTransition(transition) ==
    LET rule == TRANSITION_RULES[transition] IN
    /\ Command
    /\ org \in rule.from
    /\ org' = Target(rule, transition, orgWas)
    /\ orgWas' = Recorded(orgWas, transition, org)
    /\ feed' = feed \o Published(transition)
    /\ owing' = (transition = "payment_failed" \/ (owing /\ transition # "payment_recovered"))
    /\ touched' = IF Published(transition) = <<>> THEN touched ELSE {}
    /\ UNCHANGED <<ws, wsWas, marked, births, worker, banned, raced, overtaken, faults>>

-----------------------------------------------------------------------------
(* The workspaces.                                                         *)

(* The row is updated and audited; mark is organizationCascade. *)
WorkspaceTransition(w, transition, mark) ==
    LET rule == WORKSPACE_TRANSITION_RULES[transition] IN
    /\ ws[w] \in rule.from
    /\ ws' = [ws EXCEPT ![w] = Target(rule, transition, wsWas[w])]
    /\ wsWas' = [wsWas EXCEPT ![w] = Recorded(wsWas[w], transition, ws[w])]
    /\ marked' = IF transition # "suspend" THEN marked
                 ELSE IF mark THEN marked \cup {w} ELSE marked \ {w}

(* Cascades that have read w's mark and are about to act on it. *)
About(w) == {x \in Workers : worker[x].eligible /\ \A v \in worker[x].todo : w <= v}

(* Somebody moves a workspace by hand. *)
MoveWorkspace(w, transition) ==
    /\ Command
    /\ WorkspaceTransition(w, transition, FALSE)
    /\ banned' = CASE transition = "suspend" -> banned \cup {w}
                   [] transition = "reactivate" -> banned \ {w}
                   [] OTHER -> banned
    /\ touched' = touched \cup {w}
    /\ raced' = IF About(w) # {} THEN raced \cup {w} ELSE raced
    /\ UNCHANGED <<org, orgWas, births, feed, worker, owing, overtaken, faults>>

Counted == {w \in Workspaces : ws[w] \in {"active", "suspended"}}

(***************************************************************************)
(* provision: under the organization's quota lock the status and the count *)
(* are read, without a lock on the organization's row,                     *)
(***************************************************************************)
CheckQuota(w) ==
    /\ Command
    /\ ws[w] = "none" /\ births = {}
    /\ org = "active"
    /\ Cardinality(Counted) < MaxWorkspaces
    /\ births' = {w}
    /\ UNCHANGED <<org, orgWas, ws, wsWas, marked, feed, worker, history, faults>>

(* and the workspace is inserted active. *)
InsertWorkspace(w) ==
    /\ w \in births
    /\ ws' = [ws EXCEPT ![w] = "active"]
    /\ births' = {}
    /\ touched' = touched \cup {w}
    /\ UNCHANGED <<org, orgWas, wsWas, marked, feed, worker, owing, banned, raced, overtaken,
                   commands, faults>>

(* The slug is taken, or the caller is gone. *)
ProvisionFails ==
    /\ births # {}
    /\ Fault
    /\ births' = {}
    /\ UNCHANGED <<org, orgWas, ws, wsWas, marked, feed, worker, history, commands>>

-----------------------------------------------------------------------------
(* The cascade.                                                            *)

Kind(x) == feed[worker[x].event].kind

Set(x, fields) == worker' = [worker EXCEPT ![x] = fields]

Mark(i, state) == feed' = [feed EXCEPT ![i] = [@ EXCEPT !.state = state]]

(* The workspaces whose status allows the transition. *)
Candidates(transition) == {w \in Workspaces : ws[w] \in WORKSPACE_TRANSITION_RULES[transition].from}

(***************************************************************************)
(* A process is given an event: the barrier holds back only what its own   *)
(* process is not done with.  It lists the workspaces and keeps the        *)
(* candidates.                                                             *)
(***************************************************************************)
TakeUp(x, i) ==
    /\ worker[x] = IdleWorker
    /\ \A j \in 1..i - 1 : feed[j].state # "new"
    /\ Mark(i, "taken")
    /\ Set(x, [event |-> i, todo |-> Candidates(feed[i].kind), eligible |-> FALSE, failed |-> FALSE])
    /\ overtaken' = (overtaken \/ \E j \in 1..i - 1 : feed[j].state # "done")
    /\ UNCHANGED <<org, orgWas, ws, wsWas, marked, births, owing, banned, touched, raced, commands, faults>>

(* The group's next event, *)
Take(x, i) == feed[i].state = "new" /\ TakeUp(x, i)

(* or one that failed, if its delivery is ever claimed from the pending list. *)
TakeAgain(x, i) == feed[i].state = "retry" /\ TakeUp(x, i)

(* w is the workspace the cascade has come to. *)
IsNext(x, w) == w \in worker[x].todo /\ \A v \in worker[x].todo : w <= v

Past(x, w) == Set(x, [worker[x] EXCEPT !.todo = @ \ {w}, !.eligible = FALSE])

(* Mutant of ReadMark: any suspension is lifted. *)
ReadNoMark(x, w) ==
    /\ IsNext(x, w) /\ Kind(x) = "reactivate" /\ ~worker[x].eligible
    /\ Set(x, [worker[x] EXCEPT !.eligible = TRUE])
    /\ UNCHANGED <<org, orgWas, ws, wsWas, marked, births, feed, history, commands, faults>>

(* Mutant of ReadMark: a workspace that is not to be lifted is not passed. *)
ReadAgain(x, w) ==
    /\ IsNext(x, w) /\ Kind(x) = "reactivate" /\ ~worker[x].eligible
    /\ worker' = [worker EXCEPT ![x].eligible = w \in marked]
    /\ UNCHANGED <<org, orgWas, ws, wsWas, marked, births, feed, history, commands, faults>>

(* Only the cascade's own suspension is lifted: its mark is read first. *)
ReadMark(x, w) ==
    /\ IsNext(x, w) /\ Kind(x) = "reactivate" /\ ~worker[x].eligible
    /\ IF w \in marked THEN Set(x, [worker[x] EXCEPT !.eligible = TRUE]) ELSE Past(x, w)
    /\ UNCHANGED <<org, orgWas, ws, wsWas, marked, births, feed, history, commands, faults>>

(***************************************************************************)
(* The transition, by the same transaction.  A workspace whose status no   *)
(* longer allows it is skipped.                                            *)
(***************************************************************************)
Apply(x, w) ==
    /\ IsNext(x, w) /\ (Kind(x) = "reactivate" => worker[x].eligible)
    /\ \/ WorkspaceTransition(w, Kind(x), TRUE)
       \/ /\ ws[w] \notin WORKSPACE_TRANSITION_RULES[Kind(x)].from
          /\ UNCHANGED <<ws, wsWas, marked>>
    /\ Past(x, w)
    /\ UNCHANGED <<org, orgWas, births, feed, history, commands, faults>>

(* The transaction fails: this workspace is left, the others still visited. *)
ApplyFails(x, w) ==
    /\ IsNext(x, w)
    /\ Fault
    /\ Set(x, [worker[x] EXCEPT !.todo = @ \ {w}, !.eligible = FALSE, !.failed = TRUE])
    /\ UNCHANGED <<org, orgWas, ws, wsWas, marked, births, feed, history, commands>>

(* Mutant of Finish: an incomplete cascade is recorded as handled. *)
FinishAnyway(x) ==
    /\ worker[x].event # 0 /\ worker[x].todo = {}
    /\ Mark(worker[x].event, "done")
    /\ Set(x, IdleWorker)
    /\ UNCHANGED <<org, orgWas, ws, wsWas, marked, births, history, commands, faults>>

(***************************************************************************)
(* A complete cascade commits the marker.  An incomplete one throws: its   *)
(* event stays pending or, its attempts or the retry budget used up, is    *)
(* quarantined and given to nobody again.                                  *)
(***************************************************************************)
Finish(x) ==
    /\ worker[x].event # 0 /\ worker[x].todo = {}
    /\ \E s \in IF worker[x].failed THEN {"retry", "dead"} ELSE {"done"} : Mark(worker[x].event, s)
    /\ Set(x, IdleWorker)
    /\ UNCHANGED <<org, orgWas, ws, wsWas, marked, births, history, commands, faults>>

(* The process dies; what it had committed stays, and the event stays pending. *)
Crash(x) ==
    /\ worker[x].event # 0
    /\ Fault
    /\ Mark(worker[x].event, "retry")
    /\ Set(x, IdleWorker)
    /\ UNCHANGED <<org, orgWas, ws, wsWas, marked, births, history, commands>>

-----------------------------------------------------------------------------

Cascade(x) ==
    \/ \E i \in 1..Len(feed) : Take(x, i)
    \/ \E w \in Workspaces : ReadMark(x, w) \/ Apply(x, w)
    \/ Finish(x)

Next ==
    \/ \E t \in DOMAIN TRANSITION_RULES : OrganizationTransition(t)
    \/ \E w \in Workspaces :
          \/ \E t \in DOMAIN WORKSPACE_TRANSITION_RULES : MoveWorkspace(w, t)
          \/ CheckQuota(w) \/ InsertWorkspace(w)
    \/ ProvisionFails
    \/ \E x \in Workers :
          \/ Cascade(x) \/ Crash(x)
          \/ \E i \in 1..Len(feed) : TakeAgain(x, i)
          \/ \E w \in Workspaces : ApplyFails(x, w)

(***************************************************************************)
(* A process reads the group's new events and goes on with what it took.   *)
(* Nobody has to command, and nothing need give it a failed event again:   *)
(* no composition root calls claimStalled.                                 *)
(***************************************************************************)
Spec == Init /\ [][Next]_vars /\ \A x \in Workers : WF_vars(Cascade(x))

-----------------------------------------------------------------------------

OrganizationStatuses == {"active", "past_due", "suspended", "pending_closure", "closed"}
WorkspaceStatuses == {"none", "active", "suspended", "archived", "pending_deletion"}

TypeOK ==
    /\ org \in OrganizationStatuses
    /\ orgWas \in [Actions -> OrganizationStatuses \cup {"none"}]
    /\ ws \in [Workspaces -> WorkspaceStatuses]
    /\ wsWas \in [Workspaces -> [Actions -> WorkspaceStatuses]]
    /\ marked \subseteq Workspaces
    /\ births \subseteq Workspaces /\ Cardinality(births) <= 1
    /\ feed \in Seq([kind : {"suspend", "reactivate"}, state : {"new", "taken", "retry", "done", "dead"}])
    /\ worker \in [Workers -> [event : 0..Len(feed), todo : SUBSET Workspaces,
                               eligible : BOOLEAN, failed : BOOLEAN]]
    /\ owing \in BOOLEAN /\ overtaken \in BOOLEAN
    /\ banned \subseteq Workspaces /\ touched \subseteq Workspaces /\ raced \subseteq Workspaces
    /\ commands \in 0..MaxCommands /\ faults \in 0..MaxFaults

(***************************************************************************)
(* "Un-archiving is not a pardon", and neither is the organization's       *)
(* reactivation: a workspace suspended by hand is not active again before  *)
(* it is reactivated by hand, whatever is archived, deleted, restored or   *)
(* cascaded in between, and an organization that owes is not active before *)
(* its payment is recovered.  A move by hand between the cascade's reading *)
(* of the mark and its transition is the one exception (raced).            *)
(***************************************************************************)
NothingIsPardoned ==
    /\ owing => org # "active"
    /\ \A w \in banned \ raced : ws[w] # "active"

Settled == \A i \in 1..Len(feed) : feed[i].state = "done"

(***************************************************************************)
(* Once the cascades have come to their end, whatever failed or was run    *)
(* again, no workspace of a suspended organization works and no workspace  *)
(* of a working one is still suspended by the cascade, those apart that    *)
(* were moved or provisioned since; provided no event overtook another.    *)
(***************************************************************************)
CascadeSettles ==
    Settled /\ ~overtaken =>
        \A w \in Workspaces \ touched :
            /\ org = "suspended" => ws[w] # "active"
            /\ org \in {"active", "past_due"} => ~(ws[w] = "suspended" /\ w \in marked)

(***************************************************************************)
(* Every announced cascade is run to the end of its list: whatever people, *)
(* another process and an earlier event's cascade do to the workspaces     *)
(* meanwhile, none is stuck on one.  How it ends is CascadeSettles' affair *)
(* if it is complete; one that failed stays pending until it is claimed,   *)
(* or is a dead letter.                                                    *)
(***************************************************************************)
EveryCascadeEnds == <>[](\A i \in 1..Len(feed) : feed[i].state \notin {"new", "taken"})
=============================================================================
