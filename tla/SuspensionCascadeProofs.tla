---------------------- MODULE SuspensionCascadeProofs ----------------------
(***************************************************************************)
(* Proofs about SuspensionCascade, for any workspaces, workers, quota and  *)
(* faults.                                                                 *)
(*                                                                         *)
(* The inductive invariant is Safe.  A debt or a suspension by hand is     *)
(* always recorded where the transition that ends a detour will look for   *)
(* it (DebtIsKept, BanIsKept).  As long as no event overtook another, the  *)
(* last one has at most one cascade, and what that has yet to undo is      *)
(* either still on its list or makes it come again (Pursued).              *)
(***************************************************************************)
EXTENDS SuspensionCascade, FiniteSetTheorems, TLAPS

EventRow == [kind : {"suspend", "reactivate"}, state : {"new", "taken", "retry", "done", "dead"}]
WorkerRow == [event : 0..Len(feed), todo : SUBSET Workspaces, eligible : BOOLEAN, failed : BOOLEAN]

(* Whoever owes will be past due again, wherever the organization is. *)
DebtIsKept ==
    owing =>
        /\ org # "active"
        /\ org = "suspended" => orgWas["suspend"] = "past_due"
        /\ org = "pending_closure" =>
              \/ orgWas["request_closure"] = "past_due"
              \/ orgWas["request_closure"] = "suspended" /\ orgWas["suspend"] = "past_due"

(* A workspace suspended by hand comes back suspended, and without a mark. *)
BanIsKept ==
    \A w \in banned \ raced :
        /\ w \notin marked
        /\ \/ ws[w] = "suspended"
           \/ ws[w] = "archived" /\ wsWas[w]["archive"] = "suspended"
           \/ /\ ws[w] = "pending_deletion"
              /\ wsWas[w]["request_deletion"] = "archived" /\ wsWas[w]["archive"] = "suspended"

Unborn == \A w \in births : ws[w] = "none"

(* The mark a cascade has read is still there, but for a move by hand. *)
MarkHolds ==
    \A x \in Workers, w \in Workspaces :
        worker[x].eligible /\ IsNext(x, w) /\ w \notin raced => w \in marked

(* A taken event has one worker, and an idle worker nothing. *)
OneTakes ==
    /\ \A x \in Workers :
          IF worker[x].event = 0 THEN worker[x] = IdleWorker ELSE feed[worker[x].event].state = "taken"
    /\ \A x, y \in Workers : x # y /\ worker[x].event # 0 => worker[x].event # worker[y].event

(* Unless one was overtaken, every event before one taken up is done. *)
InOrder ==
    ~overtaken =>
        \A i, j \in 1..Len(feed) : j < i /\ feed[i].state # "new" => feed[j].state = "done"

(* The status whose cascade was last announced. *)
Standing == IF org = "pending_closure" THEN orgWas["request_closure"] ELSE org

LastKind ==
    /\ org # "closed" => Standing \in {"active", "past_due", "suspended"}
    /\ org # "closed" /\ Standing = "suspended" => Len(feed) > 0 /\ feed[Len(feed)].kind = "suspend"
    /\ org # "closed" /\ Standing # "suspended" /\ Len(feed) > 0 => feed[Len(feed)].kind = "reactivate"
    /\ Len(feed) = 0 => marked = {} /\ org # "suspended"

(* What the last event's cascade is there to change. *)
Undone(w) ==
    IF feed[Len(feed)].kind = "suspend" THEN ws[w] = "active" ELSE ws[w] = "suspended" /\ w \in marked

Pursued ==
    ~overtaken /\ Len(feed) > 0 /\ feed[Len(feed)].state \notin {"new", "retry", "dead"} =>
        \A w \in Workspaces \ touched :
            Undone(w) => \E x \in Workers :
                            worker[x].event = Len(feed) /\ (worker[x].failed \/ w \in worker[x].todo)

Safe ==
    /\ TypeOK /\ DebtIsKept /\ BanIsKept /\ Unborn /\ MarkHolds /\ OneTakes
    /\ InOrder /\ LastKind /\ Pursued

-----------------------------------------------------------------------------
(* The two state machines.                                                 *)

LEMMA SingleTarget ==
    ASSUME NEW rule, NEW s, rule.to = {s}
    PROVE  \A transition, was : Target(rule, transition, was) = s
<1>1. Cardinality(rule.to) = 1
    BY FS_Singleton
<1>2. QED
    BY <1>1 DEF Target

LEMMA RestoredTarget ==
    ASSUME NEW f, NEW T, IsFiniteSet(T), NEW a \in T, NEW b \in T, a # b, NEW transition, NEW was
    PROVE  Target(Rule(f, T), transition, was) =
           (IF was[Undoes[transition]] \in T THEN was[Undoes[transition]] ELSE "active")
<1>1. Cardinality(T) # 1
    BY FS_Singleton
<1>2. Rule(f, T).to = T
    BY DEF Rule
<1>3. QED
    BY <1>1, <1>2 DEF Target

LEMMA Finite2and3 ==
    ASSUME NEW a, NEW b, NEW c PROVE IsFiniteSet({a, b}) /\ IsFiniteSet({a, b, c})
<1>1. IsFiniteSet({a}) /\ {a, b} = {a} \cup {b} /\ {a, b, c} = {a, b} \cup {c}
    BY FS_Singleton
<1>2. IsFiniteSet({a, b})
    BY <1>1, FS_AddElement
<1>3. QED
    BY <1>1, <1>2, FS_AddElement

OrganizationTransitions ==
    {"payment_failed", "payment_recovered", "suspend", "reactivate", "request_closure",
     "cancel_closure", "close"}
WorkspaceTransitions ==
    {"suspend", "reactivate", "archive", "restore", "request_deletion", "cancel_deletion"}

(* Where each transition of the organization starts and ends. *)
LEMMA OrganizationRules ==
    /\ DOMAIN TRANSITION_RULES = OrganizationTransitions
    /\ TRANSITION_RULES["payment_failed"].from = {"active"}
    /\ TRANSITION_RULES["payment_recovered"].from = {"past_due"}
    /\ TRANSITION_RULES["suspend"].from = {"active", "past_due"}
    /\ TRANSITION_RULES["reactivate"].from = {"suspended"}
    /\ TRANSITION_RULES["request_closure"].from = {"active", "past_due", "suspended"}
    /\ TRANSITION_RULES["cancel_closure"].from = {"pending_closure"}
    /\ TRANSITION_RULES["close"].from = {"pending_closure"}
    /\ \A was : /\ Target(TRANSITION_RULES["payment_failed"], "payment_failed", was) = "past_due"
                /\ Target(TRANSITION_RULES["payment_recovered"], "payment_recovered", was) = "active"
                /\ Target(TRANSITION_RULES["suspend"], "suspend", was) = "suspended"
                /\ Target(TRANSITION_RULES["request_closure"], "request_closure", was) = "pending_closure"
                /\ Target(TRANSITION_RULES["close"], "close", was) = "closed"
    /\ \A was : Target(TRANSITION_RULES["reactivate"], "reactivate", was) =
          (IF was["suspend"] \in {"active", "past_due"} THEN was["suspend"] ELSE "active")
    /\ \A was : Target(TRANSITION_RULES["cancel_closure"], "cancel_closure", was) =
          (IF was["request_closure"] \in {"active", "past_due", "suspended"}
           THEN was["request_closure"] ELSE "active")
<1>1. /\ DOMAIN TRANSITION_RULES = OrganizationTransitions
      /\ TRANSITION_RULES["payment_failed"] = Rule({"active"}, {"past_due"})
      /\ TRANSITION_RULES["payment_recovered"] = Rule({"past_due"}, {"active"})
      /\ TRANSITION_RULES["suspend"] = Rule({"active", "past_due"}, {"suspended"})
      /\ TRANSITION_RULES["reactivate"] = Rule({"suspended"}, {"active", "past_due"})
      /\ TRANSITION_RULES["request_closure"] = Rule({"active", "past_due", "suspended"}, {"pending_closure"})
      /\ TRANSITION_RULES["cancel_closure"] = Rule({"pending_closure"}, {"active", "past_due", "suspended"})
      /\ TRANSITION_RULES["close"] = Rule({"pending_closure"}, {"closed"})
    BY DEF TRANSITION_RULES, OrganizationTransitions
<1>2. Undoes["reactivate"] = "suspend" /\ Undoes["cancel_closure"] = "request_closure"
    BY DEF Undoes
<1>3. \A f, T : Rule(f, T).from = f /\ Rule(f, T).to = T
    BY DEF Rule
<1>4. \A was : /\ Target(TRANSITION_RULES["payment_failed"], "payment_failed", was) = "past_due"
               /\ Target(TRANSITION_RULES["payment_recovered"], "payment_recovered", was) = "active"
               /\ Target(TRANSITION_RULES["suspend"], "suspend", was) = "suspended"
               /\ Target(TRANSITION_RULES["request_closure"], "request_closure", was) = "pending_closure"
               /\ Target(TRANSITION_RULES["close"], "close", was) = "closed"
    <2>1. \A was : Target(TRANSITION_RULES["payment_failed"], "payment_failed", was) = "past_due"
        <3>1. TRANSITION_RULES["payment_failed"].to = {"past_due"}
            BY <1>1, <1>3
        <3>2. QED
            BY <3>1, SingleTarget, Zenon
    <2>2. \A was : Target(TRANSITION_RULES["payment_recovered"], "payment_recovered", was) = "active"
        <3>1. TRANSITION_RULES["payment_recovered"].to = {"active"}
            BY <1>1, <1>3
        <3>2. QED
            BY <3>1, SingleTarget, Zenon
    <2>3. \A was : Target(TRANSITION_RULES["suspend"], "suspend", was) = "suspended"
        <3>1. TRANSITION_RULES["suspend"].to = {"suspended"}
            BY <1>1, <1>3
        <3>2. QED
            BY <3>1, SingleTarget, Zenon
    <2>4. \A was : Target(TRANSITION_RULES["request_closure"], "request_closure", was) = "pending_closure"
        <3>1. TRANSITION_RULES["request_closure"].to = {"pending_closure"}
            BY <1>1, <1>3
        <3>2. QED
            BY <3>1, SingleTarget, Zenon
    <2>5. \A was : Target(TRANSITION_RULES["close"], "close", was) = "closed"
        <3>1. TRANSITION_RULES["close"].to = {"closed"}
            BY <1>1, <1>3
        <3>2. QED
            BY <3>1, SingleTarget, Zenon
    <2>6. QED
        BY <2>1, <2>2, <2>3, <2>4, <2>5, Zenon
<1>5. \A was : Target(TRANSITION_RULES["reactivate"], "reactivate", was) =
        (IF was["suspend"] \in {"active", "past_due"} THEN was["suspend"] ELSE "active")
    <2>1. IsFiniteSet({"active", "past_due"})
        BY Finite2and3
    <2>2. QED
        BY <1>1, <1>2, <2>1, RestoredTarget
<1>6. \A was : Target(TRANSITION_RULES["cancel_closure"], "cancel_closure", was) =
        (IF was["request_closure"] \in {"active", "past_due", "suspended"}
         THEN was["request_closure"] ELSE "active")
    <2>1. IsFiniteSet({"active", "past_due", "suspended"})
        BY Finite2and3
    <2>2. QED
        BY <1>1, <1>2, <2>1, RestoredTarget
<1>7. /\ TRANSITION_RULES["payment_failed"].from = {"active"}
      /\ TRANSITION_RULES["payment_recovered"].from = {"past_due"}
      /\ TRANSITION_RULES["suspend"].from = {"active", "past_due"}
      /\ TRANSITION_RULES["reactivate"].from = {"suspended"}
      /\ TRANSITION_RULES["request_closure"].from = {"active", "past_due", "suspended"}
      /\ TRANSITION_RULES["cancel_closure"].from = {"pending_closure"}
      /\ TRANSITION_RULES["close"].from = {"pending_closure"}
    BY <1>1, <1>3
<1>8. QED
    BY <1>1, <1>4, <1>5, <1>6, <1>7, Zenon

(* And of a workspace. *)
LEMMA WorkspaceRules ==
    /\ DOMAIN WORKSPACE_TRANSITION_RULES = WorkspaceTransitions
    /\ WORKSPACE_TRANSITION_RULES["suspend"].from = {"active"}
    /\ WORKSPACE_TRANSITION_RULES["reactivate"].from = {"suspended"}
    /\ WORKSPACE_TRANSITION_RULES["archive"].from = {"active", "suspended"}
    /\ WORKSPACE_TRANSITION_RULES["restore"].from = {"archived"}
    /\ WORKSPACE_TRANSITION_RULES["request_deletion"].from = {"active", "archived"}
    /\ WORKSPACE_TRANSITION_RULES["cancel_deletion"].from = {"pending_deletion"}
    /\ \A was : /\ Target(WORKSPACE_TRANSITION_RULES["suspend"], "suspend", was) = "suspended"
                /\ Target(WORKSPACE_TRANSITION_RULES["reactivate"], "reactivate", was) = "active"
                /\ Target(WORKSPACE_TRANSITION_RULES["archive"], "archive", was) = "archived"
                /\ Target(WORKSPACE_TRANSITION_RULES["request_deletion"], "request_deletion", was) = "pending_deletion"
    /\ \A was : Target(WORKSPACE_TRANSITION_RULES["restore"], "restore", was) =
          (IF was["archive"] \in {"active", "suspended"} THEN was["archive"] ELSE "active")
    /\ \A was : Target(WORKSPACE_TRANSITION_RULES["cancel_deletion"], "cancel_deletion", was) =
          (IF was["request_deletion"] \in {"active", "archived"} THEN was["request_deletion"] ELSE "active")
<1>1. /\ DOMAIN WORKSPACE_TRANSITION_RULES = WorkspaceTransitions
      /\ WORKSPACE_TRANSITION_RULES["suspend"] = Rule({"active"}, {"suspended"})
      /\ WORKSPACE_TRANSITION_RULES["reactivate"] = Rule({"suspended"}, {"active"})
      /\ WORKSPACE_TRANSITION_RULES["archive"] = Rule({"active", "suspended"}, {"archived"})
      /\ WORKSPACE_TRANSITION_RULES["restore"] = Rule({"archived"}, {"active", "suspended"})
      /\ WORKSPACE_TRANSITION_RULES["request_deletion"] = Rule({"active", "archived"}, {"pending_deletion"})
      /\ WORKSPACE_TRANSITION_RULES["cancel_deletion"] = Rule({"pending_deletion"}, {"active", "archived"})
    BY DEF WORKSPACE_TRANSITION_RULES, WorkspaceTransitions
<1>2. Undoes["restore"] = "archive" /\ Undoes["cancel_deletion"] = "request_deletion"
    BY DEF Undoes
<1>3. \A f, T : Rule(f, T).from = f /\ Rule(f, T).to = T
    BY DEF Rule
<1>4. \A was : /\ Target(WORKSPACE_TRANSITION_RULES["suspend"], "suspend", was) = "suspended"
               /\ Target(WORKSPACE_TRANSITION_RULES["reactivate"], "reactivate", was) = "active"
               /\ Target(WORKSPACE_TRANSITION_RULES["archive"], "archive", was) = "archived"
               /\ Target(WORKSPACE_TRANSITION_RULES["request_deletion"], "request_deletion", was) = "pending_deletion"
    <2>1. \A was : Target(WORKSPACE_TRANSITION_RULES["suspend"], "suspend", was) = "suspended"
        <3>1. WORKSPACE_TRANSITION_RULES["suspend"].to = {"suspended"}
            BY <1>1, <1>3
        <3>2. QED
            BY <3>1, SingleTarget, Zenon
    <2>2. \A was : Target(WORKSPACE_TRANSITION_RULES["reactivate"], "reactivate", was) = "active"
        <3>1. WORKSPACE_TRANSITION_RULES["reactivate"].to = {"active"}
            BY <1>1, <1>3
        <3>2. QED
            BY <3>1, SingleTarget, Zenon
    <2>3. \A was : Target(WORKSPACE_TRANSITION_RULES["archive"], "archive", was) = "archived"
        <3>1. WORKSPACE_TRANSITION_RULES["archive"].to = {"archived"}
            BY <1>1, <1>3
        <3>2. QED
            BY <3>1, SingleTarget, Zenon
    <2>4. \A was : Target(WORKSPACE_TRANSITION_RULES["request_deletion"], "request_deletion", was) = "pending_deletion"
        <3>1. WORKSPACE_TRANSITION_RULES["request_deletion"].to = {"pending_deletion"}
            BY <1>1, <1>3
        <3>2. QED
            BY <3>1, SingleTarget, Zenon
    <2>5. QED
        BY <2>1, <2>2, <2>3, <2>4, Zenon
<1>5. \A was : Target(WORKSPACE_TRANSITION_RULES["restore"], "restore", was) =
        (IF was["archive"] \in {"active", "suspended"} THEN was["archive"] ELSE "active")
    <2>1. IsFiniteSet({"active", "suspended"})
        BY Finite2and3
    <2>2. QED
        BY <1>1, <1>2, <2>1, RestoredTarget
<1>6. \A was : Target(WORKSPACE_TRANSITION_RULES["cancel_deletion"], "cancel_deletion", was) =
        (IF was["request_deletion"] \in {"active", "archived"} THEN was["request_deletion"] ELSE "active")
    <2>1. IsFiniteSet({"active", "archived"})
        BY Finite2and3
    <2>2. QED
        BY <1>1, <1>2, <2>1, RestoredTarget
<1>7. /\ WORKSPACE_TRANSITION_RULES["suspend"].from = {"active"}
      /\ WORKSPACE_TRANSITION_RULES["reactivate"].from = {"suspended"}
      /\ WORKSPACE_TRANSITION_RULES["archive"].from = {"active", "suspended"}
      /\ WORKSPACE_TRANSITION_RULES["restore"].from = {"archived"}
      /\ WORKSPACE_TRANSITION_RULES["request_deletion"].from = {"active", "archived"}
      /\ WORKSPACE_TRANSITION_RULES["cancel_deletion"].from = {"pending_deletion"}
    BY <1>1, <1>3
<1>8. QED
    BY <1>1, <1>4, <1>5, <1>6, <1>7, Zenon

-----------------------------------------------------------------------------

LEMMA CommandOK == ASSUME TypeOK, Command PROVE commands' \in 0..MaxCommands
BY BoundsAssumption DEF TypeOK, Command

LEMMA FaultOK == ASSUME TypeOK, Fault PROVE faults' \in 0..MaxFaults
BY BoundsAssumption DEF TypeOK, Fault

LEMMA IdleOK ==
    /\ IdleWorker.event = 0 /\ IdleWorker.todo = {} /\ IdleWorker.eligible = FALSE
    /\ IdleWorker.failed = FALSE
    /\ \A n \in Nat : IdleWorker \in [event : 0..n, todo : SUBSET Workspaces,
                                      eligible : BOOLEAN, failed : BOOLEAN]
BY DEF IdleWorker

LEMMA InitSafe == ASSUME Init PROVE Safe
<1>1. NothingRecorded \in [Actions -> {"none"}]
    BY DEF NothingRecorded
<1>2. Len(feed) = 0 /\ feed \in Seq(EventRow)
    BY DEF Init
<1>3. births = {} /\ Cardinality(births) = 0
    BY FS_EmptySet DEF Init
<1>4. TypeOK
    <2>1. orgWas \in [Actions -> OrganizationStatuses \cup {"none"}]
        BY <1>1 DEF Init
    <2>2. wsWas \in [Workspaces -> [Actions -> WorkspaceStatuses]]
        <3>1. NothingRecorded \in [Actions -> WorkspaceStatuses]
            BY <1>1 DEF WorkspaceStatuses
        <3>2. QED
            BY <3>1 DEF Init
    <2>3. ws \in [Workspaces -> WorkspaceStatuses] /\ org \in OrganizationStatuses
        BY DEF Init, WorkspaceStatuses, OrganizationStatuses
    <2>4. worker \in [Workers -> WorkerRow]
        BY <1>2, IdleOK DEF Init, WorkerRow
    <2>5. /\ marked \subseteq Workspaces /\ births \subseteq Workspaces
          /\ owing \in BOOLEAN /\ overtaken \in BOOLEAN
          /\ banned \subseteq Workspaces /\ touched \subseteq Workspaces /\ raced \subseteq Workspaces
        BY DEF Init
    <2>6. commands \in 0..MaxCommands /\ faults \in 0..MaxFaults /\ Cardinality(births) <= 1
        BY <1>3, BoundsAssumption DEF Init
    <2>7. QED
        BY <1>2, <2>1, <2>2, <2>3, <2>4, <2>5, <2>6 DEF TypeOK, EventRow, WorkerRow
<1>5. DebtIsKept /\ BanIsKept /\ Unborn
    BY <1>3 DEF Init, DebtIsKept, BanIsKept, Unborn
<1>6. MarkHolds /\ OneTakes
    BY IdleOK DEF Init, MarkHolds, OneTakes
<1>7. InOrder /\ LastKind /\ Pursued
    BY <1>2 DEF Init, InOrder, LastKind, Standing, Pursued
<1>8. QED
    BY <1>4, <1>5, <1>6, <1>7 DEF Safe

(* The feed and the workers, field by field. *)
LEMMA Shapes ==
    ASSUME TypeOK
    PROVE  /\ feed \in Seq(EventRow) /\ Len(feed) \in Nat
           /\ \A i \in 1..Len(feed) : feed[i] \in EventRow
           /\ \A x \in Workers : /\ worker[x] \in WorkerRow
                                /\ worker[x].event \in 0..Len(feed) /\ worker[x].todo \subseteq Workspaces
                                /\ worker[x].eligible \in BOOLEAN /\ worker[x].failed \in BOOLEAN
<1>1. feed \in Seq(EventRow) /\ worker \in [Workers -> WorkerRow]
    BY DEF TypeOK, EventRow, WorkerRow
<1>2. Len(feed) \in Nat /\ \A i \in 1..Len(feed) : feed[i] \in EventRow
    BY <1>1
<1>3. \A x \in Workers : worker[x] \in WorkerRow
    BY <1>1
<1>4. \A r \in WorkerRow : /\ r.event \in 0..Len(feed) /\ r.todo \subseteq Workspaces
                           /\ r.eligible \in BOOLEAN /\ r.failed \in BOOLEAN
    BY DEF WorkerRow
<1>5. QED
    BY <1>1, <1>2, <1>3, <1>4

(* What an event's new state does to the feed. *)
LEMMA Marked ==
    ASSUME TypeOK, NEW i \in 1..Len(feed), NEW s \in {"new", "taken", "retry", "done", "dead"}, Mark(i, s)
    PROVE  /\ feed' \in Seq(EventRow) /\ Len(feed') = Len(feed)
           /\ feed'[i].state = s /\ feed'[i].kind = feed[i].kind
           /\ \A j \in 1..Len(feed) : j # i => feed'[j] = feed[j]
           /\ \A j \in 1..Len(feed) : feed'[j].kind = feed[j].kind
<1>1. feed \in Seq(EventRow) /\ feed[i] \in EventRow
    BY Shapes
<1> DEFINE row == [feed[i] EXCEPT !.state = s]
<1>2. row \in EventRow /\ row.state = s /\ row.kind = feed[i].kind
    BY <1>1 DEF EventRow
<1>3. feed' = [feed EXCEPT ![i] = row]
    BY DEF Mark
<1> HIDE DEF row
<1>4. QED
    BY <1>1, <1>2, <1>3

(* A cascade goes through its list in one order. *)
LEMMA NextIsOne ==
    ASSUME TypeOK, NEW x \in Workers, NEW v, NEW w, IsNext(x, v), IsNext(x, w)
    PROVE  v = w
<1>1. v \in Workspaces /\ w \in Workspaces /\ v <= w /\ w <= v
    BY Shapes DEF IsNext
<1>2. v \in Nat /\ w \in Nat
    BY <1>1, WorkspacesAssumption
<1>3. QED
    BY <1>1, <1>2

(* What an announcement does to the feed. *)
LEMMA Announced ==
    ASSUME TypeOK, NEW e \in EventRow, feed' = Append(feed, e)
    PROVE  /\ feed' \in Seq(EventRow) /\ Len(feed') = Len(feed) + 1 /\ feed'[Len(feed) + 1] = e
           /\ \A i \in 1..Len(feed) : feed'[i] = feed[i]
<1>1. feed \in Seq(EventRow)
    BY DEF TypeOK, EventRow
<1>2. QED
    BY <1>1

(* The organization moves, along one of its seven transitions. *)
LEMMA OrganizationMoves ==
    ASSUME TypeOK, NEW t \in OrganizationTransitions, OrganizationTransition(t)
    PROVE  /\ orgWas' \in [Actions -> OrganizationStatuses \cup {"none"}]
           /\ \A a \in Actions : orgWas'[a] = IF a = t THEN org ELSE orgWas[a]
           /\ \/ t = "payment_failed" /\ org = "active" /\ org' = "past_due"
              \/ t = "payment_recovered" /\ org = "past_due" /\ org' = "active"
              \/ t = "suspend" /\ org \in {"active", "past_due"} /\ org' = "suspended"
              \/ /\ t = "reactivate" /\ org = "suspended" /\ org' \in {"active", "past_due"}
                 /\ orgWas["suspend"] \in {"active", "past_due"} => org' = orgWas["suspend"]
              \/ t = "request_closure" /\ org \in {"active", "past_due", "suspended"}
                    /\ org' = "pending_closure"
              \/ /\ t = "cancel_closure" /\ org = "pending_closure"
                 /\ org' \in {"active", "past_due", "suspended"}
                 /\ orgWas["request_closure"] \in {"active", "past_due", "suspended"} =>
                       org' = orgWas["request_closure"]
              \/ t = "close" /\ org = "pending_closure" /\ org' = "closed"
           /\ owing' = (t = "payment_failed" \/ (owing /\ t # "payment_recovered"))
<1>1. /\ org \in TRANSITION_RULES[t].from /\ org' = Target(TRANSITION_RULES[t], t, orgWas)
      /\ orgWas' = Recorded(orgWas, t, org)
      /\ owing' = (t = "payment_failed" \/ (owing /\ t # "payment_recovered"))
    BY Zenon DEF OrganizationTransition
<1>2. /\ orgWas' \in [Actions -> OrganizationStatuses \cup {"none"}]
      /\ \A a \in Actions : orgWas'[a] = IF a = t THEN org ELSE orgWas[a]
    BY <1>1 DEF Recorded, TypeOK
<1>3. CASE t = "payment_failed"
    BY <1>1, <1>2, <1>3, OrganizationRules
<1>4. CASE t = "payment_recovered"
    BY <1>1, <1>2, <1>4, OrganizationRules
<1>5. CASE t = "suspend"
    BY <1>1, <1>2, <1>5, OrganizationRules
<1>6. CASE t = "reactivate"
    BY <1>1, <1>2, <1>6, OrganizationRules
<1>7. CASE t = "request_closure"
    BY <1>1, <1>2, <1>7, OrganizationRules
<1>8. CASE t = "cancel_closure"
    BY <1>1, <1>2, <1>8, OrganizationRules
<1>9. CASE t = "close"
    BY <1>1, <1>2, <1>9, OrganizationRules
<1>10. QED
    BY <1>3, <1>4, <1>5, <1>6, <1>7, <1>8, <1>9 DEF OrganizationTransitions

(* The group is told of the move, or has nothing to do with it. *)
LEMMA OrganizationSafe ==
    ASSUME Safe, NEW t \in OrganizationTransitions, OrganizationTransition(t)
    PROVE  Safe'
<1>1. TypeOK
    BY DEF Safe
<1>2. /\ UNCHANGED <<ws, wsWas, marked, births, worker, banned, raced, overtaken, faults>>
      /\ Command /\ feed' = feed \o Published(t)
      /\ touched' = IF Published(t) = <<>> THEN touched ELSE {}
    BY Zenon DEF OrganizationTransition
<1>3. CASE t \notin {"suspend", "reactivate"}
    <2>1. Published(t) = <<>>
        BY <1>3 DEF Published
    <2>2. feed' = feed /\ touched' = touched
        BY <1>1, <1>2, <2>1, Shapes
    <2>3. TypeOK'
        <3>1. org' \in OrganizationStatuses
            BY <1>1, OrganizationMoves DEF OrganizationStatuses
        <3>2. orgWas' \in [Actions -> OrganizationStatuses \cup {"none"}]
            BY <1>1, OrganizationMoves
        <3>3. owing' \in BOOLEAN
            BY <1>1, OrganizationMoves
        <3>4. commands' \in 0..MaxCommands
            BY <1>1, <1>2, CommandOK
        <3>5. QED
            BY <1>1, <1>2, <2>2, <3>1, <3>2, <3>3, <3>4 DEF TypeOK
    <2>4. DebtIsKept'
        BY <1>1, <1>3, OrganizationMoves DEF Safe, DebtIsKept, Actions, OrganizationTransitions
    <2>5. LastKind'
        BY <1>1, <1>2, <1>3, <2>2, OrganizationMoves DEF Safe, LastKind, Standing, Actions, OrganizationTransitions
    <2>6. BanIsKept' /\ Unborn'
        BY <1>2 DEF Safe, BanIsKept, Unborn
    <2>7. MarkHolds' /\ OneTakes'
        BY <1>2, <2>2 DEF Safe, MarkHolds, IsNext, OneTakes
    <2>8. InOrder' /\ Pursued'
        BY <1>2, <2>2 DEF Safe, InOrder, Pursued, Undone
    <2>9. QED
        BY <2>3, <2>4, <2>5, <2>6, <2>7, <2>8 DEF Safe
<1>4. CASE t \in {"suspend", "reactivate"}
    <2> DEFINE e == [kind |-> t, state |-> "new"]
    <2>1. Published(t) = <<e>> /\ Published(t) # <<>>
        BY <1>4 DEF Published
    <2>2. e \in EventRow /\ e.kind = t /\ e.state = "new"
        BY <1>4 DEF EventRow
    <2> HIDE DEF e
    <2>3. feed' = Append(feed, e) /\ touched' = {}
        BY <1>1, <1>2, <2>1, Shapes
    <2>4. /\ feed' \in Seq(EventRow) /\ Len(feed') = Len(feed) + 1 /\ feed'[Len(feed) + 1] = e
          /\ \A i \in 1..Len(feed) : feed'[i] = feed[i]
          /\ Len(feed) \in Nat
        BY <1>1, <2>2, <2>3, Announced, Shapes
    <2>5. TypeOK'
        <3>1. org' \in OrganizationStatuses
            BY <1>1, OrganizationMoves DEF OrganizationStatuses
        <3>2. orgWas' \in [Actions -> OrganizationStatuses \cup {"none"}]
            BY <1>1, OrganizationMoves
        <3>3. owing' \in BOOLEAN
            BY <1>1, OrganizationMoves
        <3>4. commands' \in 0..MaxCommands
            BY <1>1, <1>2, CommandOK
        <3>5. worker' \in [Workers -> WorkerRow']
            <4>1. 0..Len(feed) \subseteq 0..Len(feed')
                BY <2>4
            <4>2. WorkerRow \subseteq WorkerRow'
                BY <4>1 DEF WorkerRow
            <4>3. QED
                BY <1>1, <1>2, <4>2 DEF TypeOK, WorkerRow
        <3>6. feed' \in Seq([kind : {"suspend", "reactivate"}, state : {"new", "taken", "retry", "done", "dead"}])
            BY <2>4 DEF EventRow
        <3>7. QED
            BY <1>1, <1>2, <2>3, <3>1, <3>2, <3>3, <3>4, <3>5, <3>6 DEF TypeOK, WorkerRow
    <2>6. DebtIsKept'
        BY <1>1, <1>4, OrganizationMoves DEF Safe, DebtIsKept, Actions
    <2>7. LastKind'
        BY <1>1, <1>2, <1>4, <2>2, <2>4, OrganizationMoves DEF LastKind, Standing
    <2>8. BanIsKept' /\ Unborn'
        BY <1>2 DEF Safe, BanIsKept, Unborn
    <2>9. MarkHolds'
        BY <1>2 DEF Safe, MarkHolds, IsNext
    <2>10. OneTakes'
        <3>1. \A x \in Workers : worker[x].event \in 0..Len(feed)
            BY <1>1, Shapes
        <3>2. QED
            BY <1>2, <2>4, <3>1 DEF Safe, OneTakes
    <2>11. InOrder'
        BY <1>2, <2>2, <2>4 DEF Safe, InOrder
    <2>12. Pursued'
        BY <2>2, <2>4 DEF Pursued
    <2>13. QED
        BY <2>5, <2>6, <2>7, <2>8, <2>9, <2>10, <2>11, <2>12 DEF Safe
<1>5. QED
    BY <1>3, <1>4
-----------------------------------------------------------------------------

(* A workspace moves, along one of its six transitions. *)
LEMMA WorkspaceMoves ==
    ASSUME TypeOK, NEW w \in Workspaces, NEW t \in WorkspaceTransitions, NEW m \in BOOLEAN,
           WorkspaceTransition(w, t, m)
    PROVE  /\ ws' \in [Workspaces -> WorkspaceStatuses]
           /\ wsWas' \in [Workspaces -> [Actions -> WorkspaceStatuses]]
           /\ \A v \in Workspaces : v # w => ws'[v] = ws[v] /\ wsWas'[v] = wsWas[v]
           /\ \A a \in Actions : wsWas'[w][a] = IF a = t THEN ws[w] ELSE wsWas[w][a]
           /\ \/ t = "suspend" /\ ws[w] = "active" /\ ws'[w] = "suspended"
              \/ t = "reactivate" /\ ws[w] = "suspended" /\ ws'[w] = "active"
              \/ t = "archive" /\ ws[w] \in {"active", "suspended"} /\ ws'[w] = "archived"
              \/ /\ t = "restore" /\ ws[w] = "archived" /\ ws'[w] \in {"active", "suspended"}
                 /\ wsWas[w]["archive"] \in {"active", "suspended"} => ws'[w] = wsWas[w]["archive"]
              \/ /\ t = "request_deletion" /\ ws[w] \in {"active", "archived"}
                 /\ ws'[w] = "pending_deletion"
              \/ /\ t = "cancel_deletion" /\ ws[w] = "pending_deletion"
                 /\ ws'[w] \in {"active", "archived"}
                 /\ wsWas[w]["request_deletion"] \in {"active", "archived"} =>
                       ws'[w] = wsWas[w]["request_deletion"]
           /\ marked' = IF t # "suspend" THEN marked
                        ELSE IF m THEN marked \cup {w} ELSE marked \ {w}
<1> DEFINE target == Target(WORKSPACE_TRANSITION_RULES[t], t, wsWas[w])
           record == Recorded(wsWas[w], t, ws[w])
<1>1. /\ ws[w] \in WORKSPACE_TRANSITION_RULES[t].from
      /\ ws' = [ws EXCEPT ![w] = target]
      /\ wsWas' = [wsWas EXCEPT ![w] = record]
      /\ marked' = IF t # "suspend" THEN marked
                   ELSE IF m THEN marked \cup {w} ELSE marked \ {w}
    BY Zenon DEF WorkspaceTransition
<1>2. /\ ws \in [Workspaces -> WorkspaceStatuses] /\ ws[w] \in WorkspaceStatuses
      /\ wsWas \in [Workspaces -> [Actions -> WorkspaceStatuses]]
      /\ wsWas[w] \in [Actions -> WorkspaceStatuses]
    BY DEF TypeOK
<1>3. /\ record \in [Actions -> WorkspaceStatuses]
      /\ \A a \in Actions : record[a] = IF a = t THEN ws[w] ELSE wsWas[w][a]
    BY <1>2 DEF Recorded
<1>4. \/ t = "suspend" /\ ws[w] = "active" /\ target = "suspended"
      \/ t = "reactivate" /\ ws[w] = "suspended" /\ target = "active"
      \/ t = "archive" /\ ws[w] \in {"active", "suspended"} /\ target = "archived"
      \/ /\ t = "restore" /\ ws[w] = "archived" /\ target \in {"active", "suspended"}
         /\ wsWas[w]["archive"] \in {"active", "suspended"} => target = wsWas[w]["archive"]
      \/ t = "request_deletion" /\ ws[w] \in {"active", "archived"} /\ target = "pending_deletion"
      \/ /\ t = "cancel_deletion" /\ ws[w] = "pending_deletion" /\ target \in {"active", "archived"}
         /\ wsWas[w]["request_deletion"] \in {"active", "archived"} =>
               target = wsWas[w]["request_deletion"]
    <2>1. CASE t = "suspend"
        BY <1>1, <2>1, WorkspaceRules
    <2>2. CASE t = "reactivate"
        BY <1>1, <2>2, WorkspaceRules
    <2>3. CASE t = "archive"
        BY <1>1, <2>3, WorkspaceRules
    <2>4. CASE t = "restore"
        BY <1>1, <2>4, WorkspaceRules
    <2>5. CASE t = "request_deletion"
        BY <1>1, <2>5, WorkspaceRules
    <2>6. CASE t = "cancel_deletion"
        BY <1>1, <2>6, WorkspaceRules
    <2>7. QED
        BY <2>1, <2>2, <2>3, <2>4, <2>5, <2>6 DEF WorkspaceTransitions
<1> HIDE DEF target, record
<1>5. target \in WorkspaceStatuses
    BY <1>4 DEF WorkspaceStatuses
<1>6. ws' \in [Workspaces -> WorkspaceStatuses] /\ ws'[w] = target
    BY <1>1, <1>2, <1>5
<1>7. wsWas' \in [Workspaces -> [Actions -> WorkspaceStatuses]] /\ wsWas'[w] = record
    BY <1>1, <1>2, <1>3
<1>8. \A v \in Workspaces : v # w => ws'[v] = ws[v] /\ wsWas'[v] = wsWas[v]
    BY <1>1, <1>2
<1>9. QED
    BY <1>1, <1>3, <1>4, <1>6, <1>7, <1>8

(* What changed by hand is exempt from the cascade, and follows the rules. *)
LEMMA MoveSafe ==
    ASSUME Safe, NEW w \in Workspaces, NEW t \in WorkspaceTransitions, MoveWorkspace(w, t)
    PROVE  Safe'
<1>1. TypeOK
    BY DEF Safe
<1>2. /\ WorkspaceTransition(w, t, FALSE) /\ Command
      /\ touched' = touched \cup {w}
      /\ raced' = IF About(w) # {} THEN raced \cup {w} ELSE raced
      /\ UNCHANGED <<org, orgWas, births, feed, worker, owing, overtaken, faults>>
    BY Zenon DEF MoveWorkspace
<1>3. /\ t = "suspend" => banned' = banned \cup {w}
      /\ t = "reactivate" => banned' = banned \ {w}
      /\ t \notin {"suspend", "reactivate"} => banned' = banned
    BY DEF MoveWorkspace
<1>4. marked' = IF t = "suspend" THEN marked \ {w} ELSE marked
    BY <1>1, <1>2, WorkspaceMoves
<1>5. /\ ws' \in [Workspaces -> WorkspaceStatuses]
      /\ wsWas' \in [Workspaces -> [Actions -> WorkspaceStatuses]]
      /\ \A v \in Workspaces : v # w => ws'[v] = ws[v] /\ wsWas'[v] = wsWas[v]
    BY <1>1, <1>2, WorkspaceMoves
<1>5a. \A a \in Actions : wsWas'[w][a] = (IF a = t THEN ws[w] ELSE wsWas[w][a])
    <2>1. wsWas' = [wsWas EXCEPT ![w] = Recorded(wsWas[w], t, ws[w])]
        BY <1>2, Zenon DEF WorkspaceTransition
    <2>2. wsWas \in [Workspaces -> [Actions -> WorkspaceStatuses]]
        BY <1>1 DEF TypeOK
    <2>3. wsWas'[w] = Recorded(wsWas[w], t, ws[w]) /\ DOMAIN wsWas[w] = Actions
        BY <2>1, <2>2
    <2>4. QED
        BY <2>3 DEF Recorded
<1>6. TypeOK'
    <2>1. commands' \in 0..MaxCommands
        BY <1>1, <1>2, CommandOK
    <2>2. /\ banned' \subseteq Workspaces /\ touched' \subseteq Workspaces
          /\ raced' \subseteq Workspaces /\ marked' \subseteq Workspaces
        BY <1>1, <1>2, <1>3, <1>4 DEF TypeOK
    <2>3. QED
        BY <1>1, <1>2, <1>5, <2>1, <2>2 DEF TypeOK
<1>7. DebtIsKept'
    BY <1>2 DEF Safe, DebtIsKept
<1>8. BanIsKept'
    <2>1. \A v \in banned' \ raced' : v # w => v \in banned \ raced /\ v \notin marked'
        BY <1>2, <1>3, <1>4 DEF Safe, BanIsKept
    <2>2. \A v \in banned' \ raced' : v # w =>
             \/ ws'[v] = "suspended"
             \/ ws'[v] = "archived" /\ wsWas'[v]["archive"] = "suspended"
             \/ /\ ws'[v] = "pending_deletion"
                /\ wsWas'[v]["request_deletion"] = "archived" /\ wsWas'[v]["archive"] = "suspended"
        <3>1. banned \subseteq Workspaces
            BY <1>1 DEF TypeOK
        <3>2. QED
            BY <1>5, <2>1, <3>1 DEF Safe, BanIsKept
    <2>3. ASSUME w \in banned' \ raced'
          PROVE  /\ w \notin marked'
                 /\ \/ ws'[w] = "suspended"
                    \/ ws'[w] = "archived" /\ wsWas'[w]["archive"] = "suspended"
                    \/ /\ ws'[w] = "pending_deletion"
                       /\ wsWas'[w]["request_deletion"] = "archived" /\ wsWas'[w]["archive"] = "suspended"
        <3>1. "archive" \in Actions /\ "request_deletion" \in Actions
            BY DEF Actions
        <3>2. CASE t = "suspend"
            BY <1>1, <1>2, <1>4, <3>2, WorkspaceMoves
        <3>3. CASE t # "suspend"
            <4>1. w \in banned \ raced /\ t # "reactivate" /\ w \notin marked'
                BY <1>2, <1>3, <1>4, <2>3, <3>3 DEF Safe, BanIsKept
            <4>2. \/ ws[w] = "suspended"
                  \/ ws[w] = "archived" /\ wsWas[w]["archive"] = "suspended"
                  \/ /\ ws[w] = "pending_deletion"
                     /\ wsWas[w]["request_deletion"] = "archived" /\ wsWas[w]["archive"] = "suspended"
                BY <4>1 DEF Safe, BanIsKept
            <4>3. /\ wsWas'[w]["archive"] = IF "archive" = t THEN ws[w] ELSE wsWas[w]["archive"]
                  /\ wsWas'[w]["request_deletion"] =
                        IF "request_deletion" = t THEN ws[w] ELSE wsWas[w]["request_deletion"]
                BY <1>5a, <3>1, Zenon
            <4>4. \/ t = "archive" /\ ws[w] \in {"active", "suspended"} /\ ws'[w] = "archived"
                  \/ /\ t = "restore" /\ ws[w] = "archived"
                     /\ wsWas[w]["archive"] \in {"active", "suspended"} => ws'[w] = wsWas[w]["archive"]
                  \/ /\ t = "request_deletion" /\ ws[w] \in {"active", "archived"}
                     /\ ws'[w] = "pending_deletion"
                  \/ /\ t = "cancel_deletion" /\ ws[w] = "pending_deletion"
                     /\ wsWas[w]["request_deletion"] \in {"active", "archived"} =>
                           ws'[w] = wsWas[w]["request_deletion"]
                BY <1>1, <1>2, <3>3, <4>1, WorkspaceMoves
            <4>5. QED
                BY <4>1, <4>2, <4>3, <4>4
        <3>4. QED
            BY <3>2, <3>3
    <2>4. QED
        BY <2>1, <2>2, <2>3 DEF BanIsKept
<1>9. Unborn'
    <2>1. ws[w] # "none" /\ births \subseteq Workspaces
        BY <1>1, <1>2, WorkspaceMoves DEF TypeOK
    <2>2. QED
        BY <1>2, <1>5, <2>1 DEF Safe, Unborn
<1>10. MarkHolds'
    <2>1. SUFFICES ASSUME NEW x \in Workers, NEW v \in Workspaces,
                          worker[x].eligible, IsNext(x, v), v \notin raced'
                   PROVE  v \in marked'
        BY <1>2 DEF MarkHolds, IsNext
    <2>2. v \in marked
        BY <1>2, <2>1 DEF Safe, MarkHolds
    <2>3. v = w => x \in About(w)
        BY <2>1 DEF IsNext, About
    <2>4. v # w
        BY <1>2, <2>1, <2>3
    <2>5. QED
        BY <1>4, <2>2, <2>4
<1>11. OneTakes' /\ InOrder'
    BY <1>2 DEF Safe, OneTakes, InOrder
<1>12. LastKind'
    BY <1>2, <1>4 DEF Safe, LastKind, Standing
<1>13. Pursued'
    BY <1>2, <1>4, <1>5 DEF Safe, Pursued, Undone
<1>14. QED
    BY <1>6, <1>7, <1>8, <1>9, <1>10, <1>11, <1>12, <1>13 DEF Safe

LEMMA CheckQuotaSafe ==
    ASSUME Safe, NEW w \in Workspaces, CheckQuota(w)
    PROVE  Safe'
<1>1. /\ UNCHANGED <<org, orgWas, ws, wsWas, marked, feed, worker, history, faults>>
      /\ Command /\ ws[w] = "none" /\ births' = {w}
    BY DEF CheckQuota
<1>2. Cardinality({w}) = 1
    BY FS_Singleton
<1>3. TypeOK'
    <2>1. TypeOK
        BY DEF Safe
    <2>2. commands' \in 0..MaxCommands
        BY <1>1, <2>1, CommandOK
    <2>3. births' \subseteq Workspaces /\ Cardinality(births') <= 1
        BY <1>1, <1>2
    <2>4. QED
        BY <1>1, <2>1, <2>2, <2>3 DEF TypeOK, history
<1>4. DebtIsKept' /\ BanIsKept' /\ Unborn'
    BY <1>1 DEF Safe, DebtIsKept, BanIsKept, Unborn, history
<1>5. MarkHolds' /\ OneTakes'
    BY <1>1 DEF Safe, MarkHolds, IsNext, OneTakes, history
<1>6. InOrder' /\ LastKind' /\ Pursued'
    BY <1>1 DEF Safe, InOrder, LastKind, Standing, Pursued, Undone, history
<1>7. QED
    BY <1>3, <1>4, <1>5, <1>6 DEF Safe

LEMMA InsertWorkspaceSafe ==
    ASSUME Safe, NEW w \in Workspaces, InsertWorkspace(w)
    PROVE  Safe'
<1>1. /\ UNCHANGED <<org, orgWas, wsWas, marked, feed, worker, owing, banned, raced, overtaken,
                     commands, faults>>
      /\ w \in births /\ births' = {} /\ ws' = [ws EXCEPT ![w] = "active"]
      /\ touched' = touched \cup {w}
    BY DEF InsertWorkspace
<1>2. TypeOK
    BY DEF Safe
<1>3. ws[w] = "none"
    BY <1>1 DEF Safe, Unborn
<1>4. /\ ws' \in [Workspaces -> WorkspaceStatuses]
      /\ \A v \in Workspaces : v # w => ws'[v] = ws[v]
    BY <1>1, <1>2 DEF TypeOK, WorkspaceStatuses
<1>5. TypeOK'
    <2>1. births' \subseteq Workspaces /\ Cardinality(births') <= 1
        BY <1>1, FS_EmptySet
    <2>2. touched' \subseteq Workspaces
        BY <1>1, <1>2 DEF TypeOK
    <2>3. QED
        BY <1>1, <1>2, <1>4, <2>1, <2>2 DEF TypeOK
<1>6. DebtIsKept' /\ Unborn'
    BY <1>1 DEF Safe, DebtIsKept, Unborn
<1>7. BanIsKept'
    <2>1. w \notin banned \ raced /\ banned \subseteq Workspaces
        BY <1>2, <1>3 DEF Safe, BanIsKept, TypeOK
    <2>2. QED
        BY <1>1, <1>4, <2>1 DEF Safe, BanIsKept
<1>8. MarkHolds' /\ OneTakes'
    BY <1>1 DEF Safe, MarkHolds, IsNext, OneTakes
<1>9. InOrder' /\ LastKind'
    BY <1>1 DEF Safe, InOrder, LastKind, Standing
<1>10. Pursued'
    BY <1>1, <1>4 DEF Safe, Pursued, Undone
<1>11. QED
    BY <1>5, <1>6, <1>7, <1>8, <1>9, <1>10 DEF Safe

LEMMA ProvisionFailsSafe ==
    ASSUME Safe, ProvisionFails
    PROVE  Safe'
<1>1. /\ UNCHANGED <<org, orgWas, ws, wsWas, marked, feed, worker, history, commands>>
      /\ Fault /\ births' = {}
    BY DEF ProvisionFails
<1>2. TypeOK'
    <2>1. TypeOK
        BY DEF Safe
    <2>2. faults' \in 0..MaxFaults
        BY <1>1, <2>1, FaultOK
    <2>3. births' \subseteq Workspaces /\ Cardinality(births') <= 1
        BY <1>1, FS_EmptySet
    <2>4. QED
        BY <1>1, <2>1, <2>2, <2>3 DEF TypeOK, history
<1>3. DebtIsKept' /\ BanIsKept' /\ Unborn'
    BY <1>1 DEF Safe, DebtIsKept, BanIsKept, Unborn, history
<1>4. MarkHolds' /\ OneTakes'
    BY <1>1 DEF Safe, MarkHolds, IsNext, OneTakes, history
<1>5. InOrder' /\ LastKind' /\ Pursued'
    BY <1>1 DEF Safe, InOrder, LastKind, Standing, Pursued, Undone, history
<1>6. QED
    BY <1>2, <1>3, <1>4, <1>5 DEF Safe
-----------------------------------------------------------------------------

(* Whoever has something to do has an event, and it is there. *)
LEMMA Busy ==
    ASSUME Safe, NEW x \in Workers, worker[x].event # 0 \/ worker[x].todo # {} \/ worker[x].eligible
    PROVE  /\ worker[x].event \in 1..Len(feed) /\ feed[worker[x].event].state = "taken"
           /\ Kind(x) \in {"suspend", "reactivate"}
<1>1. worker[x].event # 0
    BY IdleOK DEF Safe, OneTakes
<1>2. TypeOK /\ feed[worker[x].event].state = "taken"
    BY <1>1 DEF Safe, OneTakes
<1>3. worker[x].event \in 1..Len(feed)
    BY <1>1, <1>2, Shapes
<1>4. feed[worker[x].event] \in EventRow
    BY <1>2, <1>3, Shapes
<1>5. QED
    BY <1>2, <1>3, <1>4 DEF Kind, EventRow

(* Nobody is still at work on an event before a last one taken up. *)
LEMMA OnlyTheLast ==
    ASSUME Safe, ~overtaken, NEW x \in Workers, worker[x].event # 0, worker[x].event # Len(feed)
    PROVE  feed[Len(feed)].state = "new"
<1>1. worker[x].event \in 1..Len(feed) /\ feed[worker[x].event].state = "taken"
    BY Busy
<1>2. Len(feed) \in Nat
    BY Shapes DEF Safe
<1>3. Len(feed) \in 1..Len(feed) /\ worker[x].event < Len(feed)
    BY <1>1, <1>2
<1>4. QED
    BY <1>1, <1>3 DEF Safe, InOrder

(* The last event's worker is the only one that pursues. *)
LEMMA Alone ==
    ASSUME Safe, NEW x \in Workers, NEW y \in Workers, worker[x].event # 0,
           worker[y].event = worker[x].event
    PROVE  y = x
BY DEF Safe, OneTakes

(* A worker's step leaves the others as they are. *)
LEMMA Reassigned ==
    ASSUME TypeOK, NEW x \in Workers, NEW row \in WorkerRow, Set(x, row)
    PROVE  /\ worker' \in [Workers -> WorkerRow]
           /\ worker'[x] = row
           /\ \A y \in Workers : y # x => worker'[y] = worker[y]
<1>1. worker \in [Workers -> WorkerRow]
    BY DEF TypeOK, WorkerRow
<1>2. QED
    BY <1>1 DEF Set

(* A step of the cascades that moves no workspace: what it must show. *)
LEMMA StillPursued ==
    ASSUME TypeOK, UNCHANGED <<ws, marked, touched>>, Len(feed') = Len(feed),
           \A j \in 1..Len(feed) : feed'[j].kind = feed[j].kind,
           ASSUME NEW w \in Workspaces, w \notin touched, ~overtaken', Len(feed) \in 1..Len(feed),
                  feed'[Len(feed)].state \notin {"new", "retry", "dead"}, Undone(w)
           PROVE  \E y \in Workers : /\ worker'[y].event = Len(feed)
                                    /\ (worker'[y].failed \/ w \in worker'[y].todo)
    PROVE  Pursued'
<1>1. Len(feed) > 0 => Len(feed) \in 1..Len(feed)
    BY Shapes
<1>2. QED
    BY <1>1 DEF Pursued, Undone

LEMMA TakeSafe ==
    ASSUME Safe, NEW x \in Workers, NEW i \in 1..Len(feed), Take(x, i) \/ TakeAgain(x, i)
    PROVE  Safe'
<1> DEFINE T == Candidates(feed[i].kind)
           row == [event |-> i, todo |-> T, eligible |-> FALSE, failed |-> FALSE]
<1>1. /\ UNCHANGED <<org, orgWas, ws, wsWas, marked, births, owing, banned, touched, raced,
                     commands, faults>>
      /\ worker[x] = IdleWorker /\ feed[i].state \in {"new", "retry"} /\ Mark(i, "taken")
      /\ \A j \in 1..i - 1 : feed[j].state # "new"
      /\ Set(x, row)
      /\ overtaken' = (overtaken \/ \E j \in 1..i - 1 : feed[j].state # "done")
    BY DEF Take, TakeAgain, TakeUp
<1>2. TypeOK
    BY DEF Safe
<1>3. row \in WorkerRow /\ row.event = i /\ row.todo = T /\ row.eligible = FALSE /\ row.failed = FALSE
    <2>1. T \in SUBSET Workspaces /\ i \in 0..Len(feed)
        BY DEF Candidates
    <2>2. QED
        BY <2>1 DEF WorkerRow
<1>4. /\ feed' \in Seq(EventRow) /\ Len(feed') = Len(feed)
      /\ feed'[i].state = "taken"
      /\ \A j \in 1..Len(feed) : j # i => feed'[j] = feed[j]
      /\ \A j \in 1..Len(feed) : feed'[j].kind = feed[j].kind
    BY <1>1, <1>2, Marked
<1> HIDE DEF row
<1>5. /\ worker' \in [Workers -> WorkerRow]
      /\ worker'[x] = row
      /\ \A y \in Workers : y # x => worker'[y] = worker[y]
    BY <1>1, <1>2, <1>3, Reassigned
<1>6. worker[x].event = 0 /\ Len(feed) \in Nat
    BY <1>1, <1>2, IdleOK, Shapes
<1>7. TypeOK'
    <2>1. feed' \in Seq([kind : {"suspend", "reactivate"}, state : {"new", "taken", "retry", "done", "dead"}])
        BY <1>4 DEF EventRow
    <2>2. worker' \in [Workers -> WorkerRow']
        BY <1>4, <1>5 DEF WorkerRow
    <2>3. overtaken' \in BOOLEAN
        BY <1>1, <1>2 DEF TypeOK
    <2>4. QED
        BY <1>1, <1>2, <2>1, <2>2, <2>3 DEF TypeOK, WorkerRow
<1>8. DebtIsKept' /\ BanIsKept' /\ Unborn'
    BY <1>1 DEF Safe, DebtIsKept, BanIsKept, Unborn
<1>9. MarkHolds'
    BY <1>1, <1>3, <1>5 DEF Safe, MarkHolds, IsNext
<1>10. OneTakes'
    <2>1. \A y \in Workers : y # x => worker[y].event # i
        BY <1>1, <1>6 DEF Safe, OneTakes
    <2>2. \A y \in Workers : worker[y].event \in 0..Len(feed)
        BY <1>2, Shapes
    <2>3. \A y \in Workers : IF worker'[y].event = 0 THEN worker'[y] = IdleWorker
                              ELSE feed'[worker'[y].event].state = "taken"
        BY <1>3, <1>4, <1>5, <2>1, <2>2 DEF Safe, OneTakes
    <2>4. \A y, z \in Workers : y # z /\ worker'[y].event # 0 => worker'[y].event # worker'[z].event
        BY <1>3, <1>5, <2>1 DEF Safe, OneTakes
    <2>5. QED
        BY <2>3, <2>4 DEF OneTakes
<1>11. InOrder'
    <2>1. SUFFICES ASSUME ~overtaken', NEW a \in 1..Len(feed), NEW b \in 1..Len(feed),
                          b < a, feed'[a].state # "new"
                   PROVE  feed'[b].state = "done"
        BY <1>4 DEF InOrder
    <2>2. ~overtaken /\ \A j \in 1..i - 1 : feed[j].state = "done"
        BY <1>1, <2>1
    <2>3. feed[b].state = "done"
        BY <1>4, <2>1, <2>2 DEF Safe, InOrder
    <2>4. QED
        BY <1>1, <1>4, <2>3
<1>12. LastKind'
    BY <1>1, <1>4, <1>6 DEF Safe, LastKind, Standing
<1>13. Pursued'
    <2>1. ASSUME NEW w \in Workspaces, w \notin touched, ~overtaken', Len(feed) \in 1..Len(feed),
                 feed'[Len(feed)].state \notin {"new", "retry", "dead"}, Undone(w)
          PROVE  \E y \in Workers : /\ worker'[y].event = Len(feed)
                                   /\ (worker'[y].failed \/ w \in worker'[y].todo)
        <3>1. CASE i = Len(feed)
            <4>1. feed[i].kind \in {"suspend", "reactivate"}
                BY <1>2, Shapes DEF EventRow
            <4>2. w \in T
                BY <2>1, <3>1, <4>1, WorkspaceRules DEF Undone, Candidates
            <4>3. QED
                BY <1>3, <1>5, <3>1, <4>2
        <3>2. CASE i # Len(feed)
            <4>1. feed[Len(feed)].state \notin {"new", "retry", "dead"} /\ ~overtaken
                BY <1>1, <1>4, <2>1, <3>2
            <4>2. PICK y \in Workers : worker[y].event = Len(feed) /\ (worker[y].failed \/ w \in worker[y].todo)
                BY <1>6, <2>1, <4>1 DEF Safe, Pursued
            <4>3. y # x
                BY <1>6, <2>1, <4>2
            <4>4. QED
                BY <1>5, <4>2, <4>3
        <3>3. QED
            BY <3>1, <3>2
    <2>2. QED
        BY <1>1, <1>2, <1>4, <2>1, StillPursued
<1>14. QED
    BY <1>7, <1>8, <1>9, <1>10, <1>11, <1>12, <1>13 DEF Safe

(* A worker that goes on with its event takes nobody else's. *)
LEMMA GoesOn ==
    ASSUME Safe, UNCHANGED <<feed, overtaken>>, NEW x \in Workers, worker[x].event # 0,
           worker'[x].event = worker[x].event,
           \A y \in Workers : y # x => worker'[y] = worker[y]
    PROVE  OneTakes' /\ InOrder'
<1>1. InOrder'
    BY DEF Safe, InOrder
<1>2. \A y \in Workers : worker'[y].event = worker[y].event
    OBVIOUS
<1>3. \A y \in Workers : IF worker'[y].event = 0 THEN worker'[y] = IdleWorker
                          ELSE feed[worker[y].event].state = "taken"
    BY DEF Safe, OneTakes
<1>4. QED
    BY <1>1, <1>2, <1>3 DEF Safe, OneTakes

(* The cascade leaves a workspace behind it. *)
LEMMA Passes ==
    ASSUME TypeOK, NEW x \in Workers, NEW w \in Workspaces, Past(x, w)
    PROVE  /\ worker' \in [Workers -> WorkerRow]
           /\ worker'[x].event = worker[x].event /\ worker'[x].todo = worker[x].todo \ {w}
           /\ worker'[x].eligible = FALSE /\ worker'[x].failed = worker[x].failed
           /\ \A y \in Workers : y # x => worker'[y] = worker[y]
<1> DEFINE row == [worker[x] EXCEPT !.todo = @ \ {w}, !.eligible = FALSE]
<1>1. worker[x] \in WorkerRow
    BY Shapes
<1>2. /\ row \in WorkerRow /\ row.event = worker[x].event /\ row.todo = worker[x].todo \ {w}
      /\ row.eligible = FALSE /\ row.failed = worker[x].failed
    BY <1>1 DEF WorkerRow
<1>3. Set(x, row)
    BY DEF Past
<1> HIDE DEF row
<1>4. QED
    BY <1>2, <1>3, Reassigned

LEMMA ReadMarkSafe ==
    ASSUME Safe, NEW x \in Workers, NEW w \in Workspaces, ReadMark(x, w)
    PROVE  Safe'
<1>1. /\ UNCHANGED <<org, orgWas, ws, wsWas, marked, births, feed, history, commands, faults>>
      /\ IsNext(x, w) /\ Kind(x) = "reactivate" /\ ~worker[x].eligible
      /\ IF w \in marked THEN Set(x, [worker[x] EXCEPT !.eligible = TRUE]) ELSE Past(x, w)
    BY DEF ReadMark
<1>2. TypeOK
    BY DEF Safe
<1>3. worker[x].event # 0 /\ worker[x].event \in 1..Len(feed)
    <2>1. worker[x].todo # {}
        BY <1>1 DEF IsNext
    <2>2. worker[x].event \in 1..Len(feed)
        BY <2>1, Busy
    <2>3. QED
        BY <2>2
<1>4. /\ worker' \in [Workers -> WorkerRow]
      /\ worker'[x].event = worker[x].event /\ worker'[x].failed = worker[x].failed
      /\ \A y \in Workers : y # x => worker'[y] = worker[y]
      /\ w \in marked => worker'[x].todo = worker[x].todo
      /\ w \notin marked => worker'[x].todo = worker[x].todo \ {w} /\ worker'[x].eligible = FALSE
    <2>1. CASE w \in marked
        <3> DEFINE row == [worker[x] EXCEPT !.eligible = TRUE]
        <3>1. worker[x] \in WorkerRow
            BY <1>2, Shapes
        <3>2. /\ row \in WorkerRow /\ row.event = worker[x].event /\ row.todo = worker[x].todo
              /\ row.failed = worker[x].failed
            BY <3>1 DEF WorkerRow
        <3>3. Set(x, row)
            BY <1>1, <2>1
        <3> HIDE DEF row
        <3>4. QED
            BY <1>2, <2>1, <3>2, <3>3, Reassigned
    <2>2. CASE w \notin marked
        BY <1>1, <1>2, <2>2, Passes
    <2>3. QED
        BY <2>1, <2>2
<1>5. TypeOK'
    BY <1>1, <1>2, <1>4 DEF TypeOK, WorkerRow, history
<1>6. DebtIsKept' /\ BanIsKept' /\ Unborn' /\ LastKind'
    BY <1>1 DEF Safe, DebtIsKept, BanIsKept, Unborn, LastKind, Standing, history
<1>7. OneTakes' /\ InOrder'
    BY <1>1, <1>3, <1>4, GoesOn DEF history
<1>8. MarkHolds'
    <2>1. ASSUME NEW y \in Workers, NEW v \in Workspaces,
                 worker'[y].eligible, IsNext(y, v)', v \notin raced
          PROVE  v \in marked
        <3>1. CASE y # x
            BY <1>4, <2>1, <3>1 DEF Safe, MarkHolds, IsNext
        <3>2. CASE y = x
            <4>1. w \in marked
                BY <1>4, <2>1, <3>2
            <4>2. IsNext(x, v)
                BY <1>4, <2>1, <3>2, <4>1 DEF IsNext
            <4>3. QED
                BY <1>1, <1>2, <4>1, <4>2, NextIsOne
        <3>3. QED
            BY <3>1, <3>2
    <2>2. QED
        BY <1>1, <2>1 DEF MarkHolds, IsNext, history
<1>9. Pursued'
    <2>1. ASSUME NEW v \in Workspaces, v \notin touched, ~overtaken', Len(feed) \in 1..Len(feed),
                 feed'[Len(feed)].state \notin {"new", "retry", "dead"}, Undone(v)
          PROVE  \E y \in Workers : /\ worker'[y].event = Len(feed)
                                   /\ (worker'[y].failed \/ v \in worker'[y].todo)
        <3>1. PICK y \in Workers : worker[y].event = Len(feed) /\ (worker[y].failed \/ v \in worker[y].todo)
            BY <1>1, <2>1 DEF Safe, Pursued, history
        <3>2. CASE y # x
            BY <1>4, <3>1, <3>2
        <3>3. CASE y = x
            <4>1. v \in marked
                BY <1>1, <2>1, <3>1, <3>3 DEF Undone, Kind
            <4>2. worker[x].failed \/ v \in worker'[x].todo
                BY <1>4, <3>1, <3>3, <4>1
            <4>3. QED
                BY <1>4, <3>1, <3>3, <4>2
        <3>4. QED
            BY <3>2, <3>3
    <2>2. QED
        BY <1>1, <1>2, <2>1, StillPursued DEF history
<1>10. QED
    BY <1>5, <1>6, <1>7, <1>8, <1>9 DEF Safe

LEMMA ApplyFailsSafe ==
    ASSUME Safe, NEW x \in Workers, NEW w \in Workspaces, ApplyFails(x, w)
    PROVE  Safe'
<1> DEFINE row == [worker[x] EXCEPT !.todo = @ \ {w}, !.eligible = FALSE, !.failed = TRUE]
<1>1. /\ UNCHANGED <<org, orgWas, ws, wsWas, marked, births, feed, history, commands>>
      /\ IsNext(x, w) /\ Fault /\ Set(x, row)
    BY DEF ApplyFails
<1>2. TypeOK
    BY DEF Safe
<1>3. worker[x].event # 0
    <2>1. worker[x].todo # {}
        BY <1>1 DEF IsNext
    <2>2. worker[x].event \in 1..Len(feed)
        BY <2>1, Busy
    <2>3. QED
        BY <2>2
<1>4. /\ row \in WorkerRow /\ row.event = worker[x].event
      /\ row.eligible = FALSE /\ row.failed = TRUE
    <2>1. worker[x] \in WorkerRow
        BY <1>2, Shapes
    <2>2. QED
        BY <2>1 DEF WorkerRow
<1> HIDE DEF row
<1>5. /\ worker' \in [Workers -> WorkerRow] /\ worker'[x] = row
      /\ \A y \in Workers : y # x => worker'[y] = worker[y]
    BY <1>1, <1>2, <1>4, Reassigned
<1>6. TypeOK'
    <2>1. faults' \in 0..MaxFaults
        BY <1>1, <1>2, FaultOK
    <2>2. QED
        BY <1>1, <1>2, <1>5, <2>1 DEF TypeOK, WorkerRow, history
<1>7. DebtIsKept' /\ BanIsKept' /\ Unborn' /\ LastKind'
    BY <1>1 DEF Safe, DebtIsKept, BanIsKept, Unborn, LastKind, Standing, history
<1>8. OneTakes' /\ InOrder'
    BY <1>1, <1>3, <1>4, <1>5, GoesOn DEF history
<1>9. MarkHolds'
    BY <1>1, <1>4, <1>5 DEF Safe, MarkHolds, IsNext, history
<1>10. Pursued'
    <2>1. ASSUME NEW v \in Workspaces, v \notin touched, ~overtaken', Len(feed) \in 1..Len(feed),
                 feed'[Len(feed)].state \notin {"new", "retry", "dead"}, Undone(v)
          PROVE  \E y \in Workers : /\ worker'[y].event = Len(feed)
                                   /\ (worker'[y].failed \/ v \in worker'[y].todo)
        <3>1. PICK y \in Workers : worker[y].event = Len(feed) /\ (worker[y].failed \/ v \in worker[y].todo)
            BY <1>1, <2>1 DEF Safe, Pursued, history
        <3>2. QED
            BY <1>4, <1>5, <3>1
    <2>2. QED
        BY <1>1, <1>2, <2>1, StillPursued DEF history
<1>11. QED
    BY <1>6, <1>7, <1>8, <1>9, <1>10 DEF Safe

(* The cascade undoes its own suspensions only, and leaves nothing undone. *)
LEMMA ApplySafe ==
    ASSUME Safe, NEW x \in Workers, NEW w \in Workspaces, Apply(x, w)
    PROVE  Safe'
<1>1. /\ UNCHANGED <<org, orgWas, births, feed, history, commands, faults>>
      /\ IsNext(x, w) /\ (Kind(x) = "reactivate" => worker[x].eligible)
      /\ \/ WorkspaceTransition(w, Kind(x), TRUE)
         \/ /\ ws[w] \notin WORKSPACE_TRANSITION_RULES[Kind(x)].from
            /\ UNCHANGED <<ws, wsWas, marked>>
      /\ Past(x, w)
    BY DEF Apply
<1>2. TypeOK
    BY DEF Safe
<1>3. /\ worker[x].event # 0 /\ worker[x].event \in 1..Len(feed)
      /\ Kind(x) \in {"suspend", "reactivate"}
    <2>1. worker[x].todo # {}
        BY <1>1 DEF IsNext
    <2>2. worker[x].event \in 1..Len(feed) /\ Kind(x) \in {"suspend", "reactivate"}
        BY <2>1, Busy
    <2>3. QED
        BY <2>2
<1>4. /\ worker' \in [Workers -> WorkerRow]
      /\ worker'[x].event = worker[x].event /\ worker'[x].todo = worker[x].todo \ {w}
      /\ worker'[x].eligible = FALSE /\ worker'[x].failed = worker[x].failed
      /\ \A y \in Workers : y # x => worker'[y] = worker[y]
    BY <1>1, <1>2, Passes
(* What it does to the workspace. *)
<1>5. /\ ws' \in [Workspaces -> WorkspaceStatuses]
      /\ wsWas' \in [Workspaces -> [Actions -> WorkspaceStatuses]]
      /\ \A v \in Workspaces : v # w => ws'[v] = ws[v] /\ wsWas'[v] = wsWas[v]
      /\ marked \subseteq marked' /\ marked' \subseteq marked \cup {w}
      /\ Kind(x) = "suspend" => ws'[w] # "active"
      /\ Kind(x) = "reactivate" => ws'[w] # "suspended"
      /\ \/ ws'[w] = ws[w] /\ wsWas'[w] = wsWas[w] /\ marked' = marked
         \/ Kind(x) = "suspend" /\ ws[w] = "active"
         \/ Kind(x) = "reactivate" /\ ws[w] = "suspended"
    <2>1. CASE WorkspaceTransition(w, Kind(x), TRUE)
        <3>1. PICK t \in {"suspend", "reactivate"} : t = Kind(x)
            BY <1>3
        <3>2. t \in WorkspaceTransitions /\ TRUE \in BOOLEAN /\ WorkspaceTransition(w, t, TRUE)
            BY <2>1, <3>1 DEF WorkspaceTransitions
        <3>3. /\ ws' \in [Workspaces -> WorkspaceStatuses]
              /\ wsWas' \in [Workspaces -> [Actions -> WorkspaceStatuses]]
              /\ \A v \in Workspaces : v # w => ws'[v] = ws[v] /\ wsWas'[v] = wsWas[v]
              /\ marked' = IF t # "suspend" THEN marked ELSE marked \cup {w}
            BY <1>2, <3>2, WorkspaceMoves
        <3>4. \/ t = "suspend" /\ ws[w] = "active" /\ ws'[w] = "suspended"
              \/ t = "reactivate" /\ ws[w] = "suspended" /\ ws'[w] = "active"
            BY <1>2, <3>1, <3>2, WorkspaceMoves
        <3>5. QED
            BY <3>1, <3>3, <3>4
    <2>2. CASE ws[w] \notin WORKSPACE_TRANSITION_RULES[Kind(x)].from /\ UNCHANGED <<ws, wsWas, marked>>
        <3>1. /\ Kind(x) = "suspend" => ws[w] # "active"
              /\ Kind(x) = "reactivate" => ws[w] # "suspended"
            BY <2>2, WorkspaceRules
        <3>2. QED
            BY <1>2, <2>2, <3>1 DEF TypeOK
    <2>3. QED
        BY <1>1, <2>1, <2>2
<1>6. TypeOK'
    <2>1. marked' \subseteq Workspaces
        BY <1>2, <1>5 DEF TypeOK
    <2>2. QED
        BY <1>1, <1>2, <1>4, <1>5, <2>1 DEF TypeOK, WorkerRow, history
<1>7. DebtIsKept'
    BY <1>1 DEF Safe, DebtIsKept, history
<1>8. BanIsKept'
    <2>1. banned \subseteq Workspaces /\ banned' = banned /\ raced' = raced
        BY <1>1, <1>2 DEF TypeOK, history
    <2>2. ASSUME w \in banned \ raced
          PROVE  ws'[w] = ws[w] /\ wsWas'[w] = wsWas[w] /\ marked' = marked
        <3>1. ws[w] # "active" /\ w \notin marked
            BY <2>2 DEF Safe, BanIsKept
        <3>2. Kind(x) # "reactivate"
            BY <1>1, <2>2, <3>1 DEF Safe, MarkHolds
        <3>3. QED
            BY <1>5, <3>1, <3>2
    <2>3. QED
        BY <1>5, <2>1, <2>2 DEF Safe, BanIsKept
<1>9. Unborn'
    <2>1. births' = births /\ births \subseteq Workspaces /\ \A v \in births : ws[v] = "none"
        BY <1>1, <1>2 DEF TypeOK, Safe, Unborn
    <2>2. QED
        BY <1>5, <2>1 DEF Unborn
<1>10. MarkHolds'
    <2>1. raced' = raced
        BY <1>1 DEF history
    <2>2. QED
        BY <1>4, <1>5, <2>1 DEF Safe, MarkHolds, IsNext
<1>11. OneTakes' /\ InOrder'
    BY <1>1, <1>3, <1>4, GoesOn DEF history
<1>12. LastKind'
    <2>1. Len(feed) # 0
        BY <1>2, <1>3, Shapes
    <2>2. QED
        BY <1>1, <2>1 DEF Safe, LastKind, Standing
<1>13. Pursued'
    <2>1. touched' = touched /\ feed' = feed /\ overtaken' = overtaken
        BY <1>1 DEF history
    <2>2. ASSUME ~overtaken, Len(feed) > 0, feed[Len(feed)].state \notin {"new", "retry", "dead"},
                 NEW v \in Workspaces \ touched,
                 IF feed[Len(feed)].kind = "suspend" THEN ws'[v] = "active"
                 ELSE ws'[v] = "suspended" /\ v \in marked'
          PROVE  \E y \in Workers : /\ worker'[y].event = Len(feed)
                                   /\ (worker'[y].failed \/ v \in worker'[y].todo)
        <3>1. worker[x].event = Len(feed)
            BY <1>3, <2>2, OnlyTheLast
        <3>2. Kind(x) = feed[Len(feed)].kind
            BY <3>1 DEF Kind
        <3>3. v # w
            BY <1>3, <1>5, <2>2, <3>2
        <3>4. Undone(v)
            BY <1>5, <2>2, <3>3 DEF Undone
        <3>5. PICK y \in Workers : worker[y].event = Len(feed) /\ (worker[y].failed \/ v \in worker[y].todo)
            BY <2>2, <3>4 DEF Safe, Pursued
        <3>6. y = x
            BY <1>3, <3>1, <3>5, Alone
        <3>7. QED
            BY <1>4, <3>3, <3>5, <3>6
    <2>3. QED
        BY <2>1, <2>2 DEF Pursued, Undone
<1>14. QED
    BY <1>6, <1>7, <1>8, <1>9, <1>10, <1>11, <1>12, <1>13 DEF Safe

(* A worker is done with its event, or gives it back. *)
LEMMA ReleasedSafe ==
    ASSUME Safe, NEW x \in Workers, worker[x].event # 0, NEW s \in {"retry", "done", "dead"},
           Mark(worker[x].event, s), Set(x, IdleWorker),
           s = "done" => worker[x].todo = {} /\ ~worker[x].failed,
           UNCHANGED <<org, orgWas, ws, wsWas, marked, births, history, commands>>,
           faults' \in 0..MaxFaults
    PROVE  Safe'
<1>1. TypeOK
    BY DEF Safe
<1>2. PICK i \in 1..Len(feed) : i = worker[x].event /\ feed[i].state = "taken"
    BY Busy
<1>3. Mark(i, s)
    BY <1>2
<1>4. /\ feed' \in Seq(EventRow) /\ Len(feed') = Len(feed) /\ feed'[i].state = s
      /\ \A j \in 1..Len(feed) : j # i => feed'[j] = feed[j]
      /\ \A j \in 1..Len(feed) : feed'[j].kind = feed[j].kind
    BY <1>1, <1>3, Marked
<1>5. IdleWorker \in WorkerRow /\ Len(feed) \in Nat
    BY <1>1, IdleOK, Shapes DEF WorkerRow
<1>6. /\ worker' \in [Workers -> WorkerRow] /\ worker'[x] = IdleWorker
      /\ \A y \in Workers : y # x => worker'[y] = worker[y]
    BY <1>1, <1>5, Reassigned
<1>7. TypeOK'
    <2>1. feed' \in Seq([kind : {"suspend", "reactivate"}, state : {"new", "taken", "retry", "done", "dead"}])
        BY <1>4 DEF EventRow
    <2>2. worker' \in [Workers -> WorkerRow']
        BY <1>4, <1>6 DEF WorkerRow
    <2>3. QED
        BY <1>1, <2>1, <2>2 DEF TypeOK, WorkerRow, history
<1>8. DebtIsKept' /\ BanIsKept' /\ Unborn'
    BY DEF Safe, DebtIsKept, BanIsKept, Unborn, history
<1>9. MarkHolds'
    BY <1>6, IdleOK DEF Safe, MarkHolds, IsNext, history
<1>10. OneTakes'
    <2>1. \A y \in Workers : y # x => worker[y].event # i
        BY <1>2 DEF Safe, OneTakes
    <2>2. \A y \in Workers : worker[y].event \in 0..Len(feed)
        BY <1>1, Shapes
    <2>3. \A y \in Workers : IF worker'[y].event = 0 THEN worker'[y] = IdleWorker
                              ELSE feed'[worker'[y].event].state = "taken"
        BY <1>4, <1>6, <2>1, <2>2, IdleOK, SMTT(30) DEF Safe, OneTakes
    <2>4. \A y, z \in Workers : y # z /\ worker'[y].event # 0 => worker'[y].event # worker'[z].event
        BY <1>6, IdleOK DEF Safe, OneTakes
    <2>5. QED
        BY <2>3, <2>4 DEF OneTakes
<1>11. InOrder'
    <2>1. SUFFICES ASSUME ~overtaken', NEW a \in 1..Len(feed), NEW b \in 1..Len(feed),
                          b < a, feed'[a].state # "new"
                   PROVE  feed'[b].state = "done"
        BY <1>4 DEF InOrder
    <2>2. ~overtaken /\ feed[a].state # "new"
        BY <1>2, <1>4, <2>1 DEF history
    <2>3. feed[b].state = "done"
        BY <2>1, <2>2 DEF Safe, InOrder
    <2>4. QED
        BY <1>2, <1>4, <2>3
<1>12. LastKind'
    BY <1>4, <1>5 DEF Safe, LastKind, Standing
<1>13. Pursued'
    <2>1. ASSUME NEW w \in Workspaces, w \notin touched, ~overtaken', Len(feed) \in 1..Len(feed),
                 feed'[Len(feed)].state \notin {"new", "retry", "dead"}, Undone(w)
          PROVE  \E y \in Workers : /\ worker'[y].event = Len(feed)
                                   /\ (worker'[y].failed \/ w \in worker'[y].todo)
        <3>1. feed[Len(feed)].state \notin {"new", "retry", "dead"} /\ ~overtaken
            BY <1>2, <1>4, <2>1 DEF history
        <3>2. PICK y \in Workers : worker[y].event = Len(feed) /\ (worker[y].failed \/ w \in worker[y].todo)
            BY <1>5, <2>1, <3>1 DEF Safe, Pursued
        <3>3. y # x
            BY <1>2, <1>4, <2>1, <3>2
        <3>4. QED
            BY <1>6, <3>2, <3>3
    <2>2. QED
        BY <1>1, <1>4, <2>1, StillPursued DEF history
<1>14. QED
    BY <1>7, <1>8, <1>9, <1>10, <1>11, <1>12, <1>13 DEF Safe

LEMMA FinishSafe ==
    ASSUME Safe, NEW x \in Workers, Finish(x)
    PROVE  Safe'
<1>1. /\ worker[x].event # 0 /\ worker[x].todo = {}
      /\ \E s \in IF worker[x].failed THEN {"retry", "dead"} ELSE {"done"} : Mark(worker[x].event, s)
      /\ Set(x, IdleWorker)
      /\ UNCHANGED <<org, orgWas, ws, wsWas, marked, births, history, commands, faults>>
    BY DEF Finish
<1>2. faults' \in 0..MaxFaults
    BY <1>1 DEF Safe, TypeOK
<1>3. PICK s \in {"retry", "done", "dead"} :
          Mark(worker[x].event, s) /\ (s = "done" => ~worker[x].failed)
    BY <1>1
<1>4. QED
    BY <1>1, <1>2, <1>3, ReleasedSafe

LEMMA CrashSafe ==
    ASSUME Safe, NEW x \in Workers, Crash(x)
    PROVE  Safe'
<1>1. /\ worker[x].event # 0 /\ Fault
      /\ Mark(worker[x].event, "retry") /\ Set(x, IdleWorker)
      /\ UNCHANGED <<org, orgWas, ws, wsWas, marked, births, history, commands>>
    BY DEF Crash
<1>2. faults' \in 0..MaxFaults
    BY <1>1, FaultOK DEF Safe
<1>3. QED
    BY <1>1, <1>2, ReleasedSafe

-----------------------------------------------------------------------------

LEMMA SafeStep ==
    ASSUME Safe, [Next]_vars
    PROVE  Safe'
<1>1. ASSUME NEW t \in DOMAIN TRANSITION_RULES, OrganizationTransition(t) PROVE Safe'
    BY <1>1, OrganizationRules, OrganizationSafe
<1>2. ASSUME NEW w \in Workspaces, NEW t \in DOMAIN WORKSPACE_TRANSITION_RULES, MoveWorkspace(w, t)
      PROVE  Safe'
    BY <1>2, WorkspaceRules, MoveSafe
<1>3. ASSUME NEW w \in Workspaces, CheckQuota(w) \/ InsertWorkspace(w) PROVE Safe'
    BY <1>3, CheckQuotaSafe, InsertWorkspaceSafe
<1>4. ASSUME ProvisionFails PROVE Safe'
    BY <1>4, ProvisionFailsSafe
<1>5. ASSUME NEW x \in Workers, NEW i \in 1..Len(feed), Take(x, i) \/ TakeAgain(x, i) PROVE Safe'
    BY <1>5, TakeSafe
<1>6. ASSUME NEW x \in Workers, NEW w \in Workspaces, ReadMark(x, w) \/ Apply(x, w) \/ ApplyFails(x, w)
      PROVE  Safe'
    BY <1>6, ReadMarkSafe, ApplySafe, ApplyFailsSafe
<1>7. ASSUME NEW x \in Workers, Finish(x) \/ Crash(x) PROVE Safe'
    BY <1>7, FinishSafe, CrashSafe
<1>8. ASSUME UNCHANGED vars PROVE Safe'
    <2>1. UNCHANGED <<org, orgWas, ws, wsWas, marked, births, feed, worker, owing, banned, touched,
                      raced, overtaken, commands, faults>>
        BY <1>8 DEF vars, history
    <2>2. TypeOK' /\ DebtIsKept' /\ BanIsKept' /\ Unborn'
        BY <2>1 DEF Safe, TypeOK, DebtIsKept, BanIsKept, Unborn
    <2>3. MarkHolds' /\ OneTakes' /\ InOrder'
        BY <2>1 DEF Safe, MarkHolds, IsNext, OneTakes, InOrder
    <2>4. LastKind' /\ Pursued'
        BY <2>1 DEF Safe, LastKind, Standing, Pursued, Undone
    <2>5. QED
        BY <2>2, <2>3, <2>4 DEF Safe
<1>9. QED
    BY <1>1, <1>2, <1>3, <1>4, <1>5, <1>6, <1>7, <1>8 DEF Next, Cascade

LEMMA AlwaysSafe == Spec => []Safe
BY InitSafe, SafeStep, PTL DEF Spec

-----------------------------------------------------------------------------

(***************************************************************************)
(* The two lifecycles, the feed and the workers keep their shapes, for any *)
(* workspaces, processes and faults (organizations/service.ts,             *)
(* workspaces/service.ts, cascade/suspension.ts).                          *)
(***************************************************************************)
THEOREM TypeCorrect == Spec => []TypeOK
<1>1. Safe => TypeOK
    BY DEF Safe
<1>2. QED
    BY <1>1, AlwaysSafe, PTL

(***************************************************************************)
(* No detour through the transitions or the cascade makes an organization  *)
(* that owes active, or a workspace suspended by hand, but for the move by *)
(* hand that a cascade did not see (transition in workspaces/service.ts).  *)
(***************************************************************************)
THEOREM NoPardon == Spec => []NothingIsPardoned
<1>1. Safe => NothingIsPardoned
    BY DEF Safe, DebtIsKept, BanIsKept, NothingIsPardoned
<1>2. QED
    BY <1>1, AlwaysSafe, PTL

(***************************************************************************)
(* Complete cascades leave the workspaces as the organization is, whatever *)
(* failed, crashed and ran again in between (runSuspensionCascade,         *)
(* runReactivationCascade and their handlers).                             *)
(***************************************************************************)
THEOREM CascadesConverge == Spec => []CascadeSettles
<1>1. ASSUME Safe, Settled, ~overtaken, NEW w \in Workspaces \ touched
      PROVE  /\ org = "suspended" => ws[w] # "active"
             /\ org \in {"active", "past_due"} => ~(ws[w] = "suspended" /\ w \in marked)
    <2>1. Len(feed) \in Nat
        BY <1>1, Shapes DEF Safe
    <2>2. \A x \in Workers : worker[x].event = 0
        BY <1>1, Busy DEF Settled
    <2>3. CASE Len(feed) = 0
        BY <1>1, <2>3 DEF Safe, LastKind
    <2>4. CASE Len(feed) > 0
        <3>1. feed[Len(feed)].state = "done"
            BY <1>1, <2>1, <2>4 DEF Settled
        <3>2. ~Undone(w)
            BY <1>1, <2>2, <2>4, <3>1 DEF Safe, Pursued
        <3>3. /\ org = "suspended" => feed[Len(feed)].kind = "suspend"
              /\ org \in {"active", "past_due"} => feed[Len(feed)].kind = "reactivate"
            BY <1>1, <2>4 DEF Safe, LastKind, Standing
        <3>4. QED
            BY <3>2, <3>3 DEF Undone
    <2>5. QED
        BY <2>1, <2>3, <2>4
<1>2. Safe => CascadeSettles
    BY <1>1 DEF CascadeSettles
<1>3. QED
    BY <1>2, AlwaysSafe, PTL

=============================================================================
