------------------------- MODULE MembershipsProofs -------------------------
(***************************************************************************)
(* Proofs about Memberships, for any users, workspaces, offers and faults. *)
(*                                                                         *)
(* The inductive invariant is Safe.  A tier's lock has one holder          *)
(* (Exclusive), so while a change of role or a revocation is in flight the *)
(* only write to its tier is an acceptance, which takes no active          *)
(* membership away (Held), and the other owner it counted on stays         *)
(* (OthersOwn).  A workspace membership that must go has a revocation      *)
(* waiting for it, besides those whose cascade has passed it (Followed).   *)
(***************************************************************************)
EXTENDS Memberships, FiniteSetTheorems, TLAPS

All == Callers \cup Servers

Ops == {"none", "invite", "accept", "changeRole", "revoke", "provision"}

(* TypeOK, transaction by transaction. *)
TxOK(x) == \E t \in Tiers : x \in TransactionOK(t)

Exclusive ==
    \A c, d \in All :
        Locks(tx[c].op) /\ Locks(tx[d].op) /\ tx[c].tier = tx[d].tier => c = d

(* What a transaction of each kind has read, and what it is to write. *)
Purpose(x) ==
    /\ x.op = "invite" => x.was.status \in {"none", "revoked", "lapsed"} /\ x.next.status = "invited"
    /\ x.op = "accept" => x.was.status = "invited"
    /\ x.op = "changeRole" => x.was.status = "active" /\ x.next.status = "active"
    /\ x.op = "revoke" => x.was.status \in {"invited", "lapsed", "active"} /\ x.next.status = "revoked"
    /\ x.op = "provision" =>
          /\ x.tier # Organization
          /\ x.was.status = "none" /\ x.next = Row(OwnerRole(x.tier), "active")

Purposes == \A c \in All : Purpose(tx[c])

Held ==
    \A c \in All :
        Locks(tx[c].op) /\ tx[c].was.status = "active" =>
            member[tx[c].tier][tx[c].user] = tx[c].was

Unmoved ==
    \A c \in All :
        tx[c].op # "none" /\ tx[c].tier # Organization /\ ~tx[c].moved =>
            Stored(member[tx[c].tier][tx[c].user].status) = Stored(tx[c].was.status)

(* It is about to take an owner from its tier. *)
Endangers(x) == x.op \in {"changeRole", "revoke"} /\ x.was = Row(OwnerRole(x.tier), "active")

OthersOwn ==
    \A c \in Callers :
        Endangers(tx[c]) => \E v \in Users \ {tx[c].user} : member[tx[c].tier][v] = tx[c].was

CascadeRow == [user : {{}} \cup {{u} : u \in Users}, todo : SUBSET Workspaces, failed : BOOLEAN]

(* A cascade's transaction is about the workspace it has come to. *)
CascadeAtWork ==
    \A x \in Servers :
        /\ tx[x].op \in {"none", "revoke"}
        /\ tx[x].op = "revoke" =>
              cascade[x].user = {tx[x].user} /\ tx[x].tier \in cascade[x].todo

(* Each cascade has an event of its own. *)
Assigned == \A u \in Users : Cardinality(Serving(u)) <= pending[u]

(* Nobody is invited to a workspace that is not there. *)
Housed == \A c \in All : tx[c].op = "invite" => Exists(tx[c].tier)

Live == {"invited", "lapsed", "active"}

(* u is in w, or about to be, and not in the organization, which was asked. *)
Stray(u, w) ==
    /\ member[Organization][u].status # "active" /\ <<w, u>> \notin unasked
    /\ \/ member[w][u].status \in Live
       \/ \E c \in All : IsAbout(c, w, u) /\ tx[c].op = "invite"

(* The cascades about u that have been through w. *)
Passed(u, w) == {x \in Serving(u) : ~cascade[x].failed /\ w \notin cascade[x].todo}

Followed ==
    \A u \in Users, w \in Workspaces : Stray(u, w) => Cardinality(Passed(u, w)) < pending[u]

Safe ==
    /\ TypeOK /\ Exclusive /\ Purposes /\ Held /\ Unmoved /\ OthersOwn
    /\ CascadeAtWork /\ Assigned /\ Housed /\ OwnersRemain /\ Followed

-----------------------------------------------------------------------------

LEMMA Tiers0 ==
    /\ 0 \in Tiers /\ Workspaces \subseteq Tiers /\ 0 \notin Workspaces
    /\ \A t \in Tiers : t # 0 => t \in Workspaces
    /\ Callers \subseteq All /\ Servers \subseteq All
    /\ \A x \in Servers : x \notin Callers
    /\ Founder \in Users
BY TiersAssumption, PeopleAssumption DEF Tiers, Organization, All

(* Every tier's roles contain its owner's. *)
LEMMA Roles ==
    /\ \A t \in Tiers : OwnerRole(t) \in RolesOf(t)
    /\ "org_member" \in RolesOf(0)
    /\ \A t \in Tiers : Offered[t] \subseteq RolesOf(t)
    /\ \A w \in Workspaces : OwnerRole(w) = "workspace_admin"
<1>1. DOMAIN GRANTS = {"org_owner", "org_admin", "billing_admin", "org_member",
                       "workspace_admin", "editor", "contributor", "viewer"}
    BY Zenon DEF GRANTS
<1>2. QED
    BY <1>1, TiersAssumption DEF OwnerRole, RolesOf, OrganizationRoles, Organization

LEMMA IdleOK == Idle \in TransactionOK(0) /\ Purpose(Idle) /\ Idle.op = "none" /\ TxOK(Idle)
BY Tiers0, Roles DEF Idle, TransactionOK, RowOK, NoRow, Row, Statuses, Purpose, TxOK

(* Servers are few enough to count. *)
LEMMA Counting ==
    /\ \A S \in SUBSET Servers : IsFiniteSet(S) /\ Cardinality(S) \in Nat
    /\ \A S \in SUBSET Servers : \A T \in SUBSET S : Cardinality(T) <= Cardinality(S)
<1>1. \A S \in SUBSET Servers : IsFiniteSet(S)
    BY PeopleAssumption, FS_Subset
<1>2. \A S \in SUBSET Servers : Cardinality(S) \in Nat
    BY <1>1, FS_CardinalityType
<1>3. \A S \in SUBSET Servers : \A T \in SUBSET S : Cardinality(T) <= Cardinality(S)
    BY <1>1, FS_Subset
<1>4. QED
    BY <1>1, <1>2, <1>3

(* What the shape of a transaction says field by field. *)
LEMMA Fields ==
    ASSUME NEW x, TxOK(x)
    PROVE  /\ x.op \in Ops /\ x.tier \in Tiers /\ x.user \in Users
           /\ x.was \in RowOK(x.tier) /\ x.next \in RowOK(x.tier) /\ x.moved \in BOOLEAN
           /\ x.was.status \in Statuses
           /\ x = [op |-> x.op, tier |-> x.tier, user |-> x.user, was |-> x.was,
                   next |-> x.next, moved |-> x.moved]
<1>1. PICK t \in Tiers : x \in TransactionOK(t)
    BY DEF TxOK
<1>2. QED
    BY <1>1 DEF TransactionOK, Ops, RowOK

LEMMA Shapes ==
    ASSUME TypeOK
    PROVE  /\ DOMAIN tx = All /\ \A c \in All : TxOK(tx[c])
           /\ \A t \in Tiers, u \in Users :
                 /\ member[t][u] \in RowOK(t)
                 /\ member[t][u].status \in Statuses
                 /\ member[t][u] = Row(member[t][u].role, member[t][u].status)
BY DEF TypeOK, All, TxOK, RowOK, Row

-----------------------------------------------------------------------------

(* Nothing has happened yet. *)
LEMMA InitSafe == ASSUME Init PROVE Safe
<1>1. TypeOK
    <2>1. \A t \in Tiers : member[t] \in [Users -> RowOK(t)]
        BY Tiers0, Roles DEF Init, RowOK, Row, NoRow, Statuses, Organization
    <2>2. DOMAIN member = Tiers
        BY DEF Init
    <2>3. DOMAIN tx = Callers \cup Servers /\ \A c \in DOMAIN tx : \E t \in Tiers : tx[c] \in TransactionOK(t)
        BY Tiers0, IdleOK DEF Init
    <2>4. cascade \in [Servers -> CascadeRow]
        BY DEF Init, NoCascade, CascadeRow
    <2>5. pending \in [Users -> Nat] /\ unasked \subseteq Workspaces \X Users /\ orphaned \subseteq Workspaces
          /\ commands \in 0..MaxCommands /\ faults \in 0..MaxFaults
        BY BoundsAssumption DEF Init
    <2>6. QED
        BY <2>1, <2>2, <2>3, <2>4, <2>5 DEF TypeOK, CascadeRow
<1>2. \A c \in All : tx[c] = Idle
    BY DEF Init, All
<1>3. Exclusive /\ Purposes /\ Held /\ Unmoved /\ OthersOwn
    BY <1>2, Tiers0, IdleOK DEF Exclusive, Purposes, Held, Unmoved, OthersOwn, Endangers, Locks
<1>4. CascadeAtWork /\ Housed
    BY <1>2, Tiers0, IdleOK DEF CascadeAtWork, Housed
<1>8. Assigned
    <2>1. \A u \in Users : Serving(u) = {} /\ pending[u] = 0
        BY DEF Init, NoCascade, Serving
    <2>2. QED
        BY <2>1, FS_EmptySet DEF Assigned
<1>5. OwnersRemain
    <2>1. \A t \in Tiers : t = 0 \/ t \in Provisioned => Founder \in ActiveOwners(t)
        BY Tiers0 DEF Init, ActiveOwners, Row, Organization
    <2>2. \A t \in Tiers : t # 0 /\ t \notin Provisioned => ~Exists(t)
        BY DEF Init, Exists, Row, NoRow, Organization
    <2>3. QED
        BY <2>1, <2>2 DEF OwnersRemain
<1>6. Followed
    <2>1. ASSUME NEW u \in Users, NEW w \in Workspaces PROVE ~Stray(u, w)
        <3>1. CASE u = Founder
            BY <3>1, Tiers0 DEF Init, Stray, Row, Organization
        <3>2. CASE u # Founder
            BY <3>2, <1>2, Tiers0, IdleOK DEF Init, Stray, Row, NoRow, Live, IsAbout, Organization
        <3>3. QED
            BY <3>1, <3>2
    <2>2. QED
        BY <2>1 DEF Followed
<1>7. QED
    BY <1>1, <1>3, <1>4, <1>5, <1>6, <1>8 DEF Safe

-----------------------------------------------------------------------------

(***************************************************************************)
(* A transaction begins: of a caller for one of the five calls, or of a    *)
(* cascade.                                                                *)
(***************************************************************************)
LEMMA BeginStep ==
    ASSUME Safe, NEW c \in All, NEW op \in Ops \ {"none"}, NEW t \in Tiers, NEW u \in Users,
           NEW next \in RowOK(t),
           Begin(c, op, t, u, next), UNCHANGED <<member, pending, cascade, orphaned, unasked>>,
           commands' \in 0..MaxCommands, faults' \in 0..MaxFaults,
           Locks(op) => Unlocked(t),
           Purpose([op |-> op, tier |-> t, user |-> u, was |-> member[t][u], next |-> next,
                    moved |-> FALSE]),
           c \in Callers /\ op \in {"changeRole", "revoke"} => NotLast(t, u),
           op = "invite" /\ t # Organization => member[Organization][u].status = "active",
           op = "invite" => Exists(t),
           c \in Servers => op = "revoke" /\ cascade[c].user = {u} /\ t \in cascade[c].todo
    PROVE  Safe'
<1> DEFINE x == [op |-> op, tier |-> t, user |-> u, was |-> member[t][u], next |-> next, moved |-> FALSE]
<1>1. /\ x.op = op /\ x.tier = t /\ x.user = u /\ x.was = member[t][u] /\ x.next = next /\ x.moved = FALSE
    OBVIOUS
<1>2. TxOK(x)
    BY Shapes DEF Safe, TxOK, TransactionOK, Ops
<1>3. Purpose(x)
    OBVIOUS
<1>4. /\ DOMAIN tx' = All /\ tx'[c] = x /\ tx[c] = Idle
      /\ \A d \in All : d # c => tx'[d] = tx[d]
    BY Shapes DEF Safe, Begin
<1> HIDE DEF x
<1>5. TypeOK'
    <2>1. \A d \in All : TxOK(tx'[d])
        BY <1>2, <1>4, Shapes DEF Safe
    <2>2. QED
        BY <2>1, <1>4 DEF Safe, TypeOK, TxOK, All
<1>6. Exclusive'
    <2>1. ASSUME NEW d \in All, d # c, Locks(tx'[d].op), Locks(x.op), tx'[d].tier = t PROVE FALSE
        BY <2>1, <1>1, <1>4, Shapes DEF Safe, Unlocked, Locks
    <2>2. QED
        BY <2>1, <1>1, <1>4 DEF Safe, Exclusive
<1>7. Purposes'
    BY <1>3, <1>4 DEF Safe, Purposes
<1>8. Held'
    BY <1>1, <1>4 DEF Safe, Held
<1>9. Unmoved'
    BY <1>1, <1>4 DEF Safe, Unmoved
<1>10. OthersOwn'
    <2>2. ASSUME c \in Callers, Endangers(x)
          PROVE  \E v \in Users \ {u} : member[t][v] = x.was
        <3>1. u \in ActiveOwners(t) /\ ActiveOwners(t) \subseteq Users
              /\ \A v \in ActiveOwners(t) : member[t][v] = x.was
            BY <2>2, <1>1 DEF ActiveOwners, Endangers
        <3>2. Cardinality(ActiveOwners(t)) > 1
            BY <3>1, <2>2, <1>1 DEF NotLast, Endangers
        <3>3. Cardinality({u}) = 1
            BY FS_Singleton
        <3>4. ActiveOwners(t) # {u}
            BY <3>2, <3>3
        <3>5. QED
            BY <3>1, <3>4
    <2>3. QED
        BY <2>2, <1>1, <1>4, Tiers0 DEF Safe, OthersOwn
<1>11. CascadeAtWork' /\ Assigned' /\ Housed'
    <2>1. CascadeAtWork'
        BY <1>1, <1>4, Tiers0 DEF Safe, CascadeAtWork
    <2>2. Assigned'
        BY DEF Safe, Assigned, Serving
    <2>3. Housed'
        BY <1>1, <1>4 DEF Safe, Housed, Exists
    <2>4. QED
        BY <2>1, <2>2, <2>3
<1>12. OwnersRemain'
    BY DEF Safe, OwnersRemain, ActiveOwners, Exists
<1>13. Followed'
    <2>1. ASSUME NEW v \in Users, NEW w \in Workspaces, Stray(v, w)' PROVE Stray(v, w)
        <3>1. ASSUME NEW d \in All, IsAbout(d, w, v)', tx'[d].op = "invite"
              PROVE  IsAbout(d, w, v) /\ tx[d].op = "invite"
            <4>1. d # c
                BY <3>1, <2>1, <1>1, <1>4, Tiers0 DEF IsAbout, Stray, Organization
            <4>2. QED
                BY <4>1, <3>1, <1>4 DEF IsAbout
        <3>2. QED
            BY <3>1, <2>1 DEF Stray
    <2>2. \A v \in Users, w \in Workspaces : Passed(v, w)' = Passed(v, w)
        BY DEF Passed, Serving
    <2>3. QED
        BY <2>1, <2>2 DEF Safe, Followed
<1>14. QED
    BY <1>5, <1>6, <1>7, <1>8, <1>9, <1>10, <1>11, <1>12, <1>13 DEF Safe

(* A transaction is given up: a conflict, or a lost caller. *)
LEMMA DropStep ==
    ASSUME Safe, NEW c \in Callers, tx' = [tx EXCEPT ![c] = Idle],
           UNCHANGED <<member, pending, cascade, orphaned, unasked>>,
           commands' \in 0..MaxCommands, faults' \in 0..MaxFaults
    PROVE  Safe'
<1>1. /\ DOMAIN tx' = All /\ tx'[c] = Idle /\ c \in All
      /\ \A d \in All : d # c => tx'[d] = tx[d]
    BY Shapes, Tiers0 DEF Safe
<1>2. TypeOK'
    <2>1. \A d \in All : TxOK(tx'[d])
        BY <1>1, IdleOK, Shapes DEF Safe
    <2>2. QED
        BY <2>1, <1>1 DEF Safe, TypeOK, TxOK, All
<1>3. Exclusive' /\ Purposes' /\ Held' /\ Unmoved'
    BY <1>1, IdleOK DEF Safe, Exclusive, Purposes, Held, Unmoved, Locks
<1>4. OthersOwn'
    BY <1>1, IdleOK, Tiers0 DEF Safe, OthersOwn, Endangers
<1>5. CascadeAtWork' /\ OwnersRemain' /\ Assigned' /\ Housed'
    <2>1. CascadeAtWork' /\ Assigned'
        BY <1>1, Tiers0 DEF Safe, CascadeAtWork, Assigned, Serving
    <2>2. OwnersRemain' /\ Housed'
        BY <1>1, IdleOK DEF Safe, Housed, OwnersRemain, ActiveOwners, Exists
    <2>3. QED
        BY <2>1, <2>2
<1>6. Followed'
    <2>1. ASSUME NEW v \in Users, NEW w \in Workspaces, Stray(v, w)' PROVE Stray(v, w)
        BY <2>1, <1>1, IdleOK DEF Stray, IsAbout
    <2>2. QED
        BY <2>1 DEF Safe, Followed, Passed, Serving
<1>7. QED
    BY <1>2, <1>3, <1>4, <1>5, <1>6 DEF Safe

-----------------------------------------------------------------------------

(* The update's WHERE finds the status that was read, up to its lapse. *)
LEMMA AsRead ==
    ASSUME Safe, NEW c \in All, tx[c].op # "none", StillAsRead(c)
    PROVE  Stored(member[tx[c].tier][tx[c].user].status) = Stored(tx[c].was.status)
BY DEF Safe, Unmoved, StillAsRead

LEMMA ResultOK ==
    ASSUME Safe, NEW c \in All, tx[c].op # "none", StillAsRead(c)
    PROVE  /\ Result(c) \in RowOK(tx[c].tier)
           /\ Result(c).status = (IF tx[c].op = "invite" THEN "invited"
                                  ELSE IF tx[c].op = "revoke" THEN "revoked" ELSE "active")
<1>1. TxOK(tx[c]) /\ tx[c].op \in Ops /\ tx[c].tier \in Tiers /\ tx[c].user \in Users
      /\ tx[c].next \in RowOK(tx[c].tier)
    BY Shapes, Fields DEF Safe
<1>2. member[tx[c].tier][tx[c].user] \in RowOK(tx[c].tier)
    BY <1>1, Shapes DEF Safe
<1>3. CASE tx[c].op = "accept"
    BY <1>2, <1>3 DEF Result, Row, RowOK, Statuses
<1>4. CASE tx[c].op # "accept"
    <2>1. tx[c].op \in {"invite", "changeRole", "revoke", "provision"} /\ Result(c) = tx[c].next
        BY <1>1, <1>4 DEF Result, Ops
    <2>2. Purpose(tx[c])
        BY DEF Safe, Purposes
    <2>3. tx[c].op = "provision" => tx[c].next.status = "active"
        BY <2>2 DEF Purpose, Row
    <2>4. QED
        BY <1>1, <2>1, <2>2, <2>3 DEF Purpose
<1>5. QED
    BY <1>3, <1>4

(* What a write leaves in the rows and in the other transactions. *)
LEMMA Written ==
    ASSUME Safe, NEW c \in All, tx[c].op # "none", StillAsRead(c), Rows(c)
    PROVE  /\ DOMAIN member' = Tiers /\ DOMAIN tx' = All
           /\ \A t \in Tiers : member'[t] \in [Users -> RowOK(t)]
           /\ member'[tx[c].tier][tx[c].user] = Result(c)
           /\ \A t \in Tiers, u \in Users :
                 t # tx[c].tier \/ u # tx[c].user => member'[t][u] = member[t][u]
           /\ tx'[c] = Idle /\ unasked' = Unasked(c)
           /\ \A d \in All \ {c} :
                 /\ TxOK(tx'[d])
                 /\ tx'[d].op = tx[d].op /\ tx'[d].tier = tx[d].tier /\ tx'[d].user = tx[d].user
                 /\ tx'[d].was = tx[d].was /\ tx'[d].next = tx[d].next
                 /\ ~tx'[d].moved => ~tx[d].moved
                 /\ tx[d].op # "none" /\ tx[d].tier = tx[c].tier /\ tx[d].user = tx[c].user
                       /\ tx[d].tier # 0 => tx'[d].moved
<1> DEFINE t == tx[c].tier
           u == tx[c].user
<1>1. TxOK(tx[c]) /\ t \in Tiers /\ u \in Users
    BY Shapes, Fields DEF Safe
<1>2. Result(c) \in RowOK(t)
    BY ResultOK
<1>3. DOMAIN member = Tiers /\ \A s \in Tiers : member[s] \in [Users -> RowOK(s)]
    BY DEF Safe, TypeOK
<1>4. member' = [member EXCEPT ![t] = [member[t] EXCEPT ![u] = Result(c)]]
    BY DEF Rows
<1>5. member'[t] = [member[t] EXCEPT ![u] = Result(c)]
      /\ DOMAIN member' = Tiers
      /\ \A s \in Tiers : s # t => member'[s] = member[s]
    BY <1>1, <1>3, <1>4
<1>6. member'[t] \in [Users -> RowOK(t)] /\ member'[t][u] = Result(c)
      /\ \A v \in Users : v # u => member'[t][v] = member[t][v]
    BY <1>1, <1>2, <1>3, <1>5
<1>7. DOMAIN tx = All
    BY Shapes DEF Safe
<1>8. tx' = [d \in All |-> IF d = c THEN Idle
                           ELSE IF IsAbout(d, t, u) /\ t # Organization
                                THEN [tx[d] EXCEPT !.moved = TRUE] ELSE tx[d]]
    BY <1>7 DEF Rows
<1>9. tx'[c] = Idle /\ DOMAIN tx' = All /\ unasked' = Unasked(c)
    BY <1>8 DEF Rows
<1>10. ASSUME NEW d \in All \ {c}
       PROVE  /\ TxOK(tx'[d])
              /\ tx'[d].op = tx[d].op /\ tx'[d].tier = tx[d].tier /\ tx'[d].user = tx[d].user
              /\ tx'[d].was = tx[d].was /\ tx'[d].next = tx[d].next
              /\ ~tx'[d].moved => ~tx[d].moved
              /\ tx[d].op # "none" /\ tx[d].tier = t /\ tx[d].user = u /\ tx[d].tier # 0 => tx'[d].moved
    <2>1. TxOK(tx[d])
        BY Shapes DEF Safe
    <2>2. PICK s \in Tiers : tx[d] \in TransactionOK(s)
        BY <2>1 DEF TxOK
    <2>3. CASE IsAbout(d, t, u) /\ t # Organization
        <3>1. tx'[d] = [tx[d] EXCEPT !.moved = TRUE]
            BY <1>8, <2>3
        <3>2. tx'[d] \in TransactionOK(s) /\ tx'[d].moved
              /\ tx'[d].op = tx[d].op /\ tx'[d].tier = tx[d].tier /\ tx'[d].user = tx[d].user
              /\ tx'[d].was = tx[d].was /\ tx'[d].next = tx[d].next
            BY <3>1, <2>2 DEF TransactionOK
        <3>3. QED
            BY <3>2 DEF TxOK
    <2>4. CASE ~(IsAbout(d, t, u) /\ t # Organization)
        <3>1. tx'[d] = tx[d]
            BY <1>8, <2>4
        <3>2. QED
            BY <3>1, <2>1, <2>4 DEF IsAbout, Organization
    <2>5. QED
        BY <2>3, <2>4
<1> HIDE DEF t, u
<1>11. /\ \A s \in Tiers : member'[s] \in [Users -> RowOK(s)]
       /\ \A s \in Tiers, v \in Users : s # t \/ v # u => member'[s][v] = member[s][v]
    BY <1>3, <1>5, <1>6
<1>12. QED
    BY <1>5, <1>6, <1>9, <1>10, <1>11 DEF t, u

(* The parts of the invariant a write disturbs, whoever's it is. *)
LEMMA WriteStep ==
    ASSUME Safe, NEW c \in All, tx[c].op # "none", StillAsRead(c), Rows(c)
    PROVE  /\ Exclusive' /\ Purposes' /\ Held' /\ Unmoved' /\ OthersOwn'
           /\ \A t \in Tiers : t # tx[c].tier => ActiveOwners(t)' = ActiveOwners(t)
<1> DEFINE t == tx[c].tier
           u == tx[c].user
<1>1. TxOK(tx[c]) /\ t \in Tiers /\ u \in Users /\ tx[c].op \in Ops
    BY Shapes, Fields DEF Safe
<1>2. \A d \in All : TxOK(tx[d]) /\ tx[d].tier \in Tiers /\ tx[d].user \in Users
    BY Shapes, Fields DEF Safe
<1>3. /\ member'[t][u] = Result(c)
      /\ \A s \in Tiers, v \in Users : s # t \/ v # u => member'[s][v] = member[s][v]
      /\ tx'[c] = Idle
      /\ \A d \in All \ {c} :
            /\ tx'[d].op = tx[d].op /\ tx'[d].tier = tx[d].tier /\ tx'[d].user = tx[d].user
            /\ tx'[d].was = tx[d].was /\ tx'[d].next = tx[d].next
            /\ ~tx'[d].moved => ~tx[d].moved
            /\ tx[d].op # "none" /\ tx[d].tier = t /\ tx[d].user = u /\ t # 0 => tx'[d].moved
    BY Written
<1>4. Stored(member[t][u].status) = Stored(tx[c].was.status)
    BY AsRead
<1>5. tx'[c].op = "none" /\ Purpose(tx'[c])
    BY <1>3, IdleOK
(* Beside a transaction that holds the lock only whoever is not active is written. *)
<1>6. ASSUME NEW d \in All \ {c}, Locks(tx[d].op), tx[d].tier = t
      PROVE  member[t][u].status # "active"
    <2>1. ~Locks(tx[c].op)
        BY <1>6, <1>1 DEF Safe, Exclusive
    <2>2. tx[c].op \in {"accept", "provision"}
        BY <2>1, <1>1 DEF Locks, Ops
    <2>3. tx[c].was.status \in {"invited", "none"}
        BY <2>2 DEF Safe, Purposes, Purpose
    <2>4. QED
        BY <2>2, <2>3, <1>4 DEF Stored
<1> HIDE DEF t, u
<1>7. Exclusive'
    BY <1>3, <1>5 DEF Safe, Exclusive, Locks
<1>8. Purposes'
    <2>1. ASSUME NEW d \in All \ {c} PROVE Purpose(tx'[d])
        BY <1>3 DEF Safe, Purposes, Purpose
    <2>2. QED
        BY <2>1, <1>5 DEF Purposes
<1>9. Held'
    <2>1. ASSUME NEW d \in All \ {c}, Locks(tx[d].op), tx[d].was.status = "active"
          PROVE  member'[tx[d].tier][tx[d].user] = tx[d].was
        <3>1. member[tx[d].tier][tx[d].user] = tx[d].was
            BY <2>1 DEF Safe, Held
        <3>2. CASE tx[d].tier = t /\ tx[d].user = u
            BY <3>1, <3>2, <2>1, <1>6
        <3>3. CASE tx[d].tier # t \/ tx[d].user # u
            BY <3>1, <3>3, <1>2, <1>3
        <3>4. QED
            BY <3>2, <3>3
    <2>2. QED
        BY <2>1, <1>3, <1>5 DEF Held, Locks
<1>10. Unmoved'
    <2>1. ASSUME NEW d \in All \ {c}, tx[d].op # "none", tx[d].tier # Organization, ~tx'[d].moved
          PROVE  Stored(member'[tx[d].tier][tx[d].user].status) = Stored(tx[d].was.status)
        <3>1. tx[d].tier # t \/ tx[d].user # u
            BY <2>1, <1>3 DEF Organization
        <3>2. ~tx[d].moved
            BY <2>1, <1>3
        <3>3. QED
            BY <3>1, <3>2, <2>1, <1>2, <1>3 DEF Safe, Unmoved
    <2>2. QED
        BY <2>1, <1>3, <1>5 DEF Unmoved
<1>11. \A s \in Tiers : s # t => ActiveOwners(s)' = ActiveOwners(s)
    BY <1>3 DEF ActiveOwners
<1>12. OthersOwn'
    <2>1. ASSUME NEW d \in Callers, Endangers(tx'[d])
          PROVE  \E v \in Users \ {tx'[d].user} : member'[tx'[d].tier][v] = tx'[d].was
        <3>1. d \in All \ {c}
            BY <2>1, <1>5, Tiers0 DEF Endangers
        <3>2. tx'[d].op = tx[d].op /\ tx'[d].tier = tx[d].tier /\ tx'[d].user = tx[d].user
              /\ tx'[d].was = tx[d].was
            BY <3>1, <1>3
        <3>3. Endangers(tx[d])
            BY <3>2, <2>1 DEF Endangers
        <3>4. PICK v \in Users \ {tx[d].user} : member[tx[d].tier][v] = tx[d].was
            BY <3>3 DEF Safe, OthersOwn
        <3>5. CASE tx[d].tier = t /\ v = u
            <4>1. member[t][u].status # "active"
                BY <3>1, <3>3, <3>5, <1>6 DEF Locks, Endangers
            <4>2. QED
                BY <4>1, <3>3, <3>4, <3>5 DEF Endangers, Row
        <3>6. CASE tx[d].tier # t \/ v # u
            BY <3>1, <3>2, <3>4, <3>6, <1>2, <1>3
        <3>7. QED
            BY <3>5, <3>6
    <2>2. QED
        BY <2>1 DEF OthersOwn
<1>13. QED
    BY <1>7, <1>8, <1>9, <1>10, <1>11, <1>12 DEF t

(* A workspace comes into being with its provisioning, and stays. *)
LEMMA WrittenExists ==
    ASSUME Safe, NEW c \in All, tx[c].op # "none", StillAsRead(c), Rows(c), NEW t \in Tiers
    PROVE  /\ Exists(t) => Exists(t)'
           /\ Exists(t)' => Exists(t) \/ (t = tx[c].tier /\ tx[c].op = "provision")
<1>1. TxOK(tx[c]) /\ tx[c].tier \in Tiers /\ tx[c].user \in Users /\ tx[c].op \in Ops
    BY Shapes, Fields DEF Safe
<1>2. /\ member'[tx[c].tier][tx[c].user] = Result(c)
      /\ \A s \in Tiers, v \in Users : s # tx[c].tier \/ v # tx[c].user => member'[s][v] = member[s][v]
    BY Written
<1>3. Result(c).status # "none"
    BY ResultOK
<1>4. Exists(t) => Exists(t)'
    BY <1>2, <1>3 DEF Exists
<1>5. ASSUME Exists(t)', t # tx[c].tier \/ tx[c].op # "provision" PROVE Exists(t)
    <2>1. PICK v \in Users : member'[t][v].status # "none"
        BY <1>5 DEF Exists
    <2>2. CASE t # tx[c].tier \/ v # tx[c].user
        BY <1>2, <2>1, <2>2 DEF Exists
    <2>3. CASE t = tx[c].tier /\ v = tx[c].user /\ tx[c].op # "invite"
        <3>1. tx[c].was.status \in {"invited", "active", "lapsed"}
            BY <1>1, <1>5, <2>3 DEF Safe, Purposes, Purpose, Ops
        <3>2. Stored(member[t][v].status) = Stored(tx[c].was.status)
            BY <2>3, AsRead
        <3>3. member[t][v].status # "none"
            BY <3>1, <3>2 DEF Stored
        <3>4. QED
            BY <3>3 DEF Exists
    <2>4. CASE t = tx[c].tier /\ tx[c].op = "invite"
        BY <2>4 DEF Safe, Housed
    <2>5. QED
        BY <2>2, <2>3, <2>4
<1>6. QED
    BY <1>4, <1>5

(* Who is not asked about any more has been removed or accepted. *)
LEMMA StillUnasked ==
    ASSUME NEW c, NEW w, NEW u, <<w, u>> \in unasked, <<w, u>> \notin Unasked(c)
    PROVE  /\ tx[c].user = u
           /\ \/ tx[c].op = "revoke" /\ tx[c].tier = w
              \/ tx[c].op = "accept" /\ tx[c].tier = 0
<1>1. CASE tx[c].op = "provision" /\ member[Organization][tx[c].user].status # "active"
    BY <1>1 DEF Unasked
<1>2. CASE tx[c].op = "revoke"
    BY <1>2 DEF Unasked
<1>3. CASE tx[c].op = "accept" /\ tx[c].tier = Organization
    BY <1>3 DEF Unasked, Organization
<1>4. CASE /\ ~(tx[c].op = "provision" /\ member[Organization][tx[c].user].status # "active")
           /\ tx[c].op # "revoke" /\ ~(tx[c].op = "accept" /\ tx[c].tier = Organization)
    BY <1>4 DEF Unasked
<1>5. QED
    BY <1>1, <1>2, <1>3, <1>4

(* Only a removal from the organization makes somebody a stray. *)
LEMMA WrittenStrays ==
    ASSUME Safe, NEW c \in All, tx[c].op # "none", StillAsRead(c), Rows(c),
           NEW u \in Users, NEW w \in Workspaces, Stray(u, w)'
    PROVE  /\ \/ Stray(u, w)
              \/ /\ tx[c].tier = 0 /\ tx[c].user = u /\ tx[c].op = "revoke"
                 /\ member[0][u].status = "active"
           /\ ~(tx[c].tier = w /\ tx[c].user = u /\ tx[c].op = "revoke")
<1>1. TxOK(tx[c]) /\ tx[c].tier \in Tiers /\ tx[c].user \in Users /\ tx[c].op \in Ops
    BY Shapes, Fields DEF Safe
<1>2. /\ member'[tx[c].tier][tx[c].user] = Result(c)
      /\ \A s \in Tiers, v \in Users : s # tx[c].tier \/ v # tx[c].user => member'[s][v] = member[s][v]
      /\ tx'[c] = Idle /\ unasked' = Unasked(c)
      /\ \A d \in All \ {c} :
            tx'[d].op = tx[d].op /\ tx'[d].tier = tx[d].tier /\ tx'[d].user = tx[d].user
    BY Written
<1>3. Result(c).status = (IF tx[c].op = "invite" THEN "invited"
                          ELSE IF tx[c].op = "revoke" THEN "revoked" ELSE "active")
    BY ResultOK
<1>4. Stored(member[tx[c].tier][tx[c].user].status) = Stored(tx[c].was.status)
    BY AsRead
<1>5. /\ w \in Tiers /\ 0 \in Tiers /\ w # 0
      /\ member[w][u].status \in Statuses /\ tx[c].was.status \in Statuses
    BY <1>1, Tiers0, Shapes, Fields DEF Safe
<1>6. /\ member'[0][u].status # "active"
      /\ member'[w][u].status \in Live \/ \E d \in All : IsAbout(d, w, u)' /\ tx'[d].op = "invite"
    BY DEF Stray, Organization
<1>7. ASSUME NEW d \in All, IsAbout(d, w, u)', tx'[d].op = "invite"
      PROVE  d # c /\ IsAbout(d, w, u) /\ tx[d].op = "invite"
    <2>1. d # c
        BY <1>7, <1>2, IdleOK
    <2>2. QED
        BY <2>1, <1>7, <1>2 DEF IsAbout
<1>13. /\ <<w, u>> \notin Unasked(c)
       /\ tx[c].user # u \/ tx[c].tier \notin {0, w} => <<w, u>> \notin unasked
       /\ tx[c].tier = 0 /\ tx[c].op # "accept" => <<w, u>> \notin unasked
       /\ tx[c].tier = w /\ tx[c].op # "revoke" => <<w, u>> \notin unasked
    <2>1. <<w, u>> \notin Unasked(c)
        BY <1>2 DEF Stray
    <2>2. QED
        BY <2>1, <1>5, StillUnasked
<1>8. CASE tx[c].user # u
    BY <1>8, <1>2, <1>5, <1>6, <1>7, <1>13 DEF Stray, Organization
<1>9. CASE tx[c].user = u /\ tx[c].tier # 0 /\ tx[c].tier # w
    BY <1>9, <1>2, <1>5, <1>6, <1>7, <1>13 DEF Stray, Organization
(* In the organization: who was no active member before has not become one. *)
<1>10. CASE tx[c].user = u /\ tx[c].tier = 0
    <2>1. member'[0][u].status = Result(c).status /\ member'[w][u] = member[w][u]
        BY <1>10, <1>2, <1>5
    <2>2. tx[c].op \in {"invite", "revoke"}
        BY <2>1, <1>1, <1>3, <1>6 DEF Ops
    <2>3. tx[c].op = "invite" => member[0][u].status # "active"
        BY <1>4, <1>10 DEF Safe, Purposes, Purpose, Stored
    <2>4. member[0][u].status # "active" => Stray(u, w)
        BY <2>1, <2>2, <1>6, <1>7, <1>10, <1>13 DEF Stray, Organization
    <2>5. QED
        BY <2>2, <2>3, <2>4, <1>5, <1>10
(* In the workspace: the row was one already, or an invitation in flight. *)
<1>11. CASE tx[c].user = u /\ tx[c].tier = w
    <2>1. member'[w][u].status = Result(c).status /\ member'[0][u] = member[0][u]
        BY <1>11, <1>2, <1>5
    <2>2. CASE tx[c].op = "invite"
        BY <2>1, <2>2, <1>1, <1>5, <1>6, <1>11, <1>13 DEF Stray, IsAbout, Organization
    <2>3. CASE tx[c].op \in {"accept", "changeRole"}
        <3>1. member[w][u].status \in Live
            BY <2>3, <1>4, <1>5, <1>11 DEF Safe, Purposes, Purpose, Stored, Live, Statuses
        <3>2. QED
            BY <3>1, <2>1, <2>3, <1>6, <1>11, <1>13 DEF Stray, Organization
    (* The lock is held: no invitation of the workspace is in flight. *)
    <2>4. CASE tx[c].op = "revoke"
        <3>1. PICK d \in All : d # c /\ IsAbout(d, w, u) /\ tx[d].op = "invite"
            BY <2>1, <2>4, <1>3, <1>6, <1>7 DEF Live
        <3>2. QED
            BY <3>1, <2>4, <1>11 DEF Safe, Exclusive, Locks, IsAbout
    (* Nobody asked about a new workspace's first admin. *)
    <2>5. CASE tx[c].op = "provision"
        <3>1. <<w, u>> \in Unasked(c)
            BY <2>1, <2>5, <1>6, <1>11 DEF Unasked, Organization
        <3>2. QED
            BY <3>1, <1>13
    <2>6. QED
        BY <2>2, <2>3, <2>4, <2>5, <1>1, <1>5, <1>11 DEF Ops
<1>12. QED
    BY <1>8, <1>9, <1>10, <1>11

(* A caller commits. *)
LEMMA CommitStep == ASSUME Safe, NEW c \in Callers, Commit(c) PROVE Safe'
<1>1. c \in All /\ c \notin Servers /\ tx[c].op # "none" /\ StillAsRead(c) /\ Rows(c)
    BY Tiers0 DEF Commit
<1>2. TxOK(tx[c]) /\ tx[c].tier \in Tiers /\ tx[c].user \in Users /\ tx[c].op \in Ops
    BY <1>1, Shapes, Fields DEF Safe
<1>3. /\ DOMAIN member' = Tiers /\ DOMAIN tx' = All
      /\ \A t \in Tiers : member'[t] \in [Users -> RowOK(t)]
      /\ member'[tx[c].tier][tx[c].user] = Result(c)
      /\ \A t \in Tiers, u \in Users :
            t # tx[c].tier \/ u # tx[c].user => member'[t][u] = member[t][u]
      /\ tx'[c] = Idle /\ unasked' \subseteq Workspaces \X Users
      /\ \A d \in All \ {c} :
            /\ TxOK(tx'[d])
            /\ tx'[d].op = tx[d].op /\ tx'[d].tier = tx[d].tier /\ tx'[d].user = tx[d].user
    <2>1. tx[c].op = "provision" => tx[c].tier \in Workspaces
        BY <1>1, <1>2, Tiers0 DEF Safe, Purposes, Purpose, Organization
    <2>2. Unasked(c) \subseteq unasked \cup {<<tx[c].tier, tx[c].user>>}
          /\ (tx[c].op # "provision" => Unasked(c) \subseteq unasked)
        BY DEF Unasked
    <2>3. unasked' \subseteq Workspaces \X Users
        BY <1>1, <1>2, <2>1, <2>2, Written DEF Safe, TypeOK
    <2>4. QED
        BY <1>1, <2>3, Written
<1>4. /\ Exclusive' /\ Purposes' /\ Held' /\ Unmoved' /\ OthersOwn'
      /\ \A t \in Tiers : t # tx[c].tier => ActiveOwners(t)' = ActiveOwners(t)
    BY <1>1, WriteStep
<1>5. UNCHANGED <<cascade, orphaned, commands, faults>>
    BY DEF Commit
<1>6. /\ pending \in [Users -> Nat] /\ pending' \in [Users -> Nat]
      /\ \A u \in Users : pending'[u] >= pending[u]
      /\ tx[c].op = "revoke" /\ tx[c].tier = 0 => pending'[tx[c].user] = pending[tx[c].user] + 1
    BY <1>2 DEF Commit, Safe, TypeOK, Organization
<1>7. TypeOK'
    <2>1. \A d \in All : TxOK(tx'[d])
        BY <1>3, IdleOK
    <2>2. QED
        BY <2>1, <1>3, <1>5, <1>6 DEF Safe, TypeOK, TxOK, All
<1>8. CascadeAtWork' /\ Assigned' /\ Housed'
    <2>1. CascadeAtWork'
        BY <1>1, <1>3, <1>5, Tiers0 DEF Safe, CascadeAtWork
    <2>2. Assigned'
        <3>1. ASSUME NEW u \in Users PROVE (Cardinality(Serving(u)) <= pending[u])'
            <4>1. Serving(u)' = Serving(u) /\ Cardinality(Serving(u)) \in Nat
                BY <1>5, Counting DEF Serving
            <4>2. QED
                BY <4>1, <1>6 DEF Safe, Assigned
        <3>2. QED
            BY <3>1 DEF Assigned
    <2>3. Housed'
        <3>1. ASSUME NEW d \in All, tx'[d].op = "invite" PROVE Exists(tx[d].tier)'
            <4>1. d # c /\ tx'[d].tier = tx[d].tier /\ tx[d].op = "invite" /\ tx[d].tier \in Tiers
                BY <3>1, <1>3, IdleOK, Shapes, Fields DEF Safe
            <4>2. PICK t \in Tiers : t = tx[d].tier
                BY <4>1
            <4>3. Exists(t)'
                BY <4>1, <4>2, <1>1, WrittenExists DEF Safe, Housed
            <4>4. QED
                BY <4>1, <4>2, <4>3
        <3>2. QED
            BY <3>1 DEF Housed
    <2>4. QED
        BY <2>1, <2>2, <2>3
<1>9. OwnersRemain'
    <2>1. ASSUME NEW t \in Tiers, NEW u \in Users, t = tx[c].tier, u = tx[c].user,
                 ActiveOwners(t) # {}
          PROVE  ActiveOwners(t)' # {}
        <3>1. PICK v \in Users : member[t][v] = Row(OwnerRole(t), "active")
            BY <2>1 DEF ActiveOwners
        <3>2. CASE v # u
            <4>1. member'[t][v] = Row(OwnerRole(t), "active")
                BY <2>1, <3>1, <3>2, <1>2, <1>3
            <4>2. QED
                BY <4>1 DEF ActiveOwners
        <3>3. CASE v = u
            <4>1. tx[c].was.status = "active" /\ tx[c].op \in {"changeRole", "revoke"}
                BY <2>1, <3>1, <3>3, <1>1, <1>2, AsRead DEF Safe, Purposes, Purpose, Stored, Row, Ops
            <4>2. member[t][u] = tx[c].was
                BY <2>1, <4>1, <1>1 DEF Safe, Held, Locks
            <4>3. Endangers(tx[c])
                BY <2>1, <4>1, <4>2, <3>1, <3>3 DEF Endangers
            <4>4. PICK o \in Users \ {u} : member[t][o] = tx[c].was
                BY <2>1, <4>3 DEF Safe, OthersOwn
            <4>5. member'[t][o] = Row(OwnerRole(t), "active")
                BY <2>1, <4>2, <4>4, <3>1, <3>3, <1>2, <1>3
            <4>6. QED
                BY <4>5 DEF ActiveOwners
        <3>4. QED
            BY <3>2, <3>3
    <2>2. ASSUME NEW t \in Tiers, t = tx[c].tier, tx[c].op = "provision"
          PROVE  tx[c].user \in ActiveOwners(t)'
        <3>1. tx[c].next = Row(OwnerRole(t), "active") /\ Result(c) = tx[c].next
            BY <2>2, <1>1 DEF Safe, Purposes, Purpose, Result
        <3>2. member'[t][tx[c].user] = Row(OwnerRole(t), "active")
            BY <2>2, <3>1, <1>3
        <3>3. QED
            BY <3>2, <1>2 DEF ActiveOwners
    <2>3. \A t \in Tiers : Exists(t)' => Exists(t) \/ (t = tx[c].tier /\ tx[c].op = "provision")
        BY <1>1, WrittenExists
    <2>4. QED
        BY <2>1, <2>2, <2>3, <1>2, <1>4, <1>5 DEF Safe, OwnersRemain
<1>10. Followed'
    <2>1. ASSUME NEW u \in Users, NEW w \in Workspaces, Stray(u, w)'
          PROVE  (Cardinality(Passed(u, w)) < pending[u])'
        <3>1. Passed(u, w)' = Passed(u, w) /\ Passed(u, w) \subseteq Serving(u)
            BY <1>5 DEF Passed, Serving
        <3>2. /\ Cardinality(Passed(u, w)) \in Nat /\ Cardinality(Serving(u)) \in Nat
              /\ Cardinality(Passed(u, w)) <= Cardinality(Serving(u))
            <4>1. Serving(u) \in SUBSET Servers /\ Passed(u, w) \in SUBSET Servers
                BY DEF Serving, Passed
            <4>2. QED
                BY <4>1, <3>1, Counting
        <3>3. CASE Stray(u, w)
            <4>1. Cardinality(Passed(u, w)) < pending[u]
                BY <3>3 DEF Safe, Followed
            <4>2. QED
                BY <4>1, <3>1, <3>2, <1>6
        <3>4. CASE tx[c].tier = 0 /\ tx[c].user = u /\ tx[c].op = "revoke"
            <4>1. Cardinality(Serving(u)) <= pending[u]
                BY DEF Safe, Assigned
            <4>2. QED
                BY <4>1, <3>1, <3>2, <3>4, <1>6
        <3>5. QED
            BY <3>3, <3>4, <2>1, <1>1, WrittenStrays
    <2>2. QED
        BY <2>1 DEF Followed
<1>11. QED
    BY <1>4, <1>7, <1>8, <1>9, <1>10 DEF Safe

(* An invitation lapses. *)
LEMMA LapseStep == ASSUME Safe, NEW t \in Tiers, NEW u \in Users, Lapse(t, u) PROVE Safe'
<1>1. /\ member[t][u].status = "invited"
      /\ UNCHANGED <<tx, pending, cascade, orphaned, unasked, commands, faults>>
      /\ member' = [member EXCEPT ![t] = [member[t] EXCEPT ![u] = [member[t][u] EXCEPT !.status = "lapsed"]]]
    BY DEF Lapse
<1>2. DOMAIN member = Tiers /\ (\A s \in Tiers : member[s] \in [Users -> RowOK(s)])
      /\ member[t][u] \in RowOK(t)
    BY DEF Safe, TypeOK
<1>3. [member[t][u] EXCEPT !.status = "lapsed"] \in RowOK(t)
      /\ [member[t][u] EXCEPT !.status = "lapsed"].status = "lapsed"
    BY <1>2 DEF RowOK, Statuses
<1>4. DOMAIN member' = Tiers /\ (\A s \in Tiers : member'[s] \in [Users -> RowOK(s)])
      /\ member'[t][u].status = "lapsed"
      /\ \A s \in Tiers, v \in Users : s # t \/ v # u => member'[s][v] = member[s][v]
    BY <1>1, <1>2, <1>3
<1>5. \A c \in All : tx[c].tier \in Tiers /\ tx[c].user \in Users
    BY Shapes, Fields DEF Safe
<1>6. TypeOK'
    BY <1>1, <1>4 DEF Safe, TypeOK
<1>7. Exclusive' /\ Purposes' /\ CascadeAtWork' /\ Assigned' /\ Housed'
    <2>1. Exclusive' /\ Purposes' /\ CascadeAtWork' /\ Assigned'
        BY <1>1 DEF Safe, Exclusive, Purposes, CascadeAtWork, Assigned, Serving
    <2>2. \A s \in Tiers : Exists(s)' = Exists(s)
        BY <1>1, <1>4 DEF Exists
    <2>3. Housed'
        BY <1>1, <1>5, <2>2 DEF Safe, Housed
    <2>4. QED
        BY <2>1, <2>3
<1>8. Held'
    <2>1. ASSUME NEW c \in All, Locks(tx[c].op), tx[c].was.status = "active"
          PROVE  member'[tx[c].tier][tx[c].user] = tx[c].was
        <3>1. member[tx[c].tier][tx[c].user] = tx[c].was
            BY <2>1 DEF Safe, Held
        <3>2. tx[c].tier # t \/ tx[c].user # u
            BY <3>1, <2>1, <1>1
        <3>3. QED
            BY <3>1, <3>2, <1>4, <1>5
    <2>2. QED
        BY <2>1, <1>1 DEF Held
<1>9. Unmoved'
    <2>1. \A s \in Tiers, v \in Users : Stored(member'[s][v].status) = Stored(member[s][v].status)
        BY <1>1, <1>4 DEF Stored
    <2>2. QED
        BY <2>1, <1>1, <1>5 DEF Safe, Unmoved
(* No owner lapses. *)
<1>10. \A s \in Tiers, v \in Users : member[s][v].status = "active" => member'[s][v] = member[s][v]
    BY <1>1, <1>4
<1>11. OthersOwn'
    <2>1. ASSUME NEW c \in Callers, Endangers(tx[c])
          PROVE  \E v \in Users \ {tx[c].user} : member'[tx[c].tier][v] = tx[c].was
        <3>1. PICK v \in Users \ {tx[c].user} : member[tx[c].tier][v] = tx[c].was
            BY <2>1 DEF Safe, OthersOwn
        <3>2. tx[c].was.status = "active"
            BY <2>1 DEF Endangers, Row
        <3>3. QED
            BY <3>1, <3>2, <1>5, <1>10, Tiers0
    <2>2. QED
        BY <2>1, <1>1 DEF OthersOwn
<1>12. OwnersRemain'
    <2>1. ASSUME NEW s \in Tiers, NEW v \in ActiveOwners(s) PROVE v \in ActiveOwners(s)'
        BY <1>10 DEF ActiveOwners, Row
    <2>2. \A s \in Tiers : Exists(s)' = Exists(s)
        BY <1>1, <1>4 DEF Exists
    <2>3. QED
        BY <2>1, <2>2, <1>1 DEF Safe, OwnersRemain
<1>13. Followed'
    <2>1. ASSUME NEW v \in Users, NEW w \in Workspaces, Stray(v, w)' PROVE Stray(v, w)
        <3>1. member[0][v].status = "active" => member'[0][v].status = "active"
            BY <1>10, Tiers0
        <3>2. member'[w][v].status \in Live => member[w][v].status \in Live
            BY <1>1, <1>4, Tiers0 DEF Live
        <3>3. \A d \in All : IsAbout(d, w, v)' = IsAbout(d, w, v)
            BY <1>1 DEF IsAbout
        <3>4. QED
            BY <3>1, <3>2, <3>3, <2>1, <1>1 DEF Stray, Organization
    <2>2. QED
        BY <2>1, <1>1 DEF Safe, Followed, Passed, Serving
<1>14. QED
    BY <1>6, <1>7, <1>8, <1>9, <1>11, <1>12, <1>13 DEF Safe

-----------------------------------------------------------------------------
(* The cascades.                                                           *)

(* What a server does to its own cascade. *)
LEMMA Handed ==
    ASSUME TypeOK, NEW x \in Servers, NEW row \in CascadeRow, cascade' = [cascade EXCEPT ![x] = row]
    PROVE  /\ cascade' \in [Servers -> CascadeRow] /\ cascade'[x] = row
           /\ \A y \in Servers : y # x => cascade'[y] = cascade[y]
<1>1. cascade \in [Servers -> CascadeRow]
    BY DEF TypeOK, CascadeRow
<1>2. QED
    BY <1>1

(* It takes up an event that no other server has. *)
LEMMA TakeStep == ASSUME Safe, NEW x \in Servers, NEW u \in Users, Take(x, u) PROVE Safe'
<1> DEFINE T == {w \in Workspaces : Exists(w)}
           row == [user |-> {u}, todo |-> T, failed |-> FALSE]
<1>1. /\ cascade[x] = NoCascade /\ Cardinality(Serving(u)) < pending[u]
      /\ cascade' = [cascade EXCEPT ![x] = row]
      /\ UNCHANGED <<member, tx, pending, orphaned, unasked, commands, faults>>
    BY DEF Take
<1>2. row \in CascadeRow /\ row.user = {u} /\ row.todo = T /\ row.failed = FALSE
    BY DEF CascadeRow
<1>3. cascade[x].user = {} /\ tx[x].op = "none"
    BY <1>1 DEF NoCascade, Safe, CascadeAtWork
<1> HIDE DEF row
<1>4. /\ cascade' \in [Servers -> CascadeRow] /\ cascade'[x] = row
      /\ \A y \in Servers : y # x => cascade'[y] = cascade[y]
    BY <1>1, <1>2, Handed DEF Safe
<1>5. TypeOK'
    BY <1>1, <1>4 DEF Safe, TypeOK, CascadeRow
<1>6. Exclusive' /\ Purposes' /\ Held' /\ Unmoved' /\ OthersOwn' /\ OwnersRemain' /\ Housed'
    BY <1>1 DEF Safe, Exclusive, Purposes, Held, Unmoved, OthersOwn, OwnersRemain, ActiveOwners,
               Housed, Exists
<1>7. CascadeAtWork'
    BY <1>1, <1>3, <1>4 DEF Safe, CascadeAtWork
<1>8. Assigned'
    <2>1. ASSUME NEW v \in Users PROVE (Cardinality(Serving(v)) <= pending[v])'
        <3>1. CASE v = u
            <4>1. Serving(u)' = Serving(u) \cup {x} /\ x \notin Serving(u)
                BY <1>2, <1>3, <1>4 DEF Serving
            <4>2. IsFiniteSet(Serving(u)) /\ Cardinality(Serving(u)) \in Nat
                <5>1. Serving(u) \in SUBSET Servers
                    BY DEF Serving
                <5>2. QED
                    BY <5>1, Counting
            <4>3. Cardinality(Serving(u) \cup {x}) = Cardinality(Serving(u)) + 1
                BY <4>1, <4>2, FS_AddElement
            <4>4. pending[u] \in Nat
                BY DEF Safe, TypeOK
            <4>5. QED
                BY <3>1, <4>1, <4>2, <4>3, <4>4, <1>1
        <3>2. CASE v # u
            <4>1. Serving(v)' = Serving(v)
                BY <3>2, <1>2, <1>3, <1>4 DEF Serving
            <4>2. QED
                BY <4>1, <1>1 DEF Safe, Assigned
        <3>3. QED
            BY <3>1, <3>2
    <2>2. QED
        BY <2>1 DEF Assigned
<1>9. Followed'
    <2>1. ASSUME NEW v \in Users, NEW w \in Workspaces, Stray(v, w)'
          PROVE  (Cardinality(Passed(v, w)) < pending[v])'
        <3>1. Stray(v, w)
            BY <2>1, <1>1 DEF Stray, IsAbout
        <3>2. w \in T
            <4>1. CASE member[w][v].status \in Live
                BY <4>1 DEF Live, Exists
            <4>2. CASE \E c \in All : IsAbout(c, w, v) /\ tx[c].op = "invite"
                BY <4>2 DEF Safe, Housed, IsAbout
            <4>3. QED
                BY <3>1, <4>1, <4>2 DEF Stray
        <3>3. x \notin Passed(v, w)' /\ x \notin Passed(v, w)
            BY <3>2, <1>2, <1>3, <1>4 DEF Passed, Serving
        <3>4. \A y \in Servers : y # x => (y \in Passed(v, w)' <=> y \in Passed(v, w))
            BY <1>4 DEF Passed, Serving
        <3>5. Passed(v, w)' \subseteq Servers /\ Passed(v, w) \subseteq Servers
            BY DEF Passed, Serving
        <3>6. Passed(v, w)' = Passed(v, w)
            BY <3>3, <3>4, <3>5
        <3>7. QED
            BY <3>1, <3>6, <1>1 DEF Safe, Followed
    <2>2. QED
        BY <2>1 DEF Followed
<1>10. QED
    BY <1>5, <1>6, <1>7, <1>8, <1>9 DEF Safe

(***************************************************************************)
(* A server ends its transaction, if any, without a write, and goes on or  *)
(* lets go; no stray passes for visited that was not visited before.       *)
(***************************************************************************)
LEMMA LeaveStep ==
    ASSUME Safe, NEW x \in Servers, NEW row \in CascadeRow,
           cascade' = [cascade EXCEPT ![x] = row], row.user \in {{}, cascade[x].user},
           \A v \in Users, w \in Workspaces :
               Stray(v, w) /\ row.user = {v} /\ ~row.failed /\ w \notin row.todo =>
                   cascade[x].user = {v} /\ ~cascade[x].failed /\ w \notin cascade[x].todo,
           DOMAIN tx' = All, tx'[x] = Idle, \A d \in All : d # x => tx'[d] = tx[d],
           UNCHANGED <<member, pending, orphaned, unasked>>,
           commands' \in 0..MaxCommands, faults' \in 0..MaxFaults
    PROVE  Safe'
<1>1. /\ cascade' \in [Servers -> CascadeRow] /\ cascade'[x] = row
      /\ \A y \in Servers : y # x => cascade'[y] = cascade[y]
    BY Handed DEF Safe
<1>2. x \in All /\ x \notin Callers
    BY Tiers0
<1>3. TypeOK'
    <2>1. \A d \in All : TxOK(tx'[d])
        BY IdleOK, Shapes DEF Safe
    <2>2. QED
        BY <2>1, <1>1 DEF Safe, TypeOK, TxOK, All, CascadeRow
<1>4. Exclusive' /\ Purposes' /\ Held' /\ Unmoved'
    BY <1>2, IdleOK DEF Safe, Exclusive, Purposes, Held, Unmoved, Locks
<1>5. OthersOwn' /\ OwnersRemain' /\ Housed'
    <2>1. OthersOwn'
        BY <1>2, Tiers0 DEF Safe, OthersOwn
    <2>2. OwnersRemain' /\ Housed'
        BY IdleOK DEF Safe, OwnersRemain, ActiveOwners, Housed, Exists
    <2>3. QED
        BY <2>1, <2>2
<1>6. CascadeAtWork'
    BY <1>1, IdleOK, Tiers0 DEF Safe, CascadeAtWork
<1>7. Assigned'
    <2>1. ASSUME NEW v \in Users PROVE (Cardinality(Serving(v)) <= pending[v])'
        <3>1. Serving(v)' \subseteq Serving(v)
            BY <1>1 DEF Serving
        <3>2. Serving(v) \in SUBSET Servers
            BY DEF Serving
        <3>3. /\ Cardinality(Serving(v)') <= Cardinality(Serving(v))
              /\ Cardinality(Serving(v)') \in Nat /\ Cardinality(Serving(v)) \in Nat
            BY <3>1, <3>2, Counting
        <3>4. Cardinality(Serving(v)) <= pending[v] /\ pending[v] \in Nat
            BY DEF Safe, Assigned, TypeOK
        <3>5. QED
            BY <3>3, <3>4
    <2>2. QED
        BY <2>1 DEF Assigned
<1>8. Followed'
    <2>1. ASSUME NEW v \in Users, NEW w \in Workspaces, Stray(v, w)'
          PROVE  (Cardinality(Passed(v, w)) < pending[v])'
        <3>1. Stray(v, w)
            BY <2>1, IdleOK DEF Stray, IsAbout
        <3>2. x \in Passed(v, w)' => x \in Passed(v, w)
            BY <3>1, <1>1 DEF Passed, Serving
        <3>3. \A y \in Servers : y # x => (y \in Passed(v, w)' => y \in Passed(v, w))
            BY <1>1 DEF Passed, Serving
        <3>4. Passed(v, w)' \subseteq Servers /\ Passed(v, w) \in SUBSET Servers
            BY DEF Passed, Serving
        <3>5. Passed(v, w)' \subseteq Passed(v, w)
            BY <3>2, <3>3, <3>4
        <3>6. /\ Cardinality(Passed(v, w)') <= Cardinality(Passed(v, w))
              /\ Cardinality(Passed(v, w)') \in Nat /\ Cardinality(Passed(v, w)) \in Nat
            BY <3>4, <3>5, Counting
        <3>7. Cardinality(Passed(v, w)) < pending[v] /\ pending[v] \in Nat
            BY <3>1 DEF Safe, Followed, TypeOK
        <3>8. QED
            BY <3>6, <3>7
    <2>2. QED
        BY <2>1 DEF Followed
<1>9. QED
    BY <1>3, <1>4, <1>5, <1>6, <1>7, <1>8 DEF Safe

(* It is done with w, where nobody is to be followed unless it failed there. *)
LEMMA PastStep ==
    ASSUME Safe, NEW x \in Servers, NEW u \in Users, NEW w \in Workspaces, NEW failed \in BOOLEAN,
           cascade[x].user = {u}, Past(x, w, failed), ~failed => ~Stray(u, w),
           DOMAIN tx' = All, tx'[x] = Idle, \A d \in All : d # x => tx'[d] = tx[d],
           UNCHANGED <<member, pending, orphaned, unasked>>,
           commands' \in 0..MaxCommands, faults' \in 0..MaxFaults
    PROVE  Safe'
<1> DEFINE row == [user |-> cascade[x].user, todo |-> cascade[x].todo \ {w},
                   failed |-> cascade[x].failed \/ failed]
<1>1. cascade[x] \in CascadeRow
    BY DEF Safe, TypeOK, CascadeRow
<1>2. /\ row \in CascadeRow /\ row.user = {u} /\ row.todo = cascade[x].todo \ {w}
      /\ row.failed = (cascade[x].failed \/ failed)
    BY <1>1 DEF CascadeRow
<1>3. cascade' = [cascade EXCEPT ![x] = row]
    BY DEF Past
<1> HIDE DEF row
<1>4. \A v \in Users, z \in Workspaces :
          Stray(v, z) /\ row.user = {v} /\ ~row.failed /\ z \notin row.todo =>
              cascade[x].user = {v} /\ ~cascade[x].failed /\ z \notin cascade[x].todo
    <2>1. ASSUME NEW v \in Users, NEW z \in Workspaces, Stray(v, z), row.user = {v}, ~row.failed,
                 z \notin row.todo
          PROVE  cascade[x].user = {v} /\ ~cascade[x].failed /\ z \notin cascade[x].todo
        <3>1. v = u /\ ~failed /\ ~cascade[x].failed
            BY <2>1, <1>2
        <3>2. z # w
            BY <2>1, <3>1
        <3>3. QED
            BY <2>1, <3>1, <3>2, <1>2
    <2>2. QED
        BY <2>1
<1>5. row.user \in {{}, cascade[x].user}
    BY <1>2
<1>6. QED
    BY <1>2, <1>3, <1>4, <1>5, LeaveStep

LEMMA PassOverStep ==
    ASSUME Safe, NEW x \in Servers, NEW u \in Users, NEW w \in Workspaces, PassOver(x, w, u)
    PROVE  Safe'
<1>1. /\ cascade[x].user = {u} /\ Past(x, w, FALSE) /\ tx' = tx /\ tx[x] = Idle
      /\ UNCHANGED <<member, pending, orphaned, unasked, commands, faults>>
    BY DEF PassOver, IsNext
<1>2. ~Stray(u, w)
    <2>1. \A d \in All : IsAbout(d, w, u) => tx[d].op # "invite"
        BY Shapes DEF Safe, PassOver, Unlocked, IsAbout, Locks
    <2>2. QED
        BY <2>1 DEF PassOver, Stray, Live
<1>3. DOMAIN tx = All /\ commands' \in 0..MaxCommands /\ faults' \in 0..MaxFaults
    BY <1>1, Shapes DEF Safe, TypeOK
<1>4. QED
    BY <1>1, <1>2, <1>3, PastStep

LEMMA RevokeFailsStep ==
    ASSUME Safe, NEW x \in Servers, NEW u \in Users, NEW w \in Workspaces, RevokeFails(x, w, u)
    PROVE  Safe'
<1>1. /\ cascade[x].user = {u} /\ Past(x, w, TRUE) /\ tx' = tx /\ tx[x] = Idle
      /\ UNCHANGED <<member, pending, orphaned, unasked, commands>>
    BY DEF RevokeFails, IsNext
<1>2. faults' \in 0..MaxFaults
    BY BoundsAssumption DEF RevokeFails, Fault, Safe, TypeOK
<1>3. DOMAIN tx = All /\ commands' \in 0..MaxCommands
    BY <1>1, Shapes DEF Safe, TypeOK
<1>4. QED
    BY <1>1, <1>2, <1>3, PastStep

(* It lets go of its event, which remains. *)
LEMMA LetGoStep ==
    ASSUME Safe, NEW x \in Servers, cascade' = [cascade EXCEPT ![x] = NoCascade],
           DOMAIN tx' = All, tx'[x] = Idle, \A d \in All : d # x => tx'[d] = tx[d],
           UNCHANGED <<member, pending, orphaned, unasked>>,
           commands' \in 0..MaxCommands, faults' \in 0..MaxFaults
    PROVE  Safe'
<1>1. NoCascade \in CascadeRow /\ NoCascade.user = {}
    BY DEF NoCascade, CascadeRow
<1>2. \A v \in Users : NoCascade.user # {v}
    BY <1>1
<1>3. NoCascade.user \in {{}, cascade[x].user}
    BY <1>1
<1>4. PICK row \in CascadeRow : row = NoCascade
    BY <1>1
<1>5. cascade' = [cascade EXCEPT ![x] = row] /\ row.user \in {{}, cascade[x].user}
    BY <1>3, <1>4
<1>6. \A v \in Users, w \in Workspaces :
          Stray(v, w) /\ row.user = {v} /\ ~row.failed /\ w \notin row.todo =>
              cascade[x].user = {v} /\ ~cascade[x].failed /\ w \notin cascade[x].todo
    BY <1>2, <1>4
<1>7. QED
    BY <1>5, <1>6, LeaveStep

LEMMA DieStep == ASSUME Safe, NEW x \in Servers, Die(x) PROVE Safe'
<1>1. /\ cascade' = [cascade EXCEPT ![x] = NoCascade] /\ tx' = [tx EXCEPT ![x] = Idle]
      /\ UNCHANGED <<member, pending, orphaned, unasked, commands>> /\ Fault
    BY DEF Die
<1>2. /\ DOMAIN tx' = All /\ tx'[x] = Idle
      /\ \A d \in All : d # x => tx'[d] = tx[d]
    BY <1>1, Shapes, Tiers0 DEF Safe
<1>3. commands' \in 0..MaxCommands /\ faults' \in 0..MaxFaults
    BY <1>1, BoundsAssumption DEF Fault, Safe, TypeOK
<1>4. QED
    BY <1>1, <1>2, <1>3, LetGoStep

(* It finishes: a complete cascade's event is handled. *)
LEMMA FinishStep == ASSUME Safe, NEW x \in Servers, NEW u \in Users, Finish(x, u) PROVE Safe'
<1>1. /\ cascade[x].user = {u} /\ cascade[x].todo = {}
      /\ cascade' = [cascade EXCEPT ![x] = NoCascade]
      /\ UNCHANGED <<member, tx, orphaned, unasked, commands, faults>>
      /\ pending' = IF cascade[x].failed THEN pending ELSE [pending EXCEPT ![u] = @ - 1]
    BY DEF Finish
<1>2. /\ tx[x].op = "none" /\ DOMAIN tx = All /\ pending \in [Users -> Nat]
      /\ commands' \in 0..MaxCommands /\ faults' \in 0..MaxFaults
    BY <1>1, Shapes DEF Safe, CascadeAtWork, TypeOK
<1>3. /\ cascade' \in [Servers -> CascadeRow] /\ cascade'[x].user = {}
      /\ \A y \in Servers : y # x => cascade'[y] = cascade[y]
    <2>1. NoCascade \in CascadeRow /\ NoCascade.user = {}
        BY DEF NoCascade, CascadeRow
    <2>2. QED
        BY <1>1, <2>1, Handed DEF Safe
<1>4. \A v \in Users : Serving(v)' = Serving(v) \ {x}
    BY <1>3 DEF Serving
<1>5. \A v \in Users, w \in Workspaces : Passed(v, w)' = Passed(v, w) \ {x}
    BY <1>3 DEF Passed, Serving
<1>6. x \in Serving(u) /\ \A v \in Users : v # u => x \notin Serving(v)
    BY <1>1 DEF Serving
(* Its own event, counted with the others about the user. *)
<1>7. ASSUME NEW S \in SUBSET Servers
      PROVE  /\ Cardinality(S) \in Nat /\ Cardinality(S \ {x}) \in Nat
             /\ Cardinality(S \ {x}) <= Cardinality(S)
             /\ x \in S => Cardinality(S \ {x}) = Cardinality(S) - 1
    <2>1. IsFiniteSet(S) /\ Cardinality(S) \in Nat
        BY Counting
    <2>2. S \ {x} \in SUBSET S /\ S \ {x} \in SUBSET Servers
        OBVIOUS
    <2>3. Cardinality(S \ {x}) \in Nat /\ Cardinality(S \ {x}) <= Cardinality(S)
        BY <2>2, Counting
    <2>4. x \in S => Cardinality(S \ {x}) = Cardinality(S) - 1
        BY <2>1, FS_RemoveElement
    <2>5. QED
        BY <2>1, <2>3, <2>4
<1>8. Cardinality(Serving(u)) > 0 /\ Cardinality(Serving(u)) <= pending[u]
    <2>1. Serving(u) \in SUBSET Servers
        BY DEF Serving
    <2>2. /\ Cardinality(Serving(u)) \in Nat /\ Cardinality(Serving(u) \ {x}) \in Nat
          /\ Cardinality(Serving(u) \ {x}) = Cardinality(Serving(u)) - 1
        BY <2>1, <1>6, <1>7
    <2>3. Cardinality(Serving(u)) <= pending[u]
        BY DEF Safe, Assigned
    <2>4. QED
        BY <2>2, <2>3
<1>9. /\ pending' \in [Users -> Nat]
      /\ \A v \in Users : v # u \/ cascade[x].failed => pending'[v] = pending[v]
      /\ pending'[u] >= pending[u] - 1
    <2>1. pending[u] \in Nat /\ pending[u] - 1 \in Nat
        <3>1. Serving(u) \in SUBSET Servers
            BY DEF Serving
        <3>2. Cardinality(Serving(u)) \in Nat /\ pending[u] \in Nat
            BY <3>1, <1>2, <1>7
        <3>3. QED
            BY <3>2, <1>8
    <2>2. QED
        BY <1>1, <1>2, <2>1
<1>10. TypeOK'
    BY <1>1, <1>2, <1>3, <1>9 DEF Safe, TypeOK, CascadeRow
<1>11. Exclusive' /\ Purposes' /\ Held' /\ Unmoved' /\ OthersOwn' /\ OwnersRemain' /\ Housed'
    BY <1>1 DEF Safe, Exclusive, Purposes, Held, Unmoved, OthersOwn, OwnersRemain, ActiveOwners,
               Housed, Exists
<1>12. CascadeAtWork'
    BY <1>1, <1>2, <1>3 DEF Safe, CascadeAtWork
<1>13. Assigned'
    <2>1. ASSUME NEW v \in Users PROVE (Cardinality(Serving(v)) <= pending[v])'
        <3>1. Serving(v) \in SUBSET Servers
            BY DEF Serving
        <3>2. Cardinality(Serving(v)) <= pending[v] /\ pending[v] \in Nat /\ pending'[v] \in Nat
            BY <1>2, <1>9 DEF Safe, Assigned
        <3>3. CASE v = u
            BY <3>1, <3>2, <3>3, <1>4, <1>6, <1>7, <1>9
        <3>4. CASE v # u
            BY <3>1, <3>2, <3>4, <1>4, <1>7, <1>9
        <3>5. QED
            BY <3>3, <3>4
    <2>2. QED
        BY <2>1 DEF Assigned
<1>14. Followed'
    <2>1. ASSUME NEW v \in Users, NEW w \in Workspaces, Stray(v, w)'
          PROVE  (Cardinality(Passed(v, w)) < pending[v])'
        <3>1. Stray(v, w)
            BY <2>1, <1>1 DEF Stray, IsAbout
        <3>2. Passed(v, w) \in SUBSET Servers
            BY DEF Passed, Serving
        <3>3. Cardinality(Passed(v, w)) < pending[v] /\ pending[v] \in Nat /\ pending'[v] \in Nat
            BY <3>1, <1>2, <1>9 DEF Safe, Followed
        <3>4. CASE v = u /\ ~cascade[x].failed
            <4>1. x \in Passed(v, w)
                BY <3>4, <1>1, <1>6 DEF Passed
            <4>2. QED
                BY <3>2, <3>3, <3>4, <4>1, <1>5, <1>7, <1>9
        <3>5. CASE v # u \/ cascade[x].failed
            BY <3>2, <3>3, <3>5, <1>5, <1>7, <1>9
        <3>6. QED
            BY <3>4, <3>5
    <2>2. QED
        BY <2>1 DEF Followed
<1>15. QED
    BY <1>10, <1>11, <1>12, <1>13, <1>14 DEF Safe

(* It revokes a membership it has found under the workspace's lock. *)
LEMMA EndRevokeStep == ASSUME Safe, NEW c \in Servers, EndRevoke(c) PROVE Safe'
<1>1. /\ c \in All /\ c \notin Callers /\ tx[c].op = "revoke"
      /\ cascade[c].user = {tx[c].user} /\ tx[c].tier \in cascade[c].todo
      /\ UNCHANGED <<pending, commands, faults>>
    BY Tiers0 DEF EndRevoke, Safe, CascadeAtWork
<1>2. PICK t \in Tiers, u \in Users : t = tx[c].tier /\ u = tx[c].user
    BY <1>1, Shapes, Fields DEF Safe
<1>3. cascade[c] \in CascadeRow /\ t \in Workspaces /\ t # 0
    <2>1. cascade[c] \in CascadeRow
        BY DEF Safe, TypeOK, CascadeRow
    <2>2. QED
        BY <1>1, <1>2, <2>1, Tiers0 DEF CascadeRow
<1>4. ASSUME StillAsRead(c), Rows(c),
             orphaned' = (IF ActiveOwners(t) = {u} THEN orphaned \cup {t} ELSE orphaned),
             Past(c, t, FALSE)
      PROVE  Safe'
    <2>1. /\ DOMAIN member' = Tiers /\ DOMAIN tx' = All
          /\ \A s \in Tiers : member'[s] \in [Users -> RowOK(s)]
          /\ \A s \in Tiers, v \in Users : s # t \/ v # u => member'[s][v] = member[s][v]
          /\ tx'[c] = Idle /\ unasked' = Unasked(c)
          /\ \A d \in All \ {c} :
                TxOK(tx'[d]) /\ tx'[d].op = tx[d].op /\ tx'[d].tier = tx[d].tier
                /\ tx'[d].user = tx[d].user
        BY <1>1, <1>2, <1>4, Written
    <2>2. /\ Exclusive' /\ Purposes' /\ Held' /\ Unmoved' /\ OthersOwn'
          /\ \A s \in Tiers : s # t => ActiveOwners(s)' = ActiveOwners(s)
        BY <1>1, <1>2, <1>4, WriteStep
    <2>3. /\ cascade' \in [Servers -> CascadeRow]
          /\ cascade'[c].user = {u} /\ cascade'[c].todo = cascade[c].todo \ {t}
          /\ cascade'[c].failed = cascade[c].failed
          /\ \A y \in Servers : y # c => cascade'[y] = cascade[y]
        <3> DEFINE row == [user |-> cascade[c].user, todo |-> cascade[c].todo \ {t},
                           failed |-> cascade[c].failed \/ FALSE]
        <3>1. /\ row \in CascadeRow /\ row.user = {u} /\ row.todo = cascade[c].todo \ {t}
              /\ row.failed = cascade[c].failed
            BY <1>1, <1>2, <1>3 DEF CascadeRow
        <3>2. cascade' = [cascade EXCEPT ![c] = row]
            BY <1>4 DEF Past
        <3> HIDE DEF row
        <3>3. QED
            BY <3>1, <3>2, Handed DEF Safe
    <2>4. TypeOK'
        <3>1. \A d \in All : TxOK(tx'[d])
            BY <2>1, IdleOK
        <3>2. orphaned' \subseteq Workspaces
            BY <1>3, <1>4 DEF Safe, TypeOK
        <3>3. unasked' \subseteq Workspaces \X Users
            BY <1>1, <2>1 DEF Unasked, Safe, TypeOK
        <3>4. QED
            BY <1>1, <2>1, <2>3, <3>1, <3>2, <3>3 DEF Safe, TypeOK, TxOK, All, CascadeRow
    <2>5. CascadeAtWork' /\ Assigned' /\ Housed'
        <3>1. CascadeAtWork'
            BY <1>1, <2>1, <2>3, IdleOK, Tiers0 DEF Safe, CascadeAtWork
        <3>2. Assigned'
            <4>1. \A v \in Users : Serving(v)' = Serving(v)
                BY <1>1, <1>2, <2>3 DEF Serving
            <4>2. QED
                BY <4>1, <1>1 DEF Safe, Assigned
        <3>3. Housed'
            <4>1. ASSUME NEW d \in All, tx'[d].op = "invite" PROVE Exists(tx[d].tier)'
                <5>1. d # c /\ tx'[d].tier = tx[d].tier /\ tx[d].op = "invite" /\ tx[d].tier \in Tiers
                    BY <4>1, <2>1, IdleOK, Shapes, Fields DEF Safe
                <5>2. PICK s \in Tiers : s = tx[d].tier
                    BY <5>1
                <5>3. Exists(s)'
                    BY <5>1, <5>2, <1>1, <1>4, WrittenExists DEF Safe, Housed
                <5>4. QED
                    BY <5>1, <5>2, <5>3
            <4>2. QED
                BY <4>1 DEF Housed
        <3>4. QED
            BY <3>1, <3>2, <3>3
    <2>6. OwnersRemain'
        <3>1. ASSUME NEW v \in ActiveOwners(t), v # u PROVE v \in ActiveOwners(t)'
            BY <3>1, <1>2, <2>1 DEF ActiveOwners
        <3>2. \A s \in Tiers : Exists(s)' => Exists(s)
            BY <1>1, <1>4, WrittenExists
        <3>3. CASE ActiveOwners(t) = {u}
            BY <3>2, <3>3, <1>4, <2>2 DEF Safe, OwnersRemain
        <3>4. CASE ActiveOwners(t) # {u}
            <4>1. t \notin orphaned /\ Exists(t) => \E v \in ActiveOwners(t) : v # u
                BY <3>4 DEF Safe, OwnersRemain
            <4>2. QED
                BY <3>1, <3>2, <3>4, <4>1, <1>4, <2>2 DEF Safe, OwnersRemain
        <3>5. QED
            BY <3>3, <3>4
    <2>7. Followed'
        <3>1. ASSUME NEW v \in Users, NEW w \in Workspaces, Stray(v, w)'
              PROVE  (Cardinality(Passed(v, w)) < pending[v])'
            <4>1. Stray(v, w) /\ ~(v = u /\ w = t)
                BY <3>1, <1>1, <1>2, <1>3, <1>4, WrittenStrays
            <4>2. c \in Passed(v, w)' <=> c \in Passed(v, w)
                BY <4>1, <1>1, <1>2, <2>3 DEF Passed, Serving
            <4>3. \A y \in Servers : y # c => (y \in Passed(v, w)' <=> y \in Passed(v, w))
                BY <2>3 DEF Passed, Serving
            <4>4. Passed(v, w)' \subseteq Servers /\ Passed(v, w) \subseteq Servers
                BY DEF Passed, Serving
            <4>5. Passed(v, w)' = Passed(v, w)
                BY <4>2, <4>3, <4>4
            <4>6. QED
                BY <4>1, <4>5, <1>1 DEF Safe, Followed
        <3>2. QED
            BY <3>1 DEF Followed
    <2>8. QED
        BY <2>2, <2>4, <2>5, <2>6, <2>7 DEF Safe
<1>5. ASSUME tx' = [tx EXCEPT ![c] = Idle], Past(c, t, TRUE), UNCHANGED <<member, orphaned, unasked>>
      PROVE  Safe'
    <2>1. /\ DOMAIN tx' = All /\ tx'[c] = Idle
          /\ \A d \in All : d # c => tx'[d] = tx[d]
        BY <1>1, <1>5, Shapes DEF Safe
    <2>2. commands' \in 0..MaxCommands /\ faults' \in 0..MaxFaults
        BY <1>1 DEF Safe, TypeOK
    <2>3. QED
        BY <1>1, <1>2, <1>3, <1>5, <2>1, <2>2, PastStep
<1>6. QED
    BY <1>2, <1>4, <1>5 DEF EndRevoke

-----------------------------------------------------------------------------

LEMMA CommandOK == ASSUME Safe, Command PROVE commands' \in 0..MaxCommands
BY BoundsAssumption DEF Safe, TypeOK, Command

(* The five calls. *)
LEMMA AskStep == ASSUME Safe, NEW c \in Callers, Ask(c) PROVE Safe'
<1>1. PICK t \in Tiers, u \in Users :
        \/ Accept(c, t, u) \/ Revoke(c, t, u)
        \/ \E role \in Offered[t] : Invite(c, t, u, role) \/ ChangeRole(c, t, u, role)
        \/ t \in Workspaces /\ Provision(c, t, u)
    BY DEF Ask
<1>2. c \in All /\ c \notin Servers /\ member[t][u] \in RowOK(t) /\ member[t][u].status \in Statuses
    BY Tiers0, Shapes DEF Safe
<1>3. \A role \in RolesOf(t), status \in Statuses : Row(role, status) \in RowOK(t)
    BY DEF Row, RowOK
<1>4. \A role, status : Row(role, status).status = status
    BY DEF Row
<1>5. Offered[t] \subseteq RolesOf(t) /\ member[t][u].role \in RolesOf(t)
    BY <1>2, Roles DEF RowOK
<1>6. ASSUME NEW op \in Ops \ {"none"}, NEW next \in RowOK(t), Request(c, op, t, u, next)
      PROVE  /\ Begin(c, op, t, u, next) /\ UNCHANGED <<member, pending, cascade, orphaned, unasked>>
             /\ commands' \in 0..MaxCommands /\ faults' \in 0..MaxFaults
    BY <1>6, CommandOK DEF Request, Safe, TypeOK
<1>7. ASSUME Accept(c, t, u) PROVE Safe'
    <2>1. Row(member[t][u].role, "active") \in RowOK(t)
        BY <1>3, <1>5 DEF Statuses
    <2>2. Request(c, "accept", t, u, Row(member[t][u].role, "active")) /\ member[t][u].status = "invited"
        BY <1>7 DEF Accept
    <2>3. QED
        BY <1>2, <1>6, <2>1, <2>2, BeginStep DEF Ops, Locks, Purpose
<1>8. ASSUME Revoke(c, t, u) PROVE Safe'
    <2>1. Row(member[t][u].role, "revoked") \in RowOK(t)
        BY <1>3, <1>5 DEF Statuses
    <2>2. Request(c, "revoke", t, u, Row(member[t][u].role, "revoked"))
          /\ Unlocked(t) /\ NotLast(t, u) /\ member[t][u].status \in {"invited", "lapsed", "active"}
        BY <1>8 DEF Revoke
    <2>3. QED
        BY <1>2, <1>4, <1>6, <2>1, <2>2, BeginStep DEF Ops, Purpose
<1>9. ASSUME NEW role \in Offered[t], Invite(c, t, u, role) PROVE Safe'
    <2>1. Row(role, "invited") \in RowOK(t)
        BY <1>3, <1>5 DEF Statuses
    <2>2. Request(c, "invite", t, u, Row(role, "invited")) /\ Unlocked(t)
          /\ member[t][u].status \in {"none", "revoked", "lapsed"}
          /\ (t # Organization => member[Organization][u].status = "active")
          /\ Exists(t)
        BY <1>9 DEF Invite, MayGrant, Exists
    <2>3. QED
        BY <1>2, <1>4, <1>6, <2>1, <2>2, BeginStep DEF Ops, Purpose
<1>10. ASSUME NEW role \in Offered[t], ChangeRole(c, t, u, role) PROVE Safe'
    <2>1. Row(role, "active") \in RowOK(t)
        BY <1>3, <1>5 DEF Statuses
    <2>2. Request(c, "changeRole", t, u, Row(role, "active")) /\ Unlocked(t) /\ NotLast(t, u)
          /\ member[t][u].status = "active"
        BY <1>10 DEF ChangeRole
    <2>3. QED
        BY <1>2, <1>4, <1>6, <2>1, <2>2, BeginStep DEF Ops, Purpose
<1>11. ASSUME t \in Workspaces, Provision(c, t, u) PROVE Safe'
    <2>1. Row("workspace_admin", "active") \in RowOK(t) /\ OwnerRole(t) = "workspace_admin"
        BY <1>3, <1>11, Roles DEF Statuses
    <2>2. Request(c, "provision", t, u, Row("workspace_admin", "active"))
          /\ member[t][u].status = "none" /\ t # Organization
        BY <1>11, Tiers0 DEF Provision, Exists, Organization
    <2>3. QED
        BY <1>2, <1>6, <2>1, <2>2, BeginStep DEF Ops, Locks, Purpose
<1>12. QED
    BY <1>1, <1>7, <1>8, <1>9, <1>10, <1>11

LEMMA BeginRevokeStep ==
    ASSUME Safe, NEW x \in Servers, NEW u \in Users, NEW w \in Workspaces, BeginRevoke(x, w, u)
    PROVE  Safe'
<1>1. w \in Tiers /\ x \in All /\ x \notin Callers /\ member[w][u] \in RowOK(w)
    BY Tiers0, Shapes DEF Safe
<1>2. Row(member[w][u].role, "revoked") \in RowOK(w) /\ Row(member[w][u].role, "revoked").status = "revoked"
    BY <1>1 DEF Row, RowOK, Statuses
<1>3. /\ cascade[x].user = {u} /\ w \in cascade[x].todo /\ Unlocked(w)
      /\ member[w][u].status \in {"invited", "lapsed", "active"}
      /\ Begin(x, "revoke", w, u, Row(member[w][u].role, "revoked"))
      /\ UNCHANGED <<member, pending, cascade, orphaned, unasked, commands, faults>>
    BY DEF BeginRevoke, IsNext
<1>4. commands' \in 0..MaxCommands /\ faults' \in 0..MaxFaults
    BY <1>3 DEF Safe, TypeOK
<1>5. QED
    BY <1>1, <1>2, <1>3, <1>4, BeginStep DEF Ops, Purpose

(* Every step keeps the invariant. *)
LEMMA SafeStep == Safe /\ [Next]_vars => Safe'
<1> SUFFICES ASSUME Safe, [Next]_vars PROVE Safe'
    OBVIOUS
<1>1. ASSUME NEW c \in Callers, Ask(c) PROVE Safe'
    BY <1>1, AskStep
<1>2. ASSUME NEW c \in Callers, Commit(c) PROVE Safe'
    BY <1>2, CommitStep
<1>3. ASSUME NEW c \in Callers, Conflict(c) PROVE Safe'
    <2>1. commands' \in 0..MaxCommands /\ faults' \in 0..MaxFaults
        BY <1>3 DEF Conflict, Safe, TypeOK
    <2>2. QED
        BY <1>3, <2>1, DropStep DEF Conflict
<1>4. ASSUME NEW c \in Callers, Lose(c) PROVE Safe'
    <2>1. commands' \in 0..MaxCommands /\ faults' \in 0..MaxFaults
        BY <1>4, BoundsAssumption DEF Lose, Fault, Safe, TypeOK
    <2>2. QED
        BY <1>4, <2>1, DropStep DEF Lose
<1>5. ASSUME NEW t \in Tiers, NEW u \in Users, Lapse(t, u) PROVE Safe'
    BY <1>5, LapseStep
<1>6. ASSUME NEW x \in Servers, NEW u \in Users, Take(x, u) \/ Finish(x, u) PROVE Safe'
    BY <1>6, TakeStep, FinishStep
<1>7. ASSUME NEW x \in Servers, NEW u \in Users, NEW w \in Workspaces,
             PassOver(x, w, u) \/ BeginRevoke(x, w, u) \/ RevokeFails(x, w, u)
      PROVE  Safe'
    BY <1>7, PassOverStep, BeginRevokeStep, RevokeFailsStep
<1>8. ASSUME NEW x \in Servers, EndRevoke(x) \/ Die(x) PROVE Safe'
    BY <1>8, EndRevokeStep, DieStep
<1>9. CASE UNCHANGED vars
    <2>1. UNCHANGED <<member, tx, pending, cascade, orphaned, unasked, commands, faults>>
        BY <1>9 DEF vars
    <2>2. TypeOK' /\ Exclusive' /\ Purposes' /\ Held' /\ Unmoved' /\ OthersOwn'
        BY <2>1 DEF Safe, TypeOK, Exclusive, Purposes, Held, Unmoved, OthersOwn
    <2>3. CascadeAtWork' /\ Assigned' /\ Housed' /\ OwnersRemain'
        BY <2>1 DEF Safe, CascadeAtWork, Assigned, Serving, Housed, Exists, OwnersRemain, ActiveOwners
    <2>4. \A u \in Users, w \in Workspaces : Passed(u, w)' = Passed(u, w) /\ Stray(u, w)' = Stray(u, w)
        BY <2>1 DEF Passed, Serving, Stray, IsAbout
    <2>5. Followed'
        BY <2>1, <2>4 DEF Safe, Followed
    <2>6. QED
        BY <2>2, <2>3, <2>5 DEF Safe
<1>10. QED
    BY <1>1, <1>2, <1>3, <1>4, <1>5, <1>6, <1>7, <1>8, <1>9 DEF Next

LEMMA AlwaysSafe == Spec => []Safe
BY InitSafe, SafeStep, PTL DEF Spec

-----------------------------------------------------------------------------

(***************************************************************************)
(* Rows, transactions and the cascade keep their shapes, for any users,    *)
(* workspaces and requests (organization-memberships.ts,                   *)
(* workspace-memberships.ts, cascade.ts).                                  *)
(***************************************************************************)
THEOREM TypeCorrect == Spec => []TypeOK
<1>1. Safe => TypeOK
    BY DEF Safe
<1>2. QED
    BY <1>1, AlwaysSafe, PTL

(***************************************************************************)
(* assertNotLastOwner and assertNotLastAdmin hold against every overlap of *)
(* calls: no tier loses its last owner but to the cascade.                 *)
(***************************************************************************)
THEOREM AnOwnerRemains == Spec => []OwnersRemain
<1>1. Safe => OwnersRemain
    BY DEF Safe
<1>2. QED
    BY <1>1, AlwaysSafe, PTL

(***************************************************************************)
(* Who was removed from the organization holds or is offered no workspace  *)
(* once the revocation cascades have done their work, whatever             *)
(* invitations, acceptances, failures and new workspaces came between, but *)
(* for the first admin that a provisioning did not ask about (provision in *)
(* workspaces/service.ts, revokeAcrossWorkspaces).                         *)
(***************************************************************************)
THEOREM RemovalReachesEveryWorkspace == Spec => []NoStrayAccess
<1>1. Safe => NoStrayAccess
    <2>1. ASSUME Safe, NEW u \in Users, pending[u] = 0, member[Organization][u].status # "active",
                 NEW w \in Workspaces, <<w, u>> \notin unasked
          PROVE  member[w][u].status \in {"none", "revoked"}
        <3>1. ~Stray(u, w)
            <4>1. Cardinality(Passed(u, w)) \in Nat
                <5>1. Passed(u, w) \in SUBSET Servers
                    BY DEF Passed, Serving
                <5>2. QED
                    BY <5>1, Counting
            <4>2. QED
                BY <4>1, <2>1 DEF Safe, Followed
        <3>2. member[w][u].status \in Statuses
            BY <2>1, Tiers0, Shapes DEF Safe
        <3>3. QED
            BY <2>1, <3>1, <3>2 DEF Stray, Live, Statuses
    <2>2. QED
        BY <2>1 DEF NoStrayAccess
<1>2. QED
    BY <1>1, AlwaysSafe, PTL
=============================================================================
