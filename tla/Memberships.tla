---------------------------- MODULE Memberships ----------------------------
(***************************************************************************)
(* Who belongs to an organization and to its workspaces: the two           *)
(* membership services (organization-memberships.ts,                       *)
(* workspace-memberships.ts), the provisioning that gives a new workspace  *)
(* its first admin (workspaces/service.ts), and the cascade that takes a   *)
(* removed member out of every workspace (memberships/cascade.ts).         *)
(*                                                                         *)
(* A call is a transaction of two steps: it takes its tier's advisory      *)
(* lock, reads and decides; it updates the row, if that still is what it   *)
(* read, and commits.  Accepting takes no lock, provisioning that of the   *)
(* quota, and the locks of the tiers are not each other's.                 *)
(***************************************************************************)
EXTENDS Naturals, FiniteSets

CONSTANTS
    Users,
    Workspaces,     \* named by the ids the cascade goes through in order
    Provisioned,    \* those there are at the beginning
    Founder,        \* the first owner of the organization and their first admin
    Members,        \* other users with an active membership of the organization
    Offered,        \* the roles asked for in the organization (0) and in each workspace
    Callers,        \* concurrent requests
    Servers,        \* processes that serve organization-membership-cascade
    MaxCommands,    \* bound: requests that are not refused
    MaxFaults       \* bound: transactions of a cascade that fail, callers and servers lost

Organization == 0
Tiers == {Organization} \cup Workspaces

(* ORGANIZATION_ROLE_GRANTS and WORKSPACE_ROLE_GRANTS *)
GRANTS ==
    [org_owner |-> {"org_owner", "org_admin", "billing_admin", "org_member"},
     org_admin |-> {"org_admin", "org_member"},
     billing_admin |-> {},
     org_member |-> {},
     workspace_admin |-> {"workspace_admin", "editor", "contributor", "viewer"},
     editor |-> {}, contributor |-> {}, viewer |-> {}]

OrganizationRoles == {"org_owner", "org_admin", "billing_admin", "org_member"}

RolesOf(t) == IF t = Organization THEN OrganizationRoles ELSE DOMAIN GRANTS \ OrganizationRoles

ASSUME TiersAssumption ==
    /\ Workspaces \subseteq Nat \ {0} /\ IsFiniteSet(Workspaces) /\ Provisioned \subseteq Workspaces
    /\ DOMAIN Offered = Tiers /\ \A t \in Tiers : Offered[t] \subseteq RolesOf(t)
ASSUME PeopleAssumption ==
    /\ IsFiniteSet(Users) /\ Founder \in Users /\ Members \subseteq Users \ {Founder}
    /\ IsFiniteSet(Servers) /\ Servers \cap Callers = {}
ASSUME BoundsAssumption == MaxCommands \in Nat /\ MaxFaults \in Nat

VARIABLES
    member,     \* the row of each user in each tier
    tx,         \* the transaction of each caller and each server
    pending,    \* for each user, the OrgMembershipRevoked events not handled
    cascade,    \* of each server: its user, the workspaces left, and whether one failed
    orphaned,   \* workspaces whose last admin a cascade took
    unasked,    \* first admins <<workspace, user>> the organization did not have as a member
    commands, faults

vars == <<member, tx, pending, cascade, orphaned, unasked, commands, faults>>

OwnerRole(t) == IF t = Organization THEN "org_owner" ELSE "workspace_admin"

Row(role, status) == [role |-> role, status |-> status]

(* The role of a row there is not is never looked at. *)
NoRow(t) == Row(OwnerRole(t), "none")

(***************************************************************************)
(* A transaction: the row it is about and has read, the row it writes, and *)
(* whether the version has moved since.                                    *)
(***************************************************************************)
Idle == [op |-> "none", tier |-> 0, user |-> Founder, was |-> NoRow(0), next |-> NoRow(0),
         moved |-> FALSE]

NoCascade == [user |-> {}, todo |-> {}, failed |-> FALSE]

Init ==
    /\ member = [t \in Tiers |-> [u \in Users |->
                    IF u = Founder /\ t \in {Organization} \cup Provisioned
                    THEN Row(OwnerRole(t), "active")
                    ELSE IF t = Organization /\ u \in Members THEN Row("org_member", "active")
                    ELSE NoRow(t)]]
    /\ tx = [c \in Callers \cup Servers |-> Idle]
    /\ pending = [u \in Users |-> 0]
    /\ cascade = [x \in Servers |-> NoCascade]
    /\ orphaned = {}
    /\ unasked = {}
    /\ commands = 0
    /\ faults = 0

Command == commands < MaxCommands /\ commands' = commands + 1
Fault == faults < MaxFaults /\ faults' = faults + 1

-----------------------------------------------------------------------------
(* Reading and deciding.  A request that is refused leaves nothing.        *)

(* Mutant of Unlocked: the lock is not the tier's. *)
LockedByNobody(t) == t \in Tiers

(* The calls that take their tier's advisory lock first. *)
Locks(op) == op \in {"invite", "changeRole", "revoke"}

Unlocked(t) == \A c \in DOMAIN tx : Locks(tx[c].op) => tx[c].tier # t

(* A workspace is there with its first admin's row. *)
Exists(t) == \E u \in Users : member[t][u].status # "none"

(* assertMayGrant: the actor's row is read from the same tier. *)
MayGrant(actor, t, roles) ==
    /\ member[t][actor].status = "active"
    /\ roles \subseteq GRANTS[member[t][actor].role]

ActiveOwners(t) == {u \in Users : member[t][u] = Row(OwnerRole(t), "active")}

(* assertNotLastOwner, assertNotLastAdmin *)
NotLast(t, u) == u \in ActiveOwners(t) => Cardinality(ActiveOwners(t)) > 1

Begin(c, op, t, u, next) ==
    /\ tx[c] = Idle
    /\ tx' = [tx EXCEPT ![c] = [op |-> op, tier |-> t, user |-> u, was |-> member[t][u],
                                next |-> next, moved |-> FALSE]]

Request(c, op, t, u, next) ==
    /\ Command
    /\ Begin(c, op, t, u, next)
    /\ UNCHANGED <<member, pending, cascade, orphaned, unasked, faults>>

(* Mutant of Invite: the organization is not asked. *)
InviteAnyone(c, t, u, role) ==
    LET was == member[t][u] IN
    /\ Unlocked(t)
    /\ was.status \in {"none", "revoked", "lapsed"}
    /\ \E actor \in Users :
          MayGrant(actor, t, {role} \cup (IF was.status = "none" THEN {} ELSE {was.role}))
    /\ Request(c, "invite", t, u, Row(role, "invited"))

(***************************************************************************)
(* A workspace invites active members of the organization only.  A revoked *)
(* or lapsed row is issued again, by someone who may act on its old role.  *)
(***************************************************************************)
Invite(c, t, u, role) ==
    LET was == member[t][u] IN
    /\ Unlocked(t)
    /\ was.status \in {"none", "revoked", "lapsed"}
    /\ t # Organization => member[Organization][u].status = "active"
    /\ \E actor \in Users :
          MayGrant(actor, t, {role} \cup (IF was.status = "none" THEN {} ELSE {was.role}))
    /\ Request(c, "invite", t, u, Row(role, "invited"))

(* No lock, and in a workspace no second look at the organization. *)
Accept(c, t, u) ==
    /\ member[t][u].status = "invited"
    /\ Request(c, "accept", t, u, Row(member[t][u].role, "active"))

ChangeRole(c, t, u, role) ==
    LET was == member[t][u] IN
    /\ Unlocked(t)
    /\ was.status = "active" /\ was.role # role
    /\ \E actor \in Users : MayGrant(actor, t, {was.role, role})
    /\ NotLast(t, u)
    /\ Request(c, "changeRole", t, u, Row(role, "active"))

Revoke(c, t, u) ==
    LET was == member[t][u] IN
    /\ Unlocked(t)
    /\ was.status \in {"invited", "lapsed", "active"}
    /\ \E actor \in Users : MayGrant(actor, t, {was.role})
    /\ NotLast(t, u)
    /\ Request(c, "revoke", t, u, Row(was.role, "revoked"))

(***************************************************************************)
(* provision, whose quota lock lets one workspace of the organization be   *)
(* made at a time.  Its first admin is active at once; nobody asks whether *)
(* the organization has that user.                                         *)
(***************************************************************************)
Provision(c, w, u) ==
    /\ \A d \in DOMAIN tx : tx[d].op # "provision"
    /\ ~Exists(w)
    /\ Request(c, "provision", w, u, Row("workspace_admin", "active"))

-----------------------------------------------------------------------------
(* Writing and committing.                                                 *)

(* A lapsed invitation is an invited row past its expires_at. *)
Stored(status) == IF status = "lapsed" THEN "invited" ELSE status

(***************************************************************************)
(* The WHERE of the update.  A workspace's rows have a version; an         *)
(* organization's are compared by what the update is about.                *)
(***************************************************************************)
StillAsRead(c) ==
    LET row == member[tx[c].tier][tx[c].user] IN
    IF tx[c].tier # Organization THEN ~tx[c].moved
    ELSE /\ Stored(row.status) = Stored(tx[c].was.status)
         /\ tx[c].op = "changeRole" => row.role = tx[c].was.role

(* Mutant of Result: the role accepted is the one held in the organization. *)
ResultOfOrganization(c) ==
    IF tx[c].op = "accept" THEN Row(member[Organization][tx[c].user].role, "active")
    ELSE tx[c].next

(* What is written: accept leaves the role as the row has it. *)
Result(c) ==
    IF tx[c].op = "accept" THEN Row(member[tx[c].tier][tx[c].user].role, "active")
    ELSE tx[c].next

IsAbout(d, t, u) == tx[d].op # "none" /\ tx[d].tier = t /\ tx[d].user = u

(* First admins nobody asked about, until they are members after all or removed. *)
Unasked(c) ==
    LET t == tx[c].tier  u == tx[c].user IN
    CASE tx[c].op = "provision" /\ member[Organization][u].status # "active" ->
             unasked \cup {<<t, u>>}
      [] tx[c].op = "revoke" -> unasked \ {<<t, u>>}
      [] tx[c].op = "accept" /\ t = Organization -> unasked \ (Workspaces \X {u})
      [] OTHER -> unasked

(* The row is written and everybody else's version of it is old. *)
Rows(c) ==
    LET t == tx[c].tier  u == tx[c].user IN
    /\ unasked' = Unasked(c)
    /\ member' = [member EXCEPT ![t][u] = Result(c)]
    /\ tx' = [d \in DOMAIN tx |->
                 IF d = c THEN Idle
                 ELSE IF IsAbout(d, t, u) /\ t # Organization THEN [tx[d] EXCEPT !.moved = TRUE]
                 ELSE tx[d]]

(* The commit, with OrgMembershipRevoked if that is what it did. *)
Commit(c) ==
    /\ tx[c].op # "none" /\ StillAsRead(c)
    /\ Rows(c)
    /\ pending' = IF tx[c].op = "revoke" /\ tx[c].tier = Organization
                  THEN [pending EXCEPT ![tx[c].user] = @ + 1] ELSE pending
    /\ UNCHANGED <<cascade, orphaned, commands, faults>>

(* ConcurrentModification *)
Conflict(c) ==
    /\ tx[c].op # "none" /\ ~StillAsRead(c)
    /\ tx' = [tx EXCEPT ![c] = Idle]
    /\ UNCHANGED <<member, pending, cascade, orphaned, unasked, commands, faults>>

(* The caller is lost, and its transaction with it. *)
Lose(c) ==
    /\ tx[c].op # "none"
    /\ Fault
    /\ tx' = [tx EXCEPT ![c] = Idle]
    /\ UNCHANGED <<member, pending, cascade, orphaned, unasked, commands>>

(* expires_at passes. *)
Lapse(t, u) ==
    /\ member[t][u].status = "invited"
    /\ member' = [member EXCEPT ![t][u].status = "lapsed"]
    /\ UNCHANGED <<tx, pending, cascade, orphaned, unasked, commands, faults>>

-----------------------------------------------------------------------------
(* The cascades, one at most in each server.                               *)

Serving(u) == {x \in Servers : cascade[x].user = {u}}

(* An event that no other server has, and the workspaces there are by now. *)
Take(x, u) ==
    /\ cascade[x] = NoCascade /\ Cardinality(Serving(u)) < pending[u]
    /\ cascade' = [cascade EXCEPT ![x] =
                      [user |-> {u}, todo |-> {w \in Workspaces : Exists(w)}, failed |-> FALSE]]
    /\ UNCHANGED <<member, tx, pending, orphaned, unasked, commands, faults>>

(* The workspace the cascade has come to. *)
IsNext(x, w, u) ==
    /\ cascade[x].user = {u} /\ tx[x] = Idle
    /\ w \in cascade[x].todo /\ \A v \in cascade[x].todo : w <= v

(* It is done with w, or has failed there and goes on. *)
Past(x, w, failed) ==
    cascade' = [cascade EXCEPT ![x] =
                  [user |-> cascade[x].user, todo |-> cascade[x].todo \ {w},
                   failed |-> cascade[x].failed \/ failed]]

(* Not a member, or revoked already: an ordinary outcome. *)
PassOver(x, w, u) ==
    /\ IsNext(x, w, u) /\ Unlocked(w)
    /\ member[w][u].status \in {"none", "revoked"}
    /\ Past(x, w, FALSE)
    /\ UNCHANGED <<member, tx, pending, orphaned, unasked, commands, faults>>

(* The last admin is not protected from the cascade. *)
BeginRevoke(x, w, u) ==
    /\ IsNext(x, w, u) /\ Unlocked(w)
    /\ member[w][u].status \in {"invited", "lapsed", "active"}
    /\ Begin(x, "revoke", w, u, Row(member[w][u].role, "revoked"))
    /\ UNCHANGED <<member, pending, cascade, orphaned, unasked, commands, faults>>

EndRevoke(x) ==
    LET t == tx[x].tier  u == tx[x].user IN
    /\ tx[x].op # "none"
    /\ \/ /\ StillAsRead(x)
          /\ Rows(x)
          /\ orphaned' = IF ActiveOwners(t) = {u} THEN orphaned \cup {t} ELSE orphaned
          /\ Past(x, t, FALSE)
       \/ /\ ~StillAsRead(x)
          /\ tx' = [tx EXCEPT ![x] = Idle]
          /\ Past(x, t, TRUE)
          /\ UNCHANGED <<member, orphaned, unasked>>
    /\ UNCHANGED <<pending, commands, faults>>

(* A transaction fails; the other workspaces are still visited. *)
RevokeFails(x, w, u) ==
    /\ IsNext(x, w, u)
    /\ Fault
    /\ Past(x, w, TRUE)
    /\ UNCHANGED <<member, tx, pending, orphaned, unasked, commands>>

(* Complete, it commits the marker; incomplete, it throws and the event remains. *)
Finish(x, u) ==
    /\ cascade[x].user = {u} /\ cascade[x].todo = {}
    /\ pending' = IF cascade[x].failed THEN pending ELSE [pending EXCEPT ![u] = @ - 1]
    /\ cascade' = [cascade EXCEPT ![x] = NoCascade]
    /\ UNCHANGED <<member, tx, orphaned, unasked, commands, faults>>

(* The server dies; its event remains too. *)
Die(x) ==
    /\ cascade[x] # NoCascade
    /\ Fault
    /\ tx' = [tx EXCEPT ![x] = Idle]
    /\ cascade' = [cascade EXCEPT ![x] = NoCascade]
    /\ UNCHANGED <<member, pending, orphaned, unasked, commands>>

-----------------------------------------------------------------------------

Ask(c) ==
    \E t \in Tiers, u \in Users :
        \/ Accept(c, t, u) \/ Revoke(c, t, u)
        \/ \E role \in Offered[t] : Invite(c, t, u, role) \/ ChangeRole(c, t, u, role)
        \/ t \in Workspaces /\ Provision(c, t, u)

Next ==
    \/ \E c \in Callers : Ask(c) \/ Commit(c) \/ Conflict(c) \/ Lose(c)
    \/ \E t \in Tiers, u \in Users : Lapse(t, u)
    \/ \E x \in Servers :
          \/ \E u \in Users :
                \/ Take(x, u) \/ Finish(x, u)
                \/ \E w \in Workspaces :
                      PassOver(x, w, u) \/ BeginRevoke(x, w, u) \/ RevokeFails(x, w, u)
          \/ EndRevoke(x) \/ Die(x)

Spec == Init /\ [][Next]_vars

-----------------------------------------------------------------------------

Statuses == {"none", "invited", "lapsed", "active", "revoked"}

RowOK(t) == [role : RolesOf(t), status : Statuses]

TransactionOK(t) ==
    [op : {"none", "invite", "accept", "changeRole", "revoke", "provision"}, tier : {t},
     user : Users, was : RowOK(t), next : RowOK(t), moved : BOOLEAN]

TypeOK ==
    /\ DOMAIN member = Tiers /\ \A t \in Tiers : member[t] \in [Users -> RowOK(t)]
    /\ DOMAIN tx = Callers \cup Servers /\ \A c \in DOMAIN tx : \E t \in Tiers : tx[c] \in TransactionOK(t)
    /\ pending \in [Users -> Nat]
    /\ cascade \in [Servers -> [user : {{}} \cup {{u} : u \in Users}, todo : SUBSET Workspaces,
                               failed : BOOLEAN]]
    /\ orphaned \subseteq Workspaces
    /\ unasked \subseteq Workspaces \X Users
    /\ commands \in 0..MaxCommands /\ faults \in 0..MaxFaults

(***************************************************************************)
(* However changes of role and revocations of several owners overlap, the  *)
(* organization is never without an active owner, and a workspace without  *)
(* an active admin only once a cascade has taken its last one.             *)
(***************************************************************************)
OwnersRemain == \A t \in Tiers \ orphaned : Exists(t) => ActiveOwners(t) # {}

(***************************************************************************)
(* "Removing someone from the organization revokes every workspace         *)
(* membership they hold within it": once no revocation is still to be      *)
(* carried out, whoever is a member of a workspace, or invited to it, is   *)
(* an active member of the organization.  The exception is the first admin *)
(* of a workspace whose provisioning committed while the organization did  *)
(* not have that user: nobody asks, and a cascade that listed the          *)
(* workspaces before does not come there.  It lasts until the organization *)
(* accepts the user or the membership is revoked.                          *)
(***************************************************************************)
NoStrayAccess ==
    \A u \in Users :
        pending[u] = 0 /\ member[Organization][u].status # "active" =>
            \A w \in Workspaces :
                <<w, u>> \in unasked \/ member[w][u].status \in {"none", "revoked"}
=============================================================================
