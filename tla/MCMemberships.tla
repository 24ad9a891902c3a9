--------------------------- MODULE MCMemberships ---------------------------
(* An organization with one workspace, or more. *)
EXTENDS Memberships, TLC

CONSTANTS a, b, c1, c2, s1, s2

MCOffered ==
    (0 :> {"org_owner", "org_member"}) @@ [w \in Workspaces |-> {"workspace_admin", "editor"}]

(* Callers are alike, and so are servers. *)
MCSymmetry == Permutations(Callers) \cup Permutations(Servers)
=============================================================================
