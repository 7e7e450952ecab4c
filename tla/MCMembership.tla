---------------------------- MODULE MCMembership ----------------------------
(***************************************************************************)
(* Small instances of Membership: one founding admin, two ids for accounts *)
(* to come, two addresses.                                                 *)
(***************************************************************************)
EXTENDS Membership, TLC

CONSTANTS root, ana, bruno, e1, e2

MCFounderEmail == root :> e1
MCFounderRole  == root :> "admin"

Symmetric == Permutations({ana, bruno}) \cup Permutations(Invitations)
             \cup Permutations(JoinRequests) \cup Permutations(Requests)
=============================================================================
