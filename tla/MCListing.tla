------------------------------ MODULE MCListing ------------------------------
(***************************************************************************)
(* A small instance of Listing: the seed left a game and its variant, both *)
(* of one moment; one more game is to come.                                *)
(***************************************************************************)
EXTENDS Listing, TLC

MCSeeded == 2 :> [original |-> Null, lo |-> 1, hi |-> 2]
         @@ 3 :> [original |-> 2, lo |-> Null, hi |-> Null]

\* Every text matches well at first.
MCFirstRank == [g \in Games |-> 2]
=============================================================================
