----------------------------- MODULE MCSessions -----------------------------
(***************************************************************************)
(* Small instances of Sessions: one admin and one outsider share a         *)
(* browser.                                                                *)
(***************************************************************************)
EXTENDS Sessions, TLC

CONSTANTS root, ana

MCFirstRole == root :> "admin" @@ ana :> "outsider"

Symmetric == Permutations(Tokens) \cup Permutations(Requests)
=============================================================================
