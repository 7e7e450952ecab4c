------------------------------ MODULE MCCatalog ------------------------------
(***************************************************************************)
(* Small instances of Catalog.                                             *)
(***************************************************************************)
EXTENDS Catalog, TLC

Symmetric == Permutations(Games) \cup Permutations(Requests)
=============================================================================
