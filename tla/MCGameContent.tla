---------------------------- MODULE MCGameContent ----------------------------
(***************************************************************************)
(* Small instances of GameContent: a game with two blocks.                 *)
(***************************************************************************)
EXTENDS GameContent, TLC

CONSTANTS b1, b2

TwoBlocks == <<b1, b2>>

Symmetric == Permutations(Requests) \cup Permutations(BlockIds \ {b1, b2})
=============================================================================
