--------------------------- MODULE MCAssociations ---------------------------
(***************************************************************************)
(* Small instances of Associations.  EditsEnd is a liveness property, so   *)
(* they use no symmetry.                                                   *)
(***************************************************************************)
EXTENDS Associations
=============================================================================
