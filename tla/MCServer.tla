------------------------------ MODULE MCServer -------------------------------
(***************************************************************************)
(* A small instance of Server: more handlers than connections.             *)
(***************************************************************************)
EXTENDS Server
=============================================================================
