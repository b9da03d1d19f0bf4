----------------------------- MODULE MCTopoSort -----------------------------
(***************************************************************************)
(* Instance of TopoSort for TLC.                                           *)
(***************************************************************************)
EXTENDS TopoSort
=============================================================================
