---------------------------- MODULE MCReception -----------------------------
(***************************************************************************)
(* Reception for TLC: the properties of the ring together, as the runs     *)
(* check them.                                                             *)
(***************************************************************************)
EXTENDS Reception
=============================================================================
