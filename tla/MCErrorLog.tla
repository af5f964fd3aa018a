----------------------------- MODULE MCErrorLog -----------------------------
(***************************************************************************)
(* Instances of ErrorLog for TLC: what a thread may find on its stack.     *)
(***************************************************************************)
EXTENDS ErrorLog

MCAnyCode == {"INTERRUPT_PULSE", "TERMINATE_PULSE", "other"}
=============================================================================
