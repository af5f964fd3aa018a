----------------------------- MODULE MCTransmit -----------------------------
(***************************************************************************)
(* Instances of Transmit for TLC: what a thread may find on its stack.     *)
(***************************************************************************)
EXTENDS TransmitQueue

MCAnyCode == {"INTERRUPT_PULSE", "TERMINATE_PULSE", "other"}
MCIds     == {1, 2}
=============================================================================
