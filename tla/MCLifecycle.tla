---------------------------- MODULE MCLifecycle -----------------------------
(***************************************************************************)
(* Lifecycle for TLC: a signal may meet any thread.                        *)
(***************************************************************************)
EXTENDS Lifecycle

MCAnyThread == Threads
=============================================================================
