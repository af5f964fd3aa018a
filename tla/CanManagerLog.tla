---------------------------- MODULE CanManagerLog ----------------------------
(***************************************************************************)
(* CanManager implements FrameLog, as long as the 32-bit head of the ring  *)
(* does not wrap.  The log is the readable part of the ring, and while the *)
(* receive thread walks the delayed requests also the frame at the head,   *)
(* which the walk replies with before it is published.                     *)
(***************************************************************************)
EXTENDS CanManager

LogNext == IF pc = "walk" THEN queueHead + 1 ELSE queueHead

Log == INSTANCE FrameLog WITH
    Readers <- Ocbs,
    Window  <- N,
    Unknown <- Torn,
    next    <- LogNext,
    log     <- [i \in queueBottom .. LogNext - 1 |-> Slot(i).id],
    reader  <- [o \in live |-> [at      |-> offset[o],
                                accepts |-> filter[o],
                                got     |-> expected[o],
                                owed    |-> interrupts[o] - lost[o]]]

\* Whatever the two threads and the clients do, and however far a reader falls
\* behind, what the clients of a descriptor see is a walk through the log: each
\* read returns the first accepted frame from the descriptor's position, and a
\* frame is passed over only when rejected, overwritten or paid for by an
\* interrupted read.
ImplementsLog == Log!Spec
=============================================================================
