--------------------------- MODULE TransmitQueue ----------------------------
(***************************************************************************)
(* Transmit implements SendQueue.  A write reaches the queue when          *)
(* WriteMessage has decided what becomes of its frame: with the buffer     *)
(* free and nothing queued it never enters transmitDataQueue_, and waits   *)
(* in the hand of the thread that loads it, as does the frame that         *)
(* ProcessTransmitFlag took out.                                           *)
(***************************************************************************)
EXTENDS Transmit

Loading == {canFrame[t] : t \in {u \in Loaders : pc[u] \in {"enter", "load"}}}
Writing == pc["dispatch"] \in {"lock", "check", "push"}

\* The write under way, and the frames that wait.
InWriting == IF Writing THEN canFrame["dispatch"] ELSE None
Waiting   == transmitDataQueue \cup Loading

Queue == INSTANCE SendQueue WITH writing <- InWriting, queue <- Waiting, bus <- txBuffer

\* Two threads share the queue and a third the flag, and the write that finds the
\* buffer free goes around the queue: still each frame goes to the bus once, before
\* every frame with a higher identifier whose write was decided by then.
ImplementsQueue == Queue!Spec
=============================================================================
