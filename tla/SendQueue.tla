----------------------------- MODULE SendQueue ------------------------------
(***************************************************************************)
(* What the transmit side of the driver promises: one queue between the    *)
(* writes and the bus, from which the frame with the lowest identifier is  *)
(* next, each frame once.  No buffer, no flag, no threads, no interrupts.  *)
(***************************************************************************)
EXTENDS Integers

CONSTANTS
    Frames,     \* frames, each with its identifier, id
    None        \* no frame

VARIABLES
    writing,    \* the frame of the write under way, not in the queue yet
    queue,      \* the frames that wait
    bus,        \* the frame the controller sends
    sent        \* the frames that were on the bus

vars == <<writing, queue, bus, sent>>

Init == writing = None /\ queue = {} /\ bus = None /\ sent = {}

Write(f) ==
    /\ writing = None
    /\ f \notin queue \cup {bus} \cup sent
    /\ writing' = f
    /\ UNCHANGED <<queue, bus, sent>>

Accept ==
    /\ writing # None
    /\ queue' = queue \cup {writing}
    /\ writing' = None
    /\ UNCHANGED <<bus, sent>>

First(f) == f \in queue /\ \A g \in queue : f.id <= g.id

\* A frame that is on its way to the bus is overtaken by none.
Start(f) ==
    /\ bus = None
    /\ First(f)
    /\ bus' = f
    /\ queue' = queue \ {f}
    /\ UNCHANGED <<writing, sent>>

Send ==
    /\ bus # None
    /\ sent' = sent \cup {bus}
    /\ bus' = None
    /\ UNCHANGED <<writing, queue>>

Next == Accept \/ Send \/ \E f \in Frames : Write(f) \/ Start(f)

Spec == Init /\ [][Next]_vars
=============================================================================
