----------------------------- MODULE Reception ------------------------------
(***************************************************************************)
(* The receive side of the driver: from the receive FIFO of the chip,      *)
(* through the interrupt service routine, into the ring receiveMessageBuf_ *)
(* and out of it by ReadMessage.                                           *)
(*                                                                         *)
(* The ring has one writer, the thread of the interrupt service routine,   *)
(* and one reader, DataReceiveThread.  They share two atomic indices and   *)
(* no lock.  The writer never looks at the tail; it increments the head    *)
(* first and wraps it after, so for a moment the head is the ring's size.  *)
(*                                                                         *)
(* The pulse that ProcessMessageBuffer turns into a notification only ends *)
(* the wait of ReadMessage early: it looks again every 2 ms anyway.        *)
(***************************************************************************)
EXTENDS Integers, Sequences

LOCAL INSTANCE Functions

CONSTANTS
    Size,         \* RECEIVE_BUFFER_SIZE
    MaxMessages,  \* MAX_RECEIVED_MESSAGES
    FifoSize,     \* frames the chip's FIFO holds
    MaxFrames,    \* bound: frames on the bus
    MaxReads,     \* bound: frames returned, the repeated ones too
    MaxEvents     \* bound: interrupts for something else than reception

ASSUME ReceptionAssumption ==
    /\ Size \in Nat \ {0}
    /\ MaxMessages \in Nat
    /\ FifoSize \in Nat \ {0}
    /\ MaxFrames \in Nat
    /\ MaxReads \in Nat
    /\ MaxEvents \in Nat

\* Frames are numbered in the order they are on the bus.  A slot that was never
\* written, or that is being written, holds no frame.
Frames == 1 .. MaxFrames
NoFrame == 0
Never   == -1

\* Bits of the interrupt register, by what the routine does with them: overrun,
\* error warning and transmission (low), bus error, error passive, wake-up
\* (high).  The receive bit is up while the FIFO holds a frame.
Low  == {"RX", "OVERRUN", "LOW"}
Bits == {"OVERRUN", "LOW", "HIGH"}

VARIABLES
    fifo,       \* receive FIFO of the chip
    intrReg,    \* interrupt register of the chip, but for the receive bit
    icr,        \* interrupt latched in the bridge (PCAN_ICR)
    arrived,    \* frames that were on the bus
    missed,     \* frames that found the FIFO full
    events,     \* interrupts raised for something else
    isr,        \* where the interrupt service routine is
    ireg,       \* its copy of the interrupt register
    messages,   \* how often ReceiveMessage may still go on
    released,   \* frames released without having been read
    buf,        \* the ring
    head,       \* receiveMessageBufHead_
    tail,       \* receiveMessageBufTail_
    written,    \* frames the head has passed
    taken,      \* frames ReadMessage has returned
    newest,     \* the last of them; Never once one was old, torn or missing
    raced,      \* a read met the head before it wrapped, and nothing to read
    lapped      \* the head has passed the tail

chip   == <<fifo, intrReg, icr, arrived, missed, events>>
isrs   == <<isr, ireg, messages, released>>
ring   == <<buf, head, tail, written, taken>>
faults == <<newest, raced, lapped>>
vars   == <<chip, isrs, ring, faults>>

\* What each variable may hold: the head is the ring's size between increment
\* and wrap, and no access to the ring is outside it.
TypeOK ==
    /\ fifo \in Seq(Frames) /\ Len(fifo) <= FifoSize
    /\ intrReg \subseteq Bits
    /\ icr \in BOOLEAN
    /\ arrived \in 0 .. MaxFrames
    /\ missed \in 0 .. MaxFrames
    /\ events \in 0 .. MaxEvents
    /\ isr \in {"wait", "read", "copy", "release", "advance", "wrap", "error",
               "leave"}
    /\ ireg \subseteq Bits \cup {"RX"}
    /\ messages \in 0 .. MaxMessages
    /\ released \in 0 .. MaxFrames
    /\ buf \in [0 .. Size - 1 -> Frames \cup {NoFrame}]
    /\ head \in 0 .. Size
    /\ isr \notin {"wrap"} => head < Size
    /\ tail \in 0 .. Size - 1
    /\ written \in 0 .. MaxFrames
    /\ taken \in 0 .. MaxReads
    /\ newest \in Never .. MaxFrames
    /\ raced \in BOOLEAN
    /\ lapped \in BOOLEAN

Init ==
    /\ fifo = <<>>
    /\ intrReg = {}
    /\ icr = FALSE
    /\ arrived = 0
    /\ missed = 0
    /\ events = 0
    /\ isr = "wait"
    /\ ireg = {}
    /\ messages = 0
    /\ released = 0
    /\ buf = [i \in 0 .. Size - 1 |-> NoFrame]
    /\ head = 0
    /\ tail = 0
    /\ written = 0
    /\ taken = 0
    /\ newest = 0
    /\ raced = FALSE
    /\ lapped = FALSE

-----------------------------------------------------------------------------
(***************************************************************************)
(* The chip.  Its interrupt line is up while a bit is set or the FIFO      *)
(* holds a frame; the bridge latches the rise of the line.                 *)
(***************************************************************************)

LineUp == intrReg # {} \/ fifo # <<>>

FrameArrives ==
    /\ arrived < MaxFrames
    /\ arrived' = arrived + 1
    /\ icr' = (icr \/ ~ LineUp)
    /\ \/ /\ Len(fifo) < FifoSize
          /\ fifo' = Append(fifo, arrived + 1)
          /\ UNCHANGED <<intrReg, missed>>
       \/ /\ Len(fifo) = FifoSize
          /\ missed' = missed + 1
          /\ intrReg' = intrReg \cup {"OVERRUN"}
          /\ UNCHANGED fifo
    /\ UNCHANGED <<events, isrs, ring, faults>>

OtherInterrupt(bit) ==
    /\ events < MaxEvents
    /\ events' = events + 1
    /\ icr' = (icr \/ ~ LineUp)
    /\ intrReg' = intrReg \cup {bit}
    /\ UNCHANGED <<fifo, arrived, missed, isrs, ring, faults>>

-----------------------------------------------------------------------------
(***************************************************************************)
(* The interrupt service routines of ControllerFactory and of the          *)
(* controller.                                                             *)
(***************************************************************************)

\* ControllerFactory found the interrupt latched, on an interrupt or at the
\* latest after 100 ms.  It acknowledges, then serves.
Acknowledge ==
    /\ isr = "wait"
    /\ icr
    /\ icr' = FALSE
    /\ isr' = "read"
    /\ UNCHANGED <<fifo, intrReg, arrived, missed, events, ireg, messages,
                   released, ring, faults>>

\* One read of the register; the routine is left when no low bit is set.
ReadInterrupts ==
    /\ isr = "read"
    /\ LET bits == intrReg \cup (IF fifo # <<>> THEN {"RX"} ELSE {})
       IN  IF bits \cap Low = {}
           THEN isr' = "leave" /\ ireg' = {} /\ UNCHANGED messages
           ELSE /\ isr' = IF "RX" \in bits THEN "copy" ELSE "error"
                /\ ireg' = bits
                /\ messages' = MaxMessages
    /\ intrReg' = {}
    /\ UNCHANGED <<fifo, icr, arrived, missed, events, released, ring, faults>>

\* A latch set since it was acknowledged stays, and ControllerFactory calls again.
LatchCleared == icr' = FALSE
LatchKept    == UNCHANGED icr

LeaveInterrupts ==
    /\ isr = "leave"
    /\ isr' = "wait"
    /\ LatchKept
    /\ UNCHANGED <<fifo, intrReg, arrived, missed, events, ireg, messages,
                   released, ring, faults>>

\* ReceiveMessage starts to copy the frame at the front of the FIFO ...
CopyMessage ==
    /\ isr = "copy"
    /\ buf' = [buf EXCEPT ![head] = NoFrame]
    /\ isr' = "release"
    /\ UNCHANGED <<chip, ireg, messages, released, head, tail, written,
                   taken, faults>>

\* ... has copied it, and releases the FIFO's buffer ...
NotReleased == UNCHANGED fifo
Released    == fifo' = Tail(fifo)

ReleaseBuffer ==
    /\ isr = "release"
    /\ buf' = [buf EXCEPT ![head] = Head(fifo)]
    /\ Released
    /\ isr' = "advance"
    /\ UNCHANGED <<intrReg, icr, arrived, missed, events, ireg, messages, released,
                   head, tail, written, taken, faults>>

\* ... increments the head, which makes the frame readable ...
AdvanceHead ==
    /\ isr = "advance"
    /\ head' = head + 1
    /\ written' = written + 1
    /\ lapped' = (lapped \/ written' - taken >= Size)
    /\ isr' = "wrap"
    /\ UNCHANGED <<chip, ireg, messages, released, buf, tail, taken, newest,
                   raced>>

\* ... wraps it, and goes on while there are frames, for a limited number.
LateWrap  == IF head > Size THEN 0 ELSE head
EarlyWrap == IF head = Size - 1 THEN 0 ELSE head
Wrapped   == IF head = Size THEN 0 ELSE head

MoreToRead  == fifo # <<>> /\ messages > 0

WrapHead ==
    /\ isr = "wrap"
    /\ head' = Wrapped
    /\ IF MoreToRead
       THEN isr' = "copy" /\ messages' = messages - 1
       ELSE isr' = "error" /\ UNCHANGED messages
    /\ UNCHANGED <<chip, ireg, released, buf, tail, written, taken, faults>>

\* An overrun is cleared with a command that also releases the buffer at the
\* front of the FIFO.
ClearOverrun ==
    /\ isr = "error"
    /\ isr' = "read"
    /\ IF "OVERRUN" \in ireg /\ fifo # <<>>
       THEN fifo' = Tail(fifo) /\ released' = released + 1
       ELSE UNCHANGED <<fifo, released>>
    /\ UNCHANGED <<intrReg, icr, arrived, missed, events, ireg, messages,
                   ring, faults>>

-----------------------------------------------------------------------------
(***************************************************************************)
(* ReadMessage, called by DataReceiveThread: the indices differ, so there  *)
(* is a frame at the tail.  One step, taken when the copy of the frame is  *)
(* complete: the routine writes to the slot under the copy only after it   *)
(* has lapped the tail, which the slot's frame still counts for.           *)
(***************************************************************************)

AlwaysReady == TRUE
HeadAhead   == head > tail
Ready       == head # tail

Newer(frame) == IF newest # Never /\ frame > newest THEN frame ELSE Never

ReadMessage ==
    /\ taken < MaxReads
    /\ Ready
    /\ newest' = Newer(buf[tail])
    /\ tail' = (tail + 1) % Size
    /\ taken' = taken + 1
    /\ raced' = (raced \/ (head = Size /\ taken >= written))
    /\ UNCHANGED <<chip, isrs, buf, head, written, lapped>>

-----------------------------------------------------------------------------
InterruptServiceRoutine ==
    \/ Acknowledge
    \/ ReadInterrupts
    \/ LeaveInterrupts
    \/ CopyMessage
    \/ ReleaseBuffer
    \/ AdvanceHead
    \/ WrapHead
    \/ ClearOverrun

Next ==
    \/ FrameArrives
    \/ \E bit \in {"LOW", "HIGH"} : OtherInterrupt(bit)
    \/ InterruptServiceRoutine
    \/ ReadMessage

Spec == Init /\ [][Next]_vars

\* The thread of the routine looks at the latch at least every 100 ms, and
\* ReadMessage at the indices every 2 ms.
Fairness == WF_vars(InterruptServiceRoutine) /\ WF_vars(ReadMessage)

FairSpec == Spec /\ Fairness

-----------------------------------------------------------------------------
(***************************************************************************)
(* Properties.                                                             *)
(***************************************************************************)

\* Until the ring was lapped or a read raced with a wrap, ...
Sound == ~ raced /\ ~ lapped

\* ... the unread part of the ring, from the tail, is the frames written last, in
\* the order they were on the bus, newer than all that were read, ...
UnreadInOrder ==
    Sound =>
      /\ taken <= written
      /\ head % Size = (tail + written - taken) % Size
      /\ \A i \in 0 .. written - taken - 1 :
           LET frame == buf[(tail + i) % Size]
           IN  /\ frame > newest
               /\ i > 0 => frame > buf[(tail + i - 1) % Size]

\* ... and ReadMessage returns each frame once, whole and in order.
ReadOnce == Sound => newest # Never

\* A frame that was on the bus is in the FIFO, was written to the ring, found the
\* FIFO full or was released by the handling of an overrun; nothing else loses one.
Accounted ==
    arrived = Len(fifo) + written + (IF isr = "advance" THEN 1 ELSE 0)
                + missed + released

\* A frame in the FIFO leaves it: it is read, or goes with an overrun.
FifoServed ==
    \A frame \in Frames : frame \in Range(fifo) ~> frame \notin Range(fifo)

\* A frame in the ring is returned in the end.
RingRead ==
    \A count \in Frames :
        (written = count /\ taken < count) ~> taken >= count \/ lapped \/ raced

\* ReadMessage returns new frames only.
OnlyNewFrames == newest # Never
=============================================================================
