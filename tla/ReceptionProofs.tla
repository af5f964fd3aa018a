--------------------------- MODULE ReceptionProofs ---------------------------
(***************************************************************************)
(* Safety of the receive ring between the interrupt routine and            *)
(* ReadMessage, for rings and FIFOs of any size and any number of frames.  *)
(*                                                                         *)
(* FifoInv says that the routine only takes a frame from a FIFO that has   *)
(* one, IndexInv that the indices count what was written and taken, also   *)
(* while the head is not wrapped.  RingInv is what UnreadInOrder and       *)
(* ReadOnce need to be inductive: the frames to come, in the FIFO and on   *)
(* the bus, are newer than those in the ring, and those than the one read. *)
(***************************************************************************)
EXTENDS Reception, RingLemmas, TLAPS

FifoInv == isr \in {"copy", "release"} => fifo # <<>>

IndexInv ==
    /\ IF isr = "wrap"
       THEN written > 0 /\ head = ((written - 1) % Size) + 1
       ELSE head = written % Size
    /\ tail = taken % Size

TypeInv == TypeOK /\ Accounted /\ FifoInv

\* The frame at the head is complete, but the head has not passed it.
Filled == written + (IF isr = "advance" THEN 1 ELSE 0)
Slots  == taken .. Filled - 1
At(k)  == buf[k % Size]

FifoOrder ==
    \A i \in 1 .. Len(fifo) :
      /\ fifo[i] <= arrived
      /\ \A j \in 1 .. i - 1 : fifo[j] < fifo[i]

RingOrder ==
    \A k \in Slots :
      /\ newest < At(k)
      /\ At(k) <= arrived
      /\ \A l \in taken .. k - 1 : At(l) < At(k)
      /\ \A i \in 1 .. Len(fifo) : At(k) < fifo[i]

NewestOrder ==
    /\ newest \in 0 .. arrived
    /\ \A i \in 1 .. Len(fifo) : newest < fifo[i]

RingInv ==
    Sound =>
      /\ taken <= written
      /\ written - taken < Size
      /\ NewestOrder
      /\ RingOrder

-----------------------------------------------------------------------------
\* The driver starts with an empty FIFO and an empty ring.
LEMMA InvInit == Init => TypeInv /\ IndexInv /\ FifoOrder /\ RingInv
<1> SUFFICES ASSUME Init PROVE TypeInv /\ IndexInv /\ FifoOrder /\ RingInv
  OBVIOUS
<1> USE ReceptionAssumption
<1>1. TypeOK
  <2>1. /\ 0 \in 0 .. MaxFrames /\ 0 \in Never .. MaxFrames /\ 0 \in 0 .. MaxEvents
        /\ 0 \in 0 .. MaxMessages /\ 0 \in 0 .. MaxReads
        /\ 0 \in 0 .. Size /\ 0 \in 0 .. Size - 1 /\ 0 < Size
    BY DEF Never
  <2>2. fifo \in Seq(Frames) /\ Len(fifo) <= FifoSize
    BY DEF Init
  <2>3. buf \in [0 .. Size - 1 -> Frames \cup {NoFrame}]
    BY DEF Init
  <2> QED
    BY <2>1, <2>2, <2>3 DEF Init, TypeOK
<1>2. Accounted /\ FifoInv
  BY DEF Init, Accounted, FifoInv
<1>3. IndexInv
  BY ModSmall DEF Init, IndexInv
<1>4. FifoOrder
  BY DEF Init, FifoOrder
<1>5. RingInv
  BY DEF Init, RingInv, NewestOrder, RingOrder, Slots, Filled
<1> QED
  BY <1>1, <1>2, <1>3, <1>4, <1>5 DEF TypeInv

\* Every count of frames is bounded by the frames that were on the bus.
LEMMA Counted ==
    ASSUME TypeOK, Accounted
    PROVE  /\ Len(fifo) \in Nat /\ arrived \in Nat /\ written \in Nat /\ missed \in Nat
           /\ released \in Nat
           /\ arrived <= MaxFrames /\ written <= arrived
           /\ isr = "advance" => written + 1 <= arrived
           /\ missed <= arrived
           /\ Len(fifo) + released <= arrived
  BY ReceptionAssumption DEF TypeOK, Accounted

\* What is behind the front of the FIFO.
LEMMA FifoTail ==
    ASSUME TypeOK, fifo # <<>>
    PROVE  /\ Head(fifo) \in Frames
           /\ Tail(fifo) \in Seq(Frames)
           /\ Len(fifo) \in Nat \ {0}
           /\ Head(fifo) = fifo[1]
           /\ Len(Tail(fifo)) = Len(fifo) - 1
           /\ \A i \in 1 .. Len(fifo) - 1 : Tail(fifo)[i] = fifo[i + 1]
<1>1. fifo \in Seq(Frames)
  BY DEF TypeOK
<1> QED
  BY <1>1, HeadTail

\* Every step keeps the indices inside the ring and accounts for each frame.
LEMMA TypeStep ==
    ASSUME TypeInv, [Next]_vars
    PROVE  TypeInv'
<1> USE ReceptionAssumption
<1>0. TypeOK /\ Accounted /\ FifoInv
  BY DEF TypeInv
<1>1. CASE FrameArrives
  <2>1. arrived' = arrived + 1 /\ arrived < MaxFrames
        /\ UNCHANGED <<events, isrs, ring, faults>> /\ icr' \in BOOLEAN
    BY <1>0, <1>1 DEF FrameArrives, TypeOK
  <2>2. arrived' \in 0 .. MaxFrames /\ arrived + 1 \in Frames
    BY <1>0, <2>1, Counted DEF Frames
  <2>3. CASE fifo' = Append(fifo, arrived + 1)
    <3>1. Len(fifo) < FifoSize /\ missed' = missed /\ intrReg' = intrReg
      <4>1. fifo \in Seq(Frames)
        BY <1>0 DEF TypeOK
      <4>2. fifo' # fifo
        BY <2>2, <2>3, <4>1, AppendAt
      <4> QED
        BY <1>1, <4>2 DEF FrameArrives
    <3>2. fifo' \in Seq(Frames) /\ Len(fifo') = Len(fifo) + 1 /\ fifo' # <<>>
      BY <1>0, <2>2, <2>3, AppendAt DEF TypeOK
    <3>3. Len(fifo') <= FifoSize
      BY <1>0, <3>1, <3>2, Counted
    <3>4. TypeOK'
      BY <1>0, <2>1, <2>2, <3>1, <3>2, <3>3 DEF TypeOK, isrs, ring, faults
    <3>5. Accounted'
      BY <1>0, <2>1, <3>1, <3>2, Counted DEF Accounted, isrs, ring
    <3> QED
      BY <2>1, <3>2, <3>4, <3>5 DEF TypeInv, FifoInv
  <2>4. CASE fifo' = fifo
    <3>1. missed' = missed + 1 /\ intrReg' = intrReg \cup {"OVERRUN"}
      <4>1. fifo \in Seq(Frames)
        BY <1>0 DEF TypeOK
      <4>2. fifo' # Append(fifo, arrived + 1)
        BY <2>2, <2>4, <4>1, AppendAt
      <4> QED
        BY <1>1, <4>2 DEF FrameArrives
    <3>2. missed' \in 0 .. MaxFrames
      BY <1>0, <2>1, <3>1, Counted
    <3>3. intrReg' \subseteq Bits
      BY <1>0, <3>1 DEF TypeOK, Bits
    <3>4. TypeOK'
      BY <1>0, <2>1, <2>2, <2>4, <3>2, <3>3 DEF TypeOK, isrs, ring, faults
    <3>5. Accounted'
      <4>1. UNCHANGED <<fifo, isr, released, written>>
        BY <2>1, <2>4 DEF isrs, ring
      <4>2. missed \in Nat /\ released \in Nat /\ written \in Nat /\ arrived \in Nat
            /\ Len(fifo) \in Nat
        BY <1>0, Counted
      <4>3. CASE isr = "advance"
        BY <1>0, <2>1, <3>1, <4>1, <4>2, <4>3 DEF Accounted
      <4>4. CASE isr # "advance"
        BY <1>0, <2>1, <3>1, <4>1, <4>2, <4>4 DEF Accounted
      <4> QED
        BY <4>3, <4>4
    <3> QED
      BY <1>0, <2>1, <2>4, <3>4, <3>5 DEF TypeInv, FifoInv, isrs
  <2> QED
    BY <1>1, <2>3, <2>4 DEF FrameArrives
<1>2. ASSUME NEW bit \in {"LOW", "HIGH"}, OtherInterrupt(bit) PROVE TypeInv'
  <2>1. TypeOK'
    BY <1>0, <1>2 DEF OtherInterrupt, TypeOK, Bits, isrs, ring, faults
  <2> QED
    BY <1>0, <1>2, <2>1 DEF TypeInv, OtherInterrupt, Accounted, FifoInv, isrs, ring
<1>3. CASE Acknowledge
  <2>1. TypeOK'
    BY <1>0, <1>3 DEF Acknowledge, TypeOK, ring, faults
  <2> QED
    BY <1>0, <1>3, <2>1 DEF TypeInv, Acknowledge, Accounted, FifoInv, ring
<1>4. CASE ReadInterrupts
  <2> DEFINE bits == intrReg \cup (IF fifo # <<>> THEN {"RX"} ELSE {})
  <2>1. /\ isr = "read" /\ isr' \in {"leave", "copy", "error"}
        /\ isr' = "copy" => "RX" \in bits
        /\ ireg' \in {{}, bits} /\ messages' \in {messages, MaxMessages}
        /\ intrReg' = {}
        /\ UNCHANGED <<fifo, icr, arrived, missed, events, released, ring, faults>>
    BY <1>4 DEF ReadInterrupts
  <2>2. ireg' \subseteq Bits \cup {"RX"}
    BY <1>0, <2>1 DEF TypeOK
  <2>3. messages' \in 0 .. MaxMessages
    BY <1>0, <2>1 DEF TypeOK
  <2>4. TypeOK'
    BY <1>0, <2>1, <2>2, <2>3 DEF TypeOK, ring, faults
  <2>5. isr' = "copy" => fifo' # <<>>
    BY <1>0, <2>1 DEF TypeOK, Bits
  <2> QED
    BY <1>0, <2>1, <2>4, <2>5 DEF TypeInv, Accounted, FifoInv, ring
<1>5. CASE LeaveInterrupts
  <2>1. TypeOK'
    BY <1>0, <1>5 DEF LeaveInterrupts, LatchKept, TypeOK, ring, faults
  <2> QED
    BY <1>0, <1>5, <2>1 DEF TypeInv, LeaveInterrupts, Accounted, FifoInv, ring
<1>6. CASE CopyMessage
  <2>1. buf' \in [0 .. Size - 1 -> Frames \cup {NoFrame}]
    BY <1>0, <1>6 DEF CopyMessage, TypeOK
  <2>2. TypeOK'
    BY <1>0, <1>6, <2>1 DEF CopyMessage, TypeOK, chip, faults
  <2> QED
    BY <1>0, <1>6, <2>2 DEF TypeInv, CopyMessage, Accounted, FifoInv, chip
<1>7. CASE ReleaseBuffer
  <2>1. /\ isr = "release" /\ fifo # <<>> /\ isr' = "advance"
        /\ fifo' = Tail(fifo)
        /\ buf' = [buf EXCEPT ![head] = Head(fifo)]
        /\ UNCHANGED <<intrReg, icr, arrived, missed, events, ireg, messages, released,
                       head, tail, written, taken, faults>>
    BY <1>0, <1>7 DEF ReleaseBuffer, Released, FifoInv
  <2>2. buf' \in [0 .. Size - 1 -> Frames \cup {NoFrame}]
    BY <1>0, <2>1, FifoTail DEF TypeOK
  <2>3. fifo' \in Seq(Frames) /\ Len(fifo') = Len(fifo) - 1
    BY <1>0, <2>1, FifoTail
  <2>4. Len(fifo') <= FifoSize
    BY <1>0, <2>3, Counted DEF TypeOK
  <2>5. TypeOK'
    BY <1>0, <2>1, <2>2, <2>3, <2>4 DEF TypeOK, faults
  <2>6. Accounted'
    BY <1>0, <2>1, <2>3, Counted DEF Accounted
  <2> QED
    BY <2>1, <2>5, <2>6 DEF TypeInv, FifoInv
<1>8. CASE AdvanceHead
  <2>1. /\ isr = "advance" /\ isr' = "wrap" /\ head' = head + 1 /\ written' = written + 1
        /\ lapped' \in BOOLEAN
        /\ UNCHANGED <<chip, ireg, messages, released, buf, tail, taken, newest, raced>>
    BY <1>0, <1>8 DEF AdvanceHead, TypeOK
  <2>2. head' \in 0 .. Size /\ written' \in 0 .. MaxFrames
    BY <1>0, <2>1, Counted DEF TypeOK
  <2>3. TypeOK'
    BY <1>0, <2>1, <2>2 DEF TypeOK, chip
  <2>4. Accounted'
    BY <1>0, <2>1, Counted DEF Accounted, chip
  <2> QED
    BY <2>1, <2>3, <2>4 DEF TypeInv, FifoInv
<1>9. CASE WrapHead
  <2>1. /\ isr = "wrap" /\ head' = Wrapped /\ isr' \in {"copy", "error"}
        /\ isr' = "copy" => fifo # <<>> /\ messages > 0
        /\ messages' = (IF isr' = "copy" THEN messages - 1 ELSE messages)
        /\ UNCHANGED <<chip, ireg, released, buf, tail, written, taken, faults>>
    BY <1>9 DEF WrapHead, MoreToRead
  <2>2. head' \in 0 .. Size /\ head' < Size
    BY <1>0, <2>1 DEF Wrapped, TypeOK
  <2>3. messages' \in 0 .. MaxMessages
    BY <1>0, <2>1 DEF TypeOK
  <2>4. TypeOK'
    BY <1>0, <2>1, <2>2, <2>3 DEF TypeOK, chip, faults
  <2> QED
    BY <1>0, <2>1, <2>4 DEF TypeInv, Accounted, FifoInv, chip
<1>10. CASE ClearOverrun
  <2>1. /\ isr = "error" /\ isr' = "read"
        /\ UNCHANGED <<intrReg, icr, arrived, missed, events, ireg, messages, ring, faults>>
    BY <1>10 DEF ClearOverrun
  <2>2. CASE UNCHANGED <<fifo, released>>
    <3>1. TypeOK'
      BY <1>0, <2>1, <2>2 DEF TypeOK, ring, faults
    <3> QED
      BY <1>0, <2>1, <2>2, <3>1 DEF TypeInv, Accounted, FifoInv, ring
  <2>3. CASE fifo # <<>> /\ fifo' = Tail(fifo) /\ released' = released + 1
    <3>1. fifo' \in Seq(Frames) /\ Len(fifo') = Len(fifo) - 1 /\ Len(fifo) \in Nat \ {0}
      BY <1>0, <2>3, FifoTail
    <3>2. Len(fifo') <= FifoSize /\ released' \in 0 .. MaxFrames
      BY <1>0, <2>3, <3>1, Counted DEF TypeOK
    <3>3. TypeOK'
      BY <1>0, <2>1, <3>1, <3>2 DEF TypeOK, ring, faults
    <3>4. Accounted'
      <4>1. UNCHANGED <<arrived, missed, written>>
        BY <2>1 DEF ring
      <4>2. missed \in Nat /\ released \in Nat /\ written \in Nat /\ arrived \in Nat
        BY <1>0, Counted
      <4> QED
        BY <1>0, <2>1, <2>3, <3>1, <4>1, <4>2 DEF Accounted
    <3> QED
      BY <2>1, <3>3, <3>4 DEF TypeInv, FifoInv
  <2> QED
    BY <1>10, <2>2, <2>3 DEF ClearOverrun
<1>11. CASE ReadMessage
  <2>1. /\ taken < MaxReads /\ newest' = Newer(buf[tail])
        /\ tail' = (tail + 1) % Size /\ taken' = taken + 1
        /\ raced' \in BOOLEAN
        /\ UNCHANGED <<chip, isrs, buf, head, written, lapped>>
    BY <1>0, <1>11 DEF ReadMessage, TypeOK
  <2>2. tail' \in 0 .. Size - 1
    <3>1. tail + 1 \in Int
      BY <1>0 DEF TypeOK
    <3> QED
      BY <2>1, <3>1, ModInRange
  <2>3. newest' \in Never .. MaxFrames
    BY <1>0, <2>1 DEF Newer, Never, NoFrame, Frames, TypeOK
  <2>4. taken' \in 0 .. MaxReads
    BY <1>0, <2>1 DEF TypeOK
  <2>5. TypeOK'
    BY <1>0, <2>1, <2>2, <2>3, <2>4 DEF TypeOK, chip, isrs
  <2> QED
    BY <1>0, <2>1, <2>5 DEF TypeInv, Accounted, FifoInv, chip, isrs
<1>12. CASE UNCHANGED vars
  <2>1. TypeOK'
    BY <1>0, <1>12 DEF TypeOK, vars, chip, isrs, ring, faults
  <2> QED
    BY <1>0, <1>12, <2>1 DEF TypeInv, Accounted, FifoInv, vars, chip, isrs, ring
<1> QED
  BY <1>1, <1>2, <1>3, <1>4, <1>5, <1>6, <1>7, <1>8, <1>9, <1>10, <1>11, <1>12
  DEF Next, InterruptServiceRoutine

\* The indices count the frames, also while the head is not wrapped.
LEMMA IndexStep ==
    ASSUME TypeOK, IndexInv, [Next]_vars
    PROVE  IndexInv'
<1> USE ReceptionAssumption
<1>1. /\ written \in Nat /\ taken \in Nat /\ (written > 0 => written - 1 \in Nat)
      /\ tail = taken % Size
  BY DEF TypeOK, IndexInv
<1>2. CASE AdvanceHead
  <2>1. /\ isr = "advance" /\ isr' = "wrap" /\ UNCHANGED <<tail, taken>>
        /\ head' = head + 1 /\ written' = written + 1 /\ written' - 1 = written
    BY <1>1, <1>2 DEF AdvanceHead
  <2> QED
    BY <1>1, <2>1 DEF IndexInv
<1>3. CASE WrapHead
  <2> DEFINE n == written - 1
  <2>1. /\ n \in Nat /\ head = (n % Size) + 1 /\ written = n + 1 /\ isr' # "wrap"
        /\ UNCHANGED <<tail, taken, written>> /\ head' = Wrapped
    BY <1>1, <1>3 DEF WrapHead, IndexInv
  <2>2. (n + 1) % Size = Wrapped
    <3> HIDE DEF n
    <3> QED
      BY <2>1, ModNext DEF Wrapped
  <2> QED
    BY <2>1, <2>2 DEF IndexInv
<1>4. CASE ReadMessage
  <2>1. tail' = (tail + 1) % Size /\ taken' = taken + 1 /\ UNCHANGED <<isr, head, written>>
    BY <1>4 DEF ReadMessage, isrs
  <2>2. tail' = (taken + 1) % Size
    BY <1>1, <2>1, ModAdd
  <2> QED
    BY <2>1, <2>2 DEF IndexInv
<1>5. ASSUME UNCHANGED <<head, written, tail, taken>>, isr # "wrap", isr' # "wrap"
      PROVE  IndexInv'
  BY <1>5 DEF IndexInv
<1>6. CASE Acknowledge \/ ReadInterrupts \/ LeaveInterrupts \/ CopyMessage \/ ReleaseBuffer
           \/ ClearOverrun
  BY <1>5, <1>6 DEF Acknowledge, ReadInterrupts, LeaveInterrupts, CopyMessage,
     ReleaseBuffer, ClearOverrun, ring
<1>7. ASSUME UNCHANGED <<isr, head, written, tail, taken>> PROVE IndexInv'
  BY <1>7 DEF IndexInv
<1>8. CASE FrameArrives \/ (\E bit \in {"LOW", "HIGH"} : OtherInterrupt(bit))
           \/ UNCHANGED vars
  BY <1>7, <1>8 DEF FrameArrives, OtherInterrupt, vars, isrs, ring
<1> QED
  BY <1>2, <1>3, <1>4, <1>6, <1>8 DEF Next, InterruptServiceRoutine

\* What is in the FIFO after a step was there before, or has just arrived.
FifoOlder ==
    /\ arrived \in Nat /\ arrived' \in Nat /\ arrived <= arrived'
    /\ \A i \in 1 .. Len(fifo') :
         fifo'[i] = arrived + 1 \/ \E j \in 1 .. Len(fifo) : fifo'[i] = fifo[j]

\* The FIFO stays in the order of the bus.
LEMMA FifoStep ==
    ASSUME TypeInv, FifoOrder, [Next]_vars
    PROVE  FifoOrder' /\ FifoOlder
<1>0. /\ TypeOK /\ FifoInv /\ arrived \in Nat /\ fifo \in Seq(Frames) /\ Len(fifo) \in Nat
  BY Counted DEF TypeInv, TypeOK
<1>1. ASSUME UNCHANGED <<fifo, arrived>> PROVE FifoOrder' /\ FifoOlder
  BY <1>0, <1>1 DEF FifoOrder, FifoOlder
<1>2. ASSUME fifo # <<>>, fifo' = Tail(fifo), arrived' = arrived
      PROVE  FifoOrder' /\ FifoOlder
  <2>1. /\ Len(fifo') = Len(fifo) - 1
        /\ \A i \in 1 .. Len(fifo') : fifo'[i] = fifo[i + 1] /\ i + 1 \in 1 .. Len(fifo)
    BY <1>0, <1>2, FifoTail
  <2>2. FifoOlder
    BY <1>0, <1>2, <2>1 DEF FifoOlder
  <2>3. ASSUME NEW i \in 1 .. Len(fifo'), NEW j \in 1 .. i - 1
        PROVE  fifo'[j] < fifo'[i]
    <3>1. j \in 1 .. Len(fifo') /\ j + 1 \in 1 .. (i + 1) - 1
      BY <1>0, <2>1, <2>3
    <3> QED
      BY <2>1, <3>1 DEF FifoOrder
  <2>4. \A i \in 1 .. Len(fifo') : fifo'[i] <= arrived'
    BY <1>2, <2>1 DEF FifoOrder
  <2> QED
    BY <2>2, <2>3, <2>4 DEF FifoOrder
<1>3. CASE FrameArrives
  <2>1. CASE fifo' = fifo
    <3>1. arrived' = arrived + 1
      BY <1>3 DEF FrameArrives
    <3>2. \A i \in 1 .. Len(fifo) : fifo[i] \in Nat
      <4>1. \A i \in 1 .. Len(fifo) : fifo[i] \in Frames
        BY <1>0
      <4> QED
        BY <4>1, ReceptionAssumption DEF Frames
    <3> QED
      BY <1>0, <2>1, <3>1, <3>2 DEF FifoOrder, FifoOlder
  <2>2. CASE fifo' = Append(fifo, arrived + 1)
    <3>1. arrived' = arrived + 1 /\ arrived + 1 \in Frames
      BY <1>0, <1>3, ReceptionAssumption DEF FrameArrives, Frames
    <3>2. /\ Len(fifo') = Len(fifo) + 1
          /\ \A i \in 1 .. Len(fifo) : fifo'[i] = fifo[i] /\ fifo[i] \in Nat
          /\ fifo'[Len(fifo) + 1] = arrived + 1
      <4>1. \A i \in 1 .. Len(fifo) : fifo[i] \in Frames
        BY <1>0
      <4>2. \A i \in 1 .. Len(fifo) : fifo[i] \in Nat
        BY <4>1, ReceptionAssumption DEF Frames
      <4> QED
        BY <1>0, <2>2, <3>1, <4>2, AppendAt
    <3>3. FifoOlder
      BY <1>0, <3>1, <3>2 DEF FifoOlder
    <3>4. ASSUME NEW i \in 1 .. Len(fifo') PROVE fifo'[i] <= arrived'
      BY <1>0, <3>1, <3>2, <3>4 DEF FifoOrder
    <3>5. ASSUME NEW i \in 1 .. Len(fifo'), NEW j \in 1 .. i - 1
          PROVE  fifo'[j] < fifo'[i]
      <4>1. j \in 1 .. Len(fifo)
        BY <1>0, <3>2, <3>5
      <4>2. CASE i = Len(fifo) + 1
        BY <1>0, <3>2, <4>1, <4>2 DEF FifoOrder
      <4>3. CASE i # Len(fifo) + 1
        BY <1>0, <3>2, <3>5, <4>1, <4>3 DEF FifoOrder
      <4> QED
        BY <4>2, <4>3
    <3> QED
      BY <3>3, <3>4, <3>5 DEF FifoOrder
  <2> QED
    BY <1>3, <2>1, <2>2 DEF FrameArrives
<1>4. CASE ReleaseBuffer
  BY <1>0, <1>2, <1>4 DEF ReleaseBuffer, Released, FifoInv
<1>5. CASE ClearOverrun
  BY <1>1, <1>2, <1>5 DEF ClearOverrun
<1>6. CASE (\E bit \in {"LOW", "HIGH"} : OtherInterrupt(bit)) \/ Acknowledge
           \/ ReadInterrupts \/ LeaveInterrupts
  BY <1>1, <1>6 DEF OtherInterrupt, Acknowledge, ReadInterrupts, LeaveInterrupts
<1>7. CASE CopyMessage \/ AdvanceHead \/ WrapHead \/ ReadMessage \/ UNCHANGED vars
  BY <1>1, <1>7 DEF CopyMessage, AdvanceHead, WrapHead, ReadMessage, vars, chip
<1> QED
  BY <1>3, <1>4, <1>5, <1>6, <1>7 DEF Next, InterruptServiceRoutine

\* A slot of the ring holds a frame, or none.
LEMMA AtTyped ==
    ASSUME TypeOK, NEW k \in Int
    PROVE  k % Size \in 0 .. Size - 1 /\ At(k) \in 0 .. MaxFrames
<1>1. k % Size \in 0 .. Size - 1
  BY ModInRange, ReceptionAssumption
<1> QED
  BY <1>1, ReceptionAssumption DEF At, TypeOK, Frames, NoFrame

\* A write to the slot at the head leaves the unread slots alone.
LEMMA AtKept ==
    ASSUME TypeOK, NEW k \in Nat, NEW h \in Nat, k < h, h < k + Size, NEW frame,
           buf' = [buf EXCEPT ![h % Size] = frame]
    PROVE  buf'[k % Size] = At(k)
<1>1. k % Size # h % Size
  BY ModDistinct, ReceptionAssumption
<1>2. k % Size \in 0 .. Size - 1
  BY ModInRange, ReceptionAssumption
<1> QED
  BY <1>1, <1>2 DEF At, TypeOK

\* Every step keeps the ring in the order of the bus, while it is sound.
LEMMA RingStep ==
    ASSUME TypeInv, IndexInv, FifoOrder, RingInv, [Next]_vars
    PROVE  RingInv'
<1> USE ReceptionAssumption
<1>0. /\ TypeOK /\ FifoInv /\ FifoOlder /\ FifoOrder'
      /\ written \in Nat /\ taken \in Nat /\ Filled \in Nat
      /\ isr = "advance" => Filled = written + 1
      /\ isr # "advance" => Filled = written
  BY FifoStep DEF TypeInv, TypeOK, Filled
<1>1. \A k \in Slots : k \in Nat /\ At(k) \in 0 .. MaxFrames
  <2>1. \A k \in Slots : k \in Nat
    BY <1>0 DEF Slots
  <2> QED
    BY <1>0, <2>1, AtTyped
<1>2. ASSUME UNCHANGED <<taken, written, newest, buf, raced, lapped>>,
             Filled' = Filled
      PROVE  RingInv'
  <2>1. Sound' = Sound /\ Slots' = Slots /\ \A k : At(k)' = At(k)
    BY <1>2 DEF Sound, Slots, At
  <2>2. SUFFICES ASSUME Sound PROVE NewestOrder' /\ RingOrder'
    BY <1>2, <2>1 DEF RingInv
  <2>3. NewestOrder /\ RingOrder
    BY <2>2 DEF RingInv
  <2>4. NewestOrder'
    BY <1>0, <1>2, <2>3 DEF NewestOrder, FifoOlder
  <2>5. ASSUME NEW k \in Slots PROVE At(k) <= arrived' /\ \A i \in 1 .. Len(fifo') : At(k) < fifo'[i]
    <3>1. /\ At(k) \in Nat /\ arrived \in Nat /\ arrived' \in Nat /\ At(k) <= arrived
          /\ arrived <= arrived' /\ \A j \in 1 .. Len(fifo) : At(k) < fifo[j]
      BY <1>0, <1>1, <2>3, <2>5 DEF RingOrder, FifoOlder
    <3>2. At(k) < arrived + 1 /\ At(k) <= arrived'
      BY <3>1
    <3> QED
      BY <1>0, <3>1, <3>2 DEF FifoOlder
  <2>6. RingOrder'
    BY <1>2, <2>1, <2>3, <2>5 DEF RingOrder
  <2> QED
    BY <2>4, <2>6
<1>3. CASE FrameArrives \/ (\E bit \in {"LOW", "HIGH"} : OtherInterrupt(bit))
           \/ UNCHANGED vars
  BY <1>2, <1>3 DEF FrameArrives, OtherInterrupt, vars, isrs, ring, faults, Filled
<1>4. CASE Acknowledge \/ ReadInterrupts \/ LeaveInterrupts \/ WrapHead \/ ClearOverrun
  <2>1. /\ UNCHANGED <<taken, written, newest, buf, raced, lapped>>
        /\ isr # "advance" /\ isr' # "advance"
    BY <1>4 DEF Acknowledge, ReadInterrupts, LeaveInterrupts, WrapHead, ClearOverrun, ring,
       faults
  <2> QED
    BY <1>2, <2>1 DEF Filled
<1>5. CASE CopyMessage
  <2>1. /\ UNCHANGED <<fifo, arrived, taken, written, newest, raced, lapped>>
        /\ isr = "copy" /\ isr' = "release"
        /\ buf' = [buf EXCEPT ![written % Size] = NoFrame]
    BY <1>5 DEF CopyMessage, chip, faults, IndexInv
  <2>2. Sound' = Sound /\ Slots' = Slots /\ Filled = written
    BY <1>0, <2>1 DEF Sound, Slots, Filled
  <2>3. SUFFICES ASSUME Sound PROVE NewestOrder' /\ RingOrder'
    BY <2>1, <2>2 DEF RingInv
  <2>4. taken <= written /\ written - taken < Size /\ NewestOrder /\ RingOrder
    BY <2>3 DEF RingInv
  <2>5. ASSUME NEW k \in Slots PROVE At(k)' = At(k)
    <3>1. k \in Nat /\ k < written /\ written < k + Size
      BY <1>0, <2>2, <2>4, <2>5 DEF Slots
    <3> QED
      BY <1>0, <2>1, <3>1, AtKept DEF At
  <2>6. NewestOrder'
    BY <2>1, <2>4 DEF NewestOrder
  <2>7. \A k \in Slots : \A l \in taken .. k - 1 : l \in Slots
    BY <1>0 DEF Slots
  <2>8. RingOrder'
    BY <2>1, <2>2, <2>4, <2>5, <2>7 DEF RingOrder
  <2> QED
    BY <2>6, <2>8
<1>6. CASE ReleaseBuffer
  <2>1. /\ UNCHANGED <<arrived, taken, written, newest, raced, lapped>>
        /\ isr = "release" /\ isr' = "advance"
        /\ fifo # <<>> /\ fifo' = Tail(fifo)
        /\ buf' = [buf EXCEPT ![written % Size] = Head(fifo)]
    BY <1>0, <1>6 DEF ReleaseBuffer, Released, FifoInv, faults, IndexInv
  <2>2. Sound' = Sound /\ Filled = written /\ Filled' = written + 1
    BY <1>0, <2>1 DEF Sound, Filled
  <2>3. SUFFICES ASSUME Sound PROVE NewestOrder' /\ RingOrder'
    BY <2>1, <2>2 DEF RingInv
  <2>4. taken <= written /\ written - taken < Size /\ NewestOrder /\ RingOrder
    BY <2>3 DEF RingInv
  <2>5. /\ Head(fifo) = fifo[1] /\ 1 \in 1 .. Len(fifo) /\ Len(fifo) \in Nat
        /\ \A i \in 1 .. Len(fifo') : fifo'[i] = fifo[i + 1] /\ i + 1 \in 1 .. Len(fifo)
                                      /\ 1 \in 1 .. (i + 1) - 1
    BY <1>0, <2>1, FifoTail
  <2>6. ASSUME NEW k \in Slots PROVE At(k)' = At(k)
    <3>1. k \in Nat /\ k < written /\ written < k + Size
      BY <1>0, <2>2, <2>4, <2>6 DEF Slots
    <3> QED
      BY <1>0, <2>1, <3>1, AtKept DEF At
  <2>7. buf'[written % Size] = fifo[1]
    <3>1. written % Size \in 0 .. Size - 1
      BY <1>0, AtTyped
    <3> QED
      BY <1>0, <2>1, <2>5, <3>1 DEF TypeOK
  <2>8. Slots' = Slots \cup {written}
    BY <1>0, <2>1, <2>2, <2>4 DEF Slots
  <2>9. NewestOrder'
    BY <2>1, <2>4, <2>5 DEF NewestOrder
  <2>10. ASSUME NEW k \in Slots'
         PROVE  /\ newest < At(k)' /\ At(k)' <= arrived
                /\ \A l \in taken .. k - 1 : At(l)' < At(k)'
                /\ \A i \in 1 .. Len(fifo') : At(k)' < fifo'[i]
    <3>1. CASE k \in Slots
      <4>1. \A l \in taken .. k - 1 : l \in Slots
        BY <1>0, <3>1 DEF Slots
      <4> QED
        BY <2>4, <2>5, <2>6, <3>1, <4>1 DEF RingOrder
    <3>2. CASE k = written
      <4>1. newest < fifo[1] /\ fifo[1] <= arrived
        BY <2>4, <2>5 DEF NewestOrder, FifoOrder
      <4>2. \A l \in taken .. k - 1 : l \in Slots
        BY <1>0, <2>2, <3>2 DEF Slots
      <4>3. \A l \in taken .. k - 1 : At(l)' < fifo[1]
        BY <2>4, <2>5, <2>6, <4>2 DEF RingOrder
      <4>4. \A i \in 1 .. Len(fifo') : fifo[1] < fifo'[i]
        BY <2>5 DEF FifoOrder
      <4>5. At(k)' = fifo[1]
        BY <2>7, <3>2 DEF At
      <4> QED
        BY <3>2, <4>1, <4>3, <4>4, <4>5
    <3> QED
      BY <2>8, <2>10, <3>1, <3>2
  <2>11. RingOrder'
    BY <2>1, <2>10 DEF RingOrder
  <2> QED
    BY <2>9, <2>11
<1>7. CASE AdvanceHead
  <2>1. /\ UNCHANGED <<fifo, arrived, buf, taken, newest, raced>>
        /\ isr = "advance" /\ isr' = "wrap" /\ written' = written + 1
        /\ lapped' = (lapped \/ written' - taken >= Size)
    BY <1>7 DEF AdvanceHead, chip
  <2>2. Filled' = Filled /\ Slots' = Slots /\ \A k : At(k)' = At(k)
    BY <1>0, <2>1 DEF Filled, Slots, At
  <2>3. Sound' => Sound /\ ~ (written' - taken >= Size)
    BY <2>1 DEF Sound
  <2>4. ~ (written' - taken >= Size) => written' - taken < Size
    BY <1>0, <2>1
  <2>5. Sound => taken <= written' /\ NewestOrder' /\ RingOrder'
    BY <1>0, <2>1, <2>2 DEF RingInv, NewestOrder, RingOrder
  <2>6. SUFFICES ASSUME Sound' PROVE (taken <= written /\ written - taken < Size
                                        /\ NewestOrder /\ RingOrder)'
    BY DEF RingInv
  <2>7. taken' = taken /\ written' - taken < Size
    BY <2>1, <2>3, <2>4, <2>6
  <2> QED
    BY <2>3, <2>5, <2>6, <2>7
<1>8. CASE ReadMessage
  <2>1. /\ UNCHANGED <<fifo, arrived, isr, buf, written, lapped>>
        /\ head # tail /\ newest' = Newer(buf[tail]) /\ taken' = taken + 1
        /\ raced' = (raced \/ (head = Size /\ taken >= written))
    BY <1>8 DEF ReadMessage, Ready, chip, isrs
  <2>2. Sound' => Sound /\ ~ (head = Size /\ taken >= written)
    BY <2>1 DEF Sound
  <2>3. SUFFICES ASSUME Sound, ~ (head = Size /\ taken >= written)
                 PROVE  taken' <= written /\ written - taken' < Size
                        /\ NewestOrder' /\ RingOrder'
    BY <2>1, <2>2 DEF RingInv
  <2>4. taken <= written /\ written - taken < Size /\ NewestOrder /\ RingOrder
    BY <2>3 DEF RingInv
  <2>5. taken < written
    <3> SUFFICES ASSUME taken = written PROVE FALSE
      BY <1>0, <2>4
    <3>1. tail = written % Size
      BY DEF IndexInv
    <3>2. CASE isr = "wrap"
      <4> DEFINE n == written - 1
      <4>1. n \in Nat /\ written = n + 1 /\ head = (n % Size) + 1
        BY <1>0, <3>2 DEF IndexInv
      <4> HIDE DEF n
      <4>2. head = Size \/ head = (n + 1) % Size
        BY <4>1, ModNext
      <4>3. head # Size
        BY <1>0, <2>3
      <4> QED
        BY <2>1, <3>1, <4>1, <4>2, <4>3
    <3>3. CASE isr # "wrap"
      BY <2>1, <3>1, <3>3 DEF IndexInv
    <3> QED
      BY <3>2, <3>3
  <2>6. taken \in Slots /\ Slots' \subseteq Slots /\ \A k \in Slots' : taken \in taken .. k - 1
    BY <1>0, <2>1, <2>5 DEF Slots, Filled
  <2>7. buf[tail] = At(taken) /\ newest < At(taken) /\ newest # Never
    BY <2>4, <2>6 DEF IndexInv, At, RingOrder, NewestOrder, Never
  <2>8. newest' = At(taken)
    BY <1>1, <2>1, <2>6, <2>7 DEF Newer
  <2>9. NewestOrder'
    BY <1>1, <2>1, <2>4, <2>6, <2>8 DEF NewestOrder, RingOrder
  <2>10. \A k : At(k)' = At(k)
    BY <2>1 DEF At
  <2>11. \A k \in Slots' : taken' .. k - 1 \subseteq taken .. k - 1
    BY <1>0, <2>1
  <2>12. RingOrder'
    BY <2>1, <2>4, <2>6, <2>8, <2>10, <2>11 DEF RingOrder
  <2>13. taken' <= written /\ written - taken' < Size
    BY <1>0, <2>1, <2>4, <2>5
  <2> QED
    BY <2>9, <2>12, <2>13
<1> QED
  BY <1>3, <1>4, <1>5, <1>6, <1>7, <1>8 DEF Next, InterruptServiceRoutine

-----------------------------------------------------------------------------
IInv == TypeInv /\ IndexInv /\ FifoOrder /\ RingInv

\* Every reachable state satisfies IInv, by induction on the steps.
THEOREM RingInvariant == Spec => []IInv
<1>1. Init => IInv
  BY InvInit DEF IInv
<1>2. IInv /\ [Next]_vars => IInv'
  <2> SUFFICES ASSUME IInv, [Next]_vars PROVE IInv'
    OBVIOUS
  <2>1. TypeInv /\ TypeOK /\ IndexInv /\ FifoOrder /\ RingInv
    BY DEF IInv, TypeInv
  <2> QED
    BY <2>1, TypeStep, IndexStep, FifoStep, RingStep DEF IInv
<1> QED
  BY <1>1, <1>2, PTL DEF Spec

\* The routine never copies from an empty FIFO or writes outside the ring, and
\* nothing is counted that was not on the bus.
THEOREM TypeCorrect == Spec => []TypeOK
<1>1. IInv => TypeOK
  BY DEF IInv, TypeInv
<1> QED
  BY <1>1, RingInvariant, PTL

\* A frame is lost to a full FIFO or to the handling of an overrun, or it reaches
\* the ring.
THEOREM FramesAccounted == Spec => []Accounted
<1>1. IInv => Accounted
  BY DEF IInv, TypeInv
<1> QED
  BY <1>1, RingInvariant, PTL

\* Until it is lapped or a read races with a wrap, the ring holds the frames
\* written last, in the order they were on the bus.
THEOREM RingInOrder == Spec => []UnreadInOrder
<1>1. IInv => UnreadInOrder
  <2> SUFFICES ASSUME IInv, Sound
               PROVE  /\ taken <= written
                      /\ head % Size = (tail + written - taken) % Size
                      /\ \A i \in 0 .. written - taken - 1 :
                           LET frame == buf[(tail + i) % Size]
                           IN  /\ frame > newest
                               /\ i > 0 => frame > buf[(tail + i - 1) % Size]
    BY DEF UnreadInOrder
  <2> USE ReceptionAssumption
  <2>1. /\ TypeOK /\ IndexInv /\ taken <= written /\ RingOrder /\ NewestOrder
        /\ written \in Nat /\ taken \in Nat /\ tail \in Nat /\ tail = taken % Size
    BY DEF IInv, TypeInv, TypeOK, RingInv, IndexInv
  <2>2. ASSUME NEW i \in 0 .. written - taken PROVE (tail + i) % Size = (taken + i) % Size
    <3>1. i \in Nat
      BY <2>1, <2>2
    <3>2. ((taken % Size) + i) % Size = (taken + i) % Size
      BY <2>1, <3>1, ModAdd
    <3> QED
      BY <2>1, <3>2
  <2>3. head % Size = (tail + written - taken) % Size
    <3>1. (tail + (written - taken)) % Size = written % Size
      <4>1. written - taken \in 0 .. written - taken /\ taken + (written - taken) = written
        BY <2>1
      <4> QED
        BY <2>2, <4>1
    <3>2. tail + (written - taken) = tail + written - taken
      BY <2>1
    <3>3. CASE isr = "wrap"
      <4> DEFINE n == written - 1
      <4>1. n \in Nat /\ written = n + 1 /\ head = (n % Size) + 1
        BY <2>1, <3>3 DEF IndexInv
      <4> HIDE DEF n
      <4>2. head = (n + 1) % Size \/ (head = Size /\ (n + 1) % Size = 0)
        BY <4>1, ModNext
      <4>3. head \in 0 .. Size - 1 => head % Size = head
        BY ModSmall
      <4>4. (n + 1) % Size \in 0 .. Size - 1
        BY <4>1, ModInRange
      <4>5. Size % Size = 0
        OBVIOUS
      <4> QED
        BY <3>1, <3>2, <4>1, <4>2, <4>3, <4>4, <4>5
    <3>4. CASE isr # "wrap"
      <4>1. head = written % Size /\ head \in 0 .. Size - 1
        BY <2>1, <3>4, ModInRange DEF IndexInv
      <4>2. head % Size = head
        BY <4>1, ModSmall
      <4> QED
        BY <3>1, <3>2, <4>1, <4>2
    <3> QED
      BY <3>3, <3>4
  <2>4. ASSUME NEW i \in 0 .. written - taken - 1
        PROVE  /\ buf[(tail + i) % Size] > newest
               /\ i > 0 => buf[(tail + i) % Size] > buf[(tail + i - 1) % Size]
    <3> DEFINE k == taken + i
    <3>0. k = taken + i /\ i \in Nat /\ i \in 0 .. written - taken
          /\ k \in Nat /\ k \in taken .. written - 1
      BY <2>1, <2>4
    <3> HIDE DEF k
    <3>1. k \in Slots /\ k \in Nat /\ buf[(tail + i) % Size] = At(k)
      <4>1. k \in Slots
        BY <2>1, <3>0 DEF Slots, Filled
      <4> QED
        BY <2>2, <3>0, <4>1 DEF At
    <3>2. newest < At(k) /\ newest \in Int /\ At(k) \in Int
      BY <2>1, <3>1, AtTyped DEF RingOrder, TypeOK, Never
    <3>3. ASSUME i > 0 PROVE At(k) > buf[(tail + i - 1) % Size]
      <4>1. tail + i - 1 = tail + (i - 1) /\ i - 1 \in 0 .. written - taken
            /\ k - 1 = taken + (i - 1) /\ k - 1 \in taken .. k - 1 /\ k - 1 \in Int
        BY <2>1, <3>0, <3>3
      <4>2. buf[(tail + i - 1) % Size] = At(k - 1)
        BY <2>2, <4>1 DEF At
      <4>3. At(k - 1) < At(k) /\ At(k - 1) \in Int
        <5>1. At(k - 1) < At(k)
          BY <2>1, <3>1, <4>1 DEF RingOrder
        <5>2. At(k - 1) \in 0 .. MaxFrames
          BY <2>1, <4>1, AtTyped
        <5> QED
          BY <5>1, <5>2
      <4> QED
        BY <3>2, <4>2, <4>3
    <3> QED
      BY <3>1, <3>2, <3>3
  <2> QED
    BY <2>1, <2>3, <2>4
<1> QED
  BY <1>1, RingInvariant, PTL

\* ReadMessage returns every frame once, whole, and in the order of the bus.
THEOREM FramesReadOnce == Spec => []ReadOnce
<1>1. IInv => ReadOnce
  BY DEF IInv, RingInv, NewestOrder, ReadOnce, Never
<1> QED
  BY <1>1, RingInvariant, PTL
=============================================================================
