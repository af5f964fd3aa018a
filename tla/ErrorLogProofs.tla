--------------------------- MODULE ErrorLogProofs ----------------------------
(***************************************************************************)
(* Safety of the error ring and its log, for rings of any size and any     *)
(* number of interrupts, whatever the pulse thread finds on its stack.     *)
(*                                                                         *)
(* None of the properties is inductive.  CountInv says that each entry and *)
(* each pulse stands for an interrupt, HeadInv that the head is the index  *)
(* of the next entry also while it is not wrapped, RingInv what the unread *)
(* slots hold, and WakeInv who will send the pulse.                        *)
(***************************************************************************)
EXTENDS ErrorLog, RingLemmas, TLAPS

InRegister == IF intrReg # {} THEN 1 ELSE 0
InHand     == IF isr = "add" THEN 1 ELSE 0
PulseDue   == IF hit THEN 1 ELSE 0

\* An interrupt that is still in the register has neither an entry nor a pulse.
CountInv ==
    /\ added + InHand + InRegister <= raised
    /\ pulses + PulseDue + InRegister <= raised

HeadInv ==
    IF isr \in {"store", "wrap"}
    THEN added > 0 /\ head = ((added - 1) % Size) + 1
    ELSE head = added % Size

\* The entries logged, then those in the ring, are numbered without a gap.
RingInv ==
    /\ logged <= Stored
    /\ Sound =>
         /\ added - logged < Size
         /\ tail = logged % Size
         /\ newest = logged
         /\ \A k \in logged .. Stored - 1 : buf[k % Size] = k + 1
         /\ reader = "entry" => logged < Stored /\ entry = logged + 1

WakeInv == OnItsWay /\ (isr \in {"add", "store", "wrap"} => hit)

TypeInv == TypeOK /\ CountInv /\ HeadInv

IInv == TypeInv /\ RingInv

-----------------------------------------------------------------------------
\* The driver starts with an empty ring.
LEMMA InvInit == Init => IInv /\ WakeInv /\ OnlyHighDropped
<1> SUFFICES ASSUME Init PROVE IInv /\ WakeInv /\ OnlyHighDropped
  OBVIOUS
<1> USE ErrorLogAssumption
<1>1. TypeOK
  <2>1. /\ 0 \in 0 .. MaxRaised /\ 0 \in Never .. MaxRaised
        /\ 0 \in 0 .. Size - 1 /\ 0 \in 0 .. Size /\ 0 < Size
    BY DEF Never
  <2>2. incomePulse \in {"INTERRUPT_PULSE", "TERMINATE_PULSE", "other"}
    BY DEF Init
  <2>3. buf \in [0 .. Size - 1 -> 0 .. MaxRaised]
    BY <2>1 DEF Init
  <2> QED
    BY <2>1, <2>2, <2>3 DEF Init, TypeOK
<1>2. CountInv /\ HeadInv
  BY DEF Init, CountInv, HeadInv, InRegister, InHand, PulseDue
<1>3. RingInv
  BY DEF Init, RingInv, Stored
<1>4. WakeInv /\ OnlyHighDropped
  BY DEF Init, WakeInv, OnItsWay, OnlyHighDropped
<1> QED
  BY <1>1, <1>2, <1>3, <1>4 DEF IInv, TypeInv

\* A slot is written, and looked at, inside the ring.
LEMMA IndexInRange ==
    ASSUME TypeOK, HeadInv
    PROVE  isr \in {"store", "wrap"} => AtOldHead = (added - 1) % Size /\ AtOldHead \in 0 .. Size - 1
<1>1. added - 1 \in Int
  BY DEF TypeOK
<1>2. (added - 1) % Size \in 0 .. Size - 1
  BY <1>1, ModInRange, ErrorLogAssumption
<1> QED
  BY <1>2 DEF HeadInv, AtOldHead

\* Every step keeps the head at the index of the next entry.
LEMMA HeadStep ==
    ASSUME TypeOK, HeadInv, [Next]_vars
    PROVE  HeadInv'
<1> USE ErrorLogAssumption
<1>1. added \in Nat /\ (added > 0 => added - 1 \in Nat)
  BY DEF TypeOK
<1>2. CASE AddError
  <2>1. added' = added + 1 /\ added' - 1 = added
    BY <1>1, <1>2 DEF AddError
  <2> QED
    BY <1>1, <1>2, <2>1 DEF AddError, HeadInv
<1>3. CASE WrapHead
  <2> DEFINE n == added - 1
  <2>1. n \in Nat /\ head = (n % Size) + 1 /\ added = n + 1 /\ added' = added
    BY <1>1, <1>3 DEF WrapHead, HeadInv
  <2>2. (n + 1) % Size = Wrapped(head)
    <3> HIDE DEF n
    <3> QED
      BY <2>1, ModNext DEF Wrapped
  <2> QED
    BY <1>3, <2>1, <2>2 DEF WrapHead, HeadInv
<1>4. CASE StoreError
  BY <1>4 DEF StoreError, HeadInv
<1>5. ASSUME UNCHANGED <<head, added>>, isr' \notin {"store", "wrap"},
             isr \notin {"store", "wrap"}
      PROVE  HeadInv'
  BY <1>5 DEF HeadInv
<1>6. CASE Acknowledge \/ LeaveRoutine \/ ServeError \/ ServeOther
  BY <1>5, <1>6 DEF Acknowledge, LeaveRoutine, ServeError, ServeOther, writer
<1>7. ASSUME UNCHANGED <<head, added, isr>> PROVE HeadInv'
  BY <1>7 DEF HeadInv
<1>8. CASE (\E bit \in Bits : Raise(bit)) \/ PulseThread \/ UNCHANGED vars
  BY <1>7, <1>8 DEF Raise, PulseThread, ReceivePulse, ReceiveTimeout, LookAtEntry,
     LogEntry, RingEmpty, vars, routine, writer
<1> QED
  BY <1>2, <1>3, <1>4, <1>6, <1>8 DEF Next, InterruptServiceRoutine

\* No step makes more entries or pulses than there were interrupts.
LEMMA CountStep ==
    ASSUME TypeOK, CountInv, [Next]_vars
    PROVE  CountInv'
<1> USE ErrorLogAssumption DEF TypeOK, CountInv, InRegister, InHand, PulseDue
<1>1. ASSUME NEW bit \in Bits, Raise(bit) PROVE CountInv'
  BY <1>1 DEF Raise, routine, writer
<1>2. CASE Acknowledge \/ AddError \/ StoreError \/ WrapHead
  BY <1>2 DEF Acknowledge, AddError, StoreError, WrapHead, chip, routine, writer
<1>3. CASE LeaveRoutine
  BY <1>3 DEF LeaveRoutine, writer
<1>4. CASE ServeError
  BY <1>4 DEF ServeError, Hit, writer
<1>5. CASE ServeOther
  BY <1>5 DEF ServeOther, writer
<1>6. CASE PulseThread
  <2>1. UNCHANGED <<raised, intrReg, isr, hit, added>>
    BY <1>6 DEF PulseThread, ReceivePulse, ReceiveTimeout, LookAtEntry, LogEntry, RingEmpty,
       chip, routine, writer
  <2>2. CASE pulses' = pulses
    BY <2>1, <2>2
  <2>3. CASE pulses' = pulses - 1
    BY <2>1, <2>3
  <2> QED
    BY <1>6, <2>2, <2>3 DEF PulseThread, ReceivePulse, ReceiveTimeout, LookAtEntry,
       LogEntry, RingEmpty
<1>7. CASE UNCHANGED vars
  BY <1>7 DEF vars, chip, routine, writer
<1> QED
  BY <1>1, <1>2, <1>3, <1>4, <1>5, <1>6, <1>7 DEF Next, InterruptServiceRoutine

\* Every step keeps the indices inside the ring.
LEMMA TypeStep ==
    ASSUME IInv, [Next]_vars
    PROVE  TypeOK'
<1> USE ErrorLogAssumption DEF TypeOK
<1>0. TypeOK /\ CountInv /\ HeadInv /\ RingInv
  BY DEF IInv, TypeInv
<1>1. ASSUME NEW bit \in Bits, Raise(bit) PROVE TypeOK'
  BY <1>0, <1>1 DEF Raise, routine, writer, thread, log
<1>2. CASE Acknowledge
  BY <1>0, <1>2 DEF Acknowledge, writer, thread, log
<1>3. CASE LeaveRoutine
  <2>1. pulses' \in 0 .. MaxRaised
    BY <1>0, <1>3 DEF LeaveRoutine, CountInv, InRegister, InHand, PulseDue
  <2> QED
    BY <1>0, <1>3, <2>1 DEF LeaveRoutine, writer, thread, log, Errors
<1>4. CASE ServeError
  BY <1>0, <1>4 DEF ServeError, Hit, writer, thread, log
<1>5. CASE ServeOther
  BY <1>0, <1>5 DEF ServeOther, writer, thread, log, Errors
<1>6. CASE AddError
  <2>1. added' \in 0 .. MaxRaised
    BY <1>0, <1>6 DEF AddError, CountInv, InRegister, InHand, PulseDue
  <2>2. head' \in 0 .. Size
    BY <1>0, <1>6 DEF AddError
  <2>3. lapped' \in BOOLEAN
    BY <1>0, <1>6 DEF AddError
  <2> QED
    BY <1>0, <1>6, <2>1, <2>2, <2>3 DEF AddError, chip, thread, log
<1>7. CASE StoreError
  <2>1. AtOldHead \in 0 .. Size - 1
    BY <1>0, <1>7, IndexInRange DEF StoreError
  <2>2. buf' \in [0 .. Size - 1 -> 0 .. MaxRaised]
    BY <1>0, <1>7, <2>1 DEF StoreError
  <2> QED
    BY <1>0, <1>7, <2>2 DEF StoreError, chip, thread, log
<1>8. CASE WrapHead
  BY <1>0, <1>8 DEF WrapHead, Wrapped, chip, thread, log
<1>9. CASE ReceivePulse
  BY <1>0, <1>9 DEF ReceivePulse, SwitchOn, chip, routine, writer, log
<1>10. CASE ReceiveTimeout
  BY <1>0, <1>10 DEF ReceiveTimeout, SwitchOn, chip, routine, writer, log
<1>11. CASE LookAtEntry
  BY <1>0, <1>11 DEF LookAtEntry, chip, routine, writer
<1>12. CASE LogEntry
  <2>1. logged' \in 0 .. MaxRaised
    BY <1>0, <1>12 DEF LogEntry, RingInv, Stored
  <2>2. newest' \in Never .. MaxRaised
    BY <1>0, <1>12 DEF LogEntry, Never
  <2>3. tail' \in 0 .. Size - 1
    BY <1>0, <1>12 DEF LogEntry, Wrapped
  <2> QED
    BY <1>0, <1>12, <2>1, <2>2, <2>3 DEF LogEntry, chip, routine, writer
<1>13. CASE RingEmpty
  BY <1>0, <1>13 DEF RingEmpty, chip, routine, writer, log
<1>14. CASE UNCHANGED vars
  BY <1>0, <1>14 DEF vars, chip, routine, writer, thread, log
<1> QED
  BY <1>1, <1>2, <1>3, <1>4, <1>5, <1>6, <1>7, <1>8, <1>9, <1>10, <1>11, <1>12, <1>13,
     <1>14
  DEF Next, InterruptServiceRoutine, PulseThread

-----------------------------------------------------------------------------
\* The writer stores its entry beside the unread ones; the reader is one behind it
\* or ahead of it, and then early says so.
LEMMA RingStep ==
    ASSUME IInv, [Next]_vars
    PROVE  RingInv'
<1> USE ErrorLogAssumption
<1>0. TypeOK /\ HeadInv /\ RingInv
  BY DEF IInv, TypeInv
<1>1. /\ logged \in Nat /\ added \in Nat /\ Stored \in Int /\ tail \in 0 .. Size - 1
      /\ Stored <= added /\ logged <= Stored
      /\ isr # "store" => Stored = added
      /\ isr = "store" => Stored = added - 1
  BY <1>0 DEF TypeOK, RingInv, Stored
<1>2. ASSUME UNCHANGED <<added, logged, tail, newest, buf, reader, entry, early, lapped>>,
             Stored' = Stored
      PROVE  RingInv'
  BY <1>0, <1>2 DEF RingInv, Sound
<1>3. CASE (\E bit \in Bits : Raise(bit)) \/ UNCHANGED vars
  BY <1>2, <1>3 DEF Raise, vars, routine, writer, thread, log, Stored
<1>4. CASE Acknowledge \/ LeaveRoutine \/ ServeError \/ ServeOther \/ WrapHead
  BY <1>2, <1>4 DEF Acknowledge, LeaveRoutine, ServeError, ServeOther, WrapHead, routine,
     writer, thread, log, Stored
<1>5. CASE AddError
  <2>1. /\ UNCHANGED <<logged, tail, newest, buf, reader, entry, early>>
        /\ added' = added + 1 /\ isr = "add" /\ isr' = "store"
        /\ lapped' = (lapped \/ added' - logged >= Size)
    BY <1>5 DEF AddError, thread, log
  <2>2. Stored' = Stored
    BY <1>1, <2>1 DEF Stored
  <2>3. Sound' => Sound /\ ~ (added' - logged >= Size)
    BY <2>1 DEF Sound
  <2>4. ~ (added' - logged >= Size) => added' - logged < Size
    BY <1>1, <2>1
  <2> QED
    BY <1>0, <2>1, <2>2, <2>3, <2>4 DEF RingInv
<1>6. CASE StoreError
  <2>1. /\ UNCHANGED <<added, logged, tail, newest, reader, entry, early, lapped>>
        /\ isr = "store" /\ isr' = "wrap"
        /\ buf' = [buf EXCEPT ![AtOldHead] = added]
    BY <1>6 DEF StoreError, thread, log
  <2> DEFINE n == added - 1
  <2>2. /\ AtOldHead = n % Size /\ n % Size \in 0 .. Size - 1 /\ n \in Nat /\ Stored = n
        /\ Stored' = n + 1
    <3>1. AtOldHead = n % Size /\ AtOldHead \in 0 .. Size - 1
      BY <1>0, <2>1, IndexInRange
    <3>2. added > 0
      BY <1>0, <2>1 DEF HeadInv
    <3> QED
      BY <1>1, <2>1, <3>1, <3>2 DEF Stored
  <2>3. ASSUME Sound, NEW k \in logged .. n PROVE buf'[k % Size] = k + 1
    <3>1. buf \in [0 .. Size - 1 -> 0 .. MaxRaised]
      BY <1>0 DEF TypeOK
    <3>2. CASE k = n
      <4>1. k + 1 = added
        BY <1>1, <3>2
      <4> HIDE DEF n
      <4> QED
        BY <2>1, <2>2, <3>1, <3>2, <4>1
    <3>3. CASE k < n
      <4>1. added - logged < Size
        BY <1>0, <2>3 DEF RingInv
      <4>2. k \in Nat /\ n < k + Size
        BY <1>1, <2>3, <4>1
      <4>3. k % Size # n % Size /\ k % Size \in 0 .. Size - 1
        BY <2>2, <3>3, <4>2, ModDistinct, ModInRange
      <4>4. k \in logged .. Stored - 1
        BY <1>1, <2>2, <2>3, <3>3
      <4>5. buf[k % Size] = k + 1
        BY <1>0, <2>3, <4>4 DEF RingInv
      <4> QED
        BY <2>1, <2>2, <3>1, <4>3, <4>5
    <3> QED
      BY <1>1, <2>2, <2>3, <3>2, <3>3
  <2> HIDE DEF n
  <2>4. Sound' = Sound
    BY <2>1 DEF Sound
  <2>5. (\A k \in logged .. Stored - 1 : buf[k % Size] = k + 1)' <=>
          \A k \in logged .. n : buf'[k % Size] = k + 1
    BY <2>1, <2>2
  <2>6. logged <= Stored' /\ (logged < Stored => logged < Stored')
    BY <1>1, <2>2
  <2> QED
    BY <1>0, <2>1, <2>3, <2>4, <2>5, <2>6 DEF RingInv
<1>7. CASE ReceivePulse \/ ReceiveTimeout \/ RingEmpty
  <2>1. /\ UNCHANGED <<isr, added, logged, tail, newest, buf, entry, early, lapped>>
        /\ reader' # "entry"
    BY <1>7 DEF ReceivePulse, ReceiveTimeout, RingEmpty, SwitchOn, routine, writer, log
  <2>2. Stored' = Stored /\ Sound' = Sound
    BY <2>1 DEF Stored, Sound
  <2> QED
    BY <1>0, <2>1, <2>2 DEF RingInv
<1>8. CASE LookAtEntry
  <2>1. /\ UNCHANGED <<isr, added, logged, tail, newest, buf, lapped>>
        /\ entry' = buf[tail] /\ early' = (early \/ logged >= Stored)
    BY <1>8 DEF LookAtEntry, routine, writer
  <2>2. Stored' = Stored
    BY <2>1 DEF Stored
  <2>3. Sound' => Sound /\ logged < Stored
    <3>1. Sound' => Sound /\ ~ (logged >= Stored)
      BY <2>1 DEF Sound
    <3> QED
      BY <1>1, <3>1
  <2>4. Sound' => entry' = logged + 1
    BY <1>0, <1>1, <2>1, <2>3 DEF RingInv
  <2> QED
    BY <1>0, <2>1, <2>2, <2>3, <2>4 DEF RingInv
<1>9. CASE LogEntry
  <2>1. /\ UNCHANGED <<isr, added, buf, entry, early, lapped>>
        /\ reader = "entry" /\ reader' = "look"
        /\ newest' = IF newest # Never /\ entry = newest + 1 /\ buf[tail] = entry
                     THEN entry ELSE Never
        /\ logged' = IF Sound THEN logged + 1 ELSE logged
        /\ tail' = Wrapped(tail + 1)
    BY <1>9 DEF LogEntry, routine, writer
  <2>2. Stored' = Stored /\ Sound' = Sound
    BY <2>1 DEF Stored, Sound
  <2>3. CASE ~ Sound
    BY <1>0, <2>1, <2>2, <2>3 DEF RingInv
  <2>4. CASE Sound
    <3>1. /\ added - logged < Size /\ tail = logged % Size /\ newest = logged
          /\ \A k \in logged .. Stored - 1 : buf[k % Size] = k + 1
          /\ logged < Stored /\ entry = logged + 1
      BY <1>0, <2>1, <2>4 DEF RingInv
    <3>2. buf[tail] = entry
      BY <1>1, <3>1
    <3>3. logged' = logged + 1 /\ newest' = logged + 1
      BY <1>1, <2>1, <2>4, <3>1, <3>2 DEF Never
    <3>4. tail' = (logged + 1) % Size
      BY <1>1, <2>1, <3>1, ModNext DEF Wrapped
    <3>5. logged' <= Stored /\ added - logged' < Size
      BY <1>1, <3>1, <3>3
    <3>6. \A k \in logged' .. Stored - 1 : buf[k % Size] = k + 1
      BY <1>1, <3>1, <3>3
    <3> QED
      BY <2>1, <2>2, <3>3, <3>4, <3>5, <3>6 DEF RingInv
  <2> QED
    BY <2>3, <2>4
<1> QED
  BY <1>3, <1>4, <1>5, <1>6, <1>7, <1>8, <1>9
  DEF Next, InterruptServiceRoutine, PulseThread

\* A step that stores an entry leaves somebody who will send the pulse.
LEMMA WakeStep ==
    ASSUME TypeOK, WakeInv, [Next]_vars
    PROVE  WakeInv'
<1> USE DEF WakeInv, OnItsWay
<1>1. ASSUME NEW bit \in Bits, Raise(bit) PROVE WakeInv'
  BY <1>1 DEF Raise, routine, writer, thread, log
<1>2. CASE Acknowledge \/ ServeError \/ ServeOther
  BY <1>2 DEF Acknowledge, ServeError, Hit, ServeOther, writer, thread, log
<1>3. CASE LeaveRoutine
  <2>1. pulses \in Nat
    BY DEF TypeOK
  <2> QED
    BY <1>3, <2>1 DEF LeaveRoutine, writer, thread, log
<1>4. CASE AddError \/ StoreError \/ WrapHead
  BY <1>4 DEF AddError, StoreError, WrapHead, chip, thread, log
<1>5. CASE ReceivePulse \/ ReceiveTimeout
  BY <1>5 DEF ReceivePulse, ReceiveTimeout, SwitchOn, TypeOK, routine, writer, log
<1>6. CASE LookAtEntry \/ LogEntry \/ RingEmpty
  BY <1>6 DEF LookAtEntry, LogEntry, RingEmpty, Ready, routine, writer, log
<1>7. CASE UNCHANGED vars
  BY <1>7 DEF vars, routine, writer, thread, log
<1> QED
  BY <1>1, <1>2, <1>3, <1>4, <1>5, <1>6, <1>7
  DEF Next, InterruptServiceRoutine, PulseThread

\* Only the read that ends the routine drops an interrupt.
LEMMA DropStep ==
    ASSUME TypeOK, OnlyHighDropped, [Next]_vars
    PROVE  OnlyHighDropped'
<1>1. CASE LeaveRoutine
  BY <1>1 DEF LeaveRoutine, OnlyHighDropped, TypeOK, Bits, Errors
<1>2. CASE ServeOther
  BY <1>2 DEF ServeOther, HasError, OnlyHighDropped
<1>3. CASE UNCHANGED dropped
  BY <1>3 DEF OnlyHighDropped
<1> QED
  BY <1>1, <1>2, <1>3
  DEF Next, InterruptServiceRoutine, PulseThread, Raise, Acknowledge, ServeError, AddError,
      StoreError, WrapHead, ReceivePulse, ReceiveTimeout, LookAtEntry, LogEntry,
      RingEmpty, vars, routine

-----------------------------------------------------------------------------
\* Every reachable state satisfies IInv, by induction on the steps.
THEOREM LogInvariant == Spec => []IInv
<1>1. IInv /\ [Next]_vars => IInv'
  BY TypeStep, CountStep, HeadStep, RingStep DEF IInv, TypeInv
<1> QED
  BY <1>1, InvInit, PTL DEF Spec

\* No access to the ring is outside it, and no more is logged, pulsed or added than
\* the chip raised.
THEOREM TypeCorrect == Spec => []TypeOK
<1>1. IInv => TypeOK
  BY DEF IInv, TypeInv
<1> QED
  BY <1>1, LogInvariant, PTL

\* Until the ring is lapped or a slot is read before it is stored, the log has every
\* error once, whole and in order.
THEOREM LoggedInOrder == Spec => []LogInOrder
<1>1. IInv => LogInOrder
  BY DEF IInv, RingInv, LogInOrder
<1> QED
  BY <1>1, LogInvariant, PTL

\* An entry never waits in the ring without a pulse on its way or a thread at it.
THEOREM NoEntryForgotten == Spec => []OnItsWay
<1>1. TypeOK /\ WakeInv /\ [Next]_vars => WakeInv'
  BY WakeStep
<1>2. WakeInv => OnItsWay
  BY DEF WakeInv
<1> QED
  BY <1>1, <1>2, InvInit, TypeCorrect, PTL DEF Spec

\* Of what the routine reads, only an error of the high half that comes without any
\* bit of the low half can miss the ring.
THEOREM LowErrorsKept == Spec => []OnlyHighDropped
<1>1. TypeOK /\ OnlyHighDropped /\ [Next]_vars => OnlyHighDropped'
  BY DropStep
<1> QED
  BY <1>1, InvInit, TypeCorrect, PTL DEF Spec
=============================================================================
