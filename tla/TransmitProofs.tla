--------------------------- MODULE TransmitProofs ---------------------------
(***************************************************************************)
(* Safety of the transmit side, for any identifiers, any number of writes  *)
(* and any interrupts of the chip.  The inductive invariant says who holds *)
(* which lock (LockInv), which frame a thread has in hand (HandInv), what  *)
(* transmitBufferFree_ says of the chip (FlagInv), why a queued frame will *)
(* be looked at (WakeInv), and that it is its turn (OrderInv).  From it    *)
(* every step is one of SendQueue, or none.                                *)
(***************************************************************************)
EXTENDS TransmitQueue, FiniteSetTheorems, TLAPS

NumberInv ==
    /\ IsFiniteSet(accepted)
    /\ \A f \in accepted : f.n <= Cardinality(accepted)

LockInv ==
    /\ \A t \in Loaders :
         pc[t] \in {"check", "push", "enter", "load", "unlock"} <=> transmitMutex = t
    /\ \A t \in Loaders : pc[t] = "load" <=> spinLock = t
    /\ isr \in {"read", "handle", "leave"} <=> spinLock = "isr"

HandInv ==
    /\ canFrame["dispatch"] # None <=>
         pc["dispatch"] \in {"lock", "check", "push", "enter", "load"}
    /\ canFrame["pulse"] # None <=> pc["pulse"] \in {"enter", "load"}
    /\ pc["pulse"] # "push"
    /\ pc["dispatch"] # "stopped"

\* The end of a transmission is on its way once, and before the next one.
OnePerFrame ==
    /\ "TX" \in intrReg => txBuffer = None
    /\ "TX" \in ireg => txBuffer = None /\ "TX" \notin intrReg

FlagInv ==
    /\ FreeMeansFree
    /\ OnePerFrame
    /\ \A t \in Loaders :
         /\ pc[t] = "enter" => transmitBufferFree
         /\ pc[t] = "load" => ~ transmitBufferFree
    /\ ireg # {} => isr = "handle"
    /\ \/ transmitBufferFree
       \/ \E t \in Loaders : pc[t] = "load"
       \/ txBuffer # None
       \/ "TX" \in intrReg \cup ireg

WakeInv == transmitDataQueue # {} \/ pc["dispatch"] = "push" => OnItsWay

OrderInv ==
    \A t \in Loaders : pc[t] \in {"enter", "load"} =>
      \A f \in transmitDataQueue : canFrame[t].id <= f.id

TypeInv == TypeOK /\ NumberInv /\ HandInv

-----------------------------------------------------------------------------
(***************************************************************************)
(* Types.                                                                  *)
(***************************************************************************)

\* A frame to be written is well formed.
LEMMA FrameTyped ==
    ASSUME NEW f \in Frames
    PROVE  /\ f.id \in Int /\ f.n \in 1 .. MaxWrites
           /\ f # None
  BY TransmitAssumption DEF Frames

\* The driver starts well formed.
LEMMA TypeInit == Init => TypeInv
<1> SUFFICES ASSUME Init PROVE TypeInv
  OBVIOUS
<1>1. TypeOK
  <2>1. pc \in [Loaders -> {"idle"}] /\ canFrame \in [Loaders -> {None}]
    BY DEF Init
  <2>2. incomePulse \in {"INTERRUPT_PULSE", "TERMINATE_PULSE", "other"}
    BY TransmitAssumption DEF Init
  <2>3. events \in 0 .. MaxEvents /\ pulses \in Nat
    BY TransmitAssumption DEF Init
  <2> QED
    BY <2>1, <2>2, <2>3 DEF Init, TypeOK
<1>2. NumberInv
  BY FS_EmptySet DEF Init, NumberInv
<1>3. HandInv
  BY DEF Init, HandInv, Loaders
<1> QED
  BY <1>1, <1>2, <1>3 DEF TypeInv

\* A frame written has a number no frame had before.
LEMMA WriteTyped ==
    ASSUME TypeInv, NEW id \in Ids, io_write(id)
    PROVE  /\ TypeInv'
           /\ canFrame'["dispatch"] \notin accepted
           /\ accepted' = accepted \cup {canFrame'["dispatch"]}
           /\ canFrame'["dispatch"] # None
<1> DEFINE m == Cardinality(accepted)
           f == [id |-> id, n |-> m + 1]
<1>1. m \in Nat
  BY FS_CardinalityType DEF TypeInv, NumberInv
<1>2. f \in Frames
  BY <1>1, TransmitAssumption DEF io_write, Frames
<1>3. /\ accepted' = accepted \cup {f}
      /\ canFrame' = [canFrame EXCEPT !["dispatch"] = f]
  BY DEF io_write
<1>4. canFrame'["dispatch"] = f
  BY <1>3 DEF TypeInv, TypeOK, Loaders
<1>5. f \notin accepted
  BY <1>1 DEF TypeInv, NumberInv
<1>6. IsFiniteSet(accepted') /\ Cardinality(accepted') = m + 1
  BY <1>3, <1>5, FS_AddElement DEF TypeInv, NumberInv
<1>7. \A g \in accepted' : g.n <= m + 1
  <2>1. \A g \in accepted : g.n \in Int
    BY DEF TypeInv, TypeOK, Frames
  <2> QED
    BY <1>1, <1>3, <2>1 DEF TypeInv, NumberInv
<1>8. NumberInv'
  BY <1>6, <1>7 DEF NumberInv
<1>8a. HandInv'
  <2>1. pc' = [pc EXCEPT !["dispatch"] = "lock"]
    BY DEF io_write, Goto
  <2> QED
    BY <1>2, <1>3, <2>1, FrameTyped DEF TypeInv, TypeOK, HandInv, Loaders
<1>9. TypeOK'
  BY <1>2, <1>3 DEF TypeInv, TypeOK, io_write, Goto, driver, isrs, chip, Loaders
<1> QED
  BY <1>2, <1>3, <1>4, <1>5, <1>8, <1>8a, <1>9, FrameTyped DEF TypeInv

\* Every step but a write keeps the variables' types ...
LEMMA OtherTyped ==
    ASSUME TypeOK, HandInv, Next, ~ \E id \in Ids : io_write(id)
    PROVE  TypeOK' /\ accepted' = accepted
<1> DEFINE Typed == TypeOK' /\ accepted' = accepted
<1>1. ASSUME NEW t \in Loaders, Lock(t) PROVE Typed
  BY <1>1 DEF TypeOK, Lock, Goto, isrs, chip
<1>2. ASSUME WriteCheck PROVE Typed
  BY <1>2 DEF TypeOK, WriteCheck, Goto, driver, isrs, chip
<1>3. ASSUME WritePush PROVE Typed
  <2>1. canFrame["dispatch"] \in Frames
    BY <1>3 DEF TypeOK, HandInv, Loaders, WritePush
  <2> QED
    BY <1>3, <2>1 DEF TypeOK, WritePush, Goto, isrs, chip
<1>4. ASSUME ProcessTransmitFlag PROVE Typed
  <2>0. UNCHANGED <<transmitBufferFree, transmitMutex, spinLock, isrs, pulses,
                    incomePulse, chip, accepted>>
    BY <1>4 DEF ProcessTransmitFlag
  <2>1. ASSUME NEW f \in Top, canFrame' = [canFrame EXCEPT !["pulse"] = f],
               transmitDataQueue' = transmitDataQueue \ {f}, Goto("pulse", "enter")
        PROVE  Typed
    <3>1. f \in Frames
      BY <2>1 DEF Top, TypeOK
    <3>2. /\ canFrame' \in [Loaders -> Frames \cup {None}]
          /\ transmitDataQueue' \subseteq Frames
      BY <2>1, <3>1 DEF TypeOK
    <3>3. pc' = [pc EXCEPT !["pulse"] = "enter"]
      BY <2>1 DEF Goto
    <3> QED
      BY <2>0, <3>2, <3>3 DEF TypeOK, isrs, chip
  <2>2. ASSUME Goto("pulse", "unlock"), UNCHANGED <<canFrame, transmitDataQueue>>
        PROVE  Typed
    BY <2>0, <2>2 DEF TypeOK, Goto, isrs, chip
  <2> QED
    BY <1>4, <2>1, <2>2 DEF ProcessTransmitFlag
<1>5. ASSUME NEW t \in Loaders, TransmitMessage(t) PROVE Typed
  BY <1>5 DEF TypeOK, TransmitMessage, Taken, Goto, isrs, chip
<1>6. ASSUME NEW t \in Loaders, TransmitMessageDone(t) PROVE Typed
  BY <1>6 DEF TypeOK, TransmitMessageDone, Goto, isrs
<1>7. ASSUME NEW t \in Loaders, Unlock(t) PROVE Typed
  BY <1>7 DEF TypeOK, Unlock, Released, Goto, isrs, chip
<1>8. ASSUME ReceivePulse PROVE Typed
  <2>1. pc' = [pc EXCEPT !["pulse"] = "lock"] /\ pulses' \in Nat
    BY <1>8 DEF TypeOK, ReceivePulse, PulseIn, SwitchOn, Goto
  <2> QED
    BY <1>8, <2>1 DEF TypeOK, ReceivePulse, driver, isrs, chip
<1>9. ASSUME ReceiveTimeout PROVE Typed
  BY <1>9 DEF TypeOK, ReceiveTimeout, SwitchOn, Goto, driver, isrs, chip
<1>10. ASSUME Acknowledge PROVE Typed
  BY <1>10 DEF TypeOK, Acknowledge, driver, loader
<1>11. ASSUME InterruptServiceRoutine PROVE Typed
  BY <1>11 DEF TypeOK, InterruptServiceRoutine, loader, chip
<1>12. ASSUME ReadInterrupts PROVE Typed
  BY <1>12 DEF TypeOK, ReadInterrupts, driver, loader
<1>13. ASSUME HandleInterrupts PROVE Typed
  BY <1>13 DEF TypeOK, HandleInterrupts, loader, chip
<1>14. ASSUME LeaveInterrupts PROVE Typed
  BY <1>14 DEF TypeOK, LeaveInterrupts, LatchKept, loader
<1>15. ASSUME SendPulse PROVE Typed
  BY <1>15 DEF TypeOK, SendPulse, PulseSent, driver, loader, chip
<1>16. ASSUME Transmitted PROVE Typed
  BY <1>16 DEF TypeOK, Transmitted, Raise, Bits, Low, driver, loader, isrs
<1>17. ASSUME NEW bit \in {"LOW", "HIGH"}, OtherInterrupt(bit) PROVE Typed
  BY <1>17, TransmitAssumption DEF TypeOK, OtherInterrupt, Raise, Bits, Low,
     driver, loader, isrs
<1> QED
  BY <1>1, <1>2, <1>3, <1>4, <1>5, <1>6, <1>7, <1>8, <1>9, <1>10, <1>11, <1>12,
     <1>13, <1>14, <1>15, <1>16, <1>17
  DEF Next, Dispatch, InterruptHandleTh, ServiceThread, Environment, Loaders

\* ... and a frame in hand in the steps that use it, and in no other.
LEMMA OtherHand ==
    ASSUME TypeOK, HandInv, Next, ~ \E id \in Ids : io_write(id)
    PROVE  HandInv'
<1>a. canFrame' = canFrame /\ pc' = pc => HandInv'
  BY DEF HandInv
<1>1. ASSUME NEW t \in Loaders, Lock(t) PROVE HandInv'
  BY <1>1 DEF TypeOK, HandInv, Lock, Goto, Loaders
<1>2. ASSUME WriteCheck PROVE HandInv'
  BY <1>2 DEF TypeOK, HandInv, WriteCheck, Goto, Loaders
<1>3. ASSUME WritePush PROVE HandInv'
  BY <1>3 DEF TypeOK, HandInv, WritePush, Goto, Loaders
<1>4. ASSUME ProcessTransmitFlag PROVE HandInv'
  <2>1. \A f \in Top : f # None
    BY FrameTyped DEF Top, TypeOK
  <2> QED
    BY <1>4, <2>1 DEF TypeOK, HandInv, ProcessTransmitFlag, Goto, Loaders
<1>5. ASSUME NEW t \in Loaders, TransmitMessage(t) PROVE HandInv'
  BY <1>5 DEF TypeOK, HandInv, TransmitMessage, Goto, Loaders
<1>6. ASSUME NEW t \in Loaders, TransmitMessageDone(t) PROVE HandInv'
  BY <1>6 DEF TypeOK, HandInv, TransmitMessageDone, Goto, Loaders
<1>7. ASSUME NEW t \in Loaders, Unlock(t) PROVE HandInv'
  BY <1>7 DEF TypeOK, HandInv, Unlock, Goto, Loaders
<1>8. ASSUME ReceivePulse PROVE HandInv'
  BY <1>8 DEF TypeOK, HandInv, ReceivePulse, Goto, Loaders, SwitchOn
<1>9. ASSUME ReceiveTimeout PROVE HandInv'
  BY <1>9 DEF TypeOK, HandInv, ReceiveTimeout, Goto, Loaders, SwitchOn
<1>10. ASSUME Acknowledge PROVE HandInv'
  BY <1>a, <1>10 DEF Acknowledge, loader
<1>11. ASSUME InterruptServiceRoutine PROVE HandInv'
  BY <1>a, <1>11 DEF InterruptServiceRoutine, loader
<1>12. ASSUME ReadInterrupts PROVE HandInv'
  BY <1>a, <1>12 DEF ReadInterrupts, loader
<1>13. ASSUME HandleInterrupts PROVE HandInv'
  BY <1>a, <1>13 DEF HandleInterrupts, loader
<1>14. ASSUME LeaveInterrupts PROVE HandInv'
  BY <1>a, <1>14 DEF LeaveInterrupts, loader
<1>15. ASSUME SendPulse PROVE HandInv'
  BY <1>a, <1>15 DEF SendPulse, loader
<1>16. ASSUME Transmitted PROVE HandInv'
  BY <1>a, <1>16 DEF Transmitted, loader
<1>17. ASSUME NEW bit \in {"LOW", "HIGH"}, OtherInterrupt(bit) PROVE HandInv'
  BY <1>a, <1>17 DEF OtherInterrupt, loader
<1> QED
  BY <1>1, <1>2, <1>3, <1>4, <1>5, <1>6, <1>7, <1>8, <1>9, <1>10, <1>11, <1>12,
     <1>13, <1>14, <1>15, <1>16, <1>17
  DEF Next, Dispatch, InterruptHandleTh, ServiceThread, Environment, Loaders

\* Every step keeps the state well formed.
LEMMA TypeStep == TypeInv /\ [Next]_vars => TypeInv'
<1> SUFFICES ASSUME TypeInv, [Next]_vars PROVE TypeInv'
  OBVIOUS
<1>1. CASE UNCHANGED vars
  BY <1>1 DEF TypeInv, TypeOK, NumberInv, HandInv, vars, driver, loader, isrs, chip
<1>2. ASSUME NEW id \in Ids, io_write(id) PROVE TypeInv'
  BY <1>2, WriteTyped
<1>3. CASE Next /\ ~ \E id \in Ids : io_write(id)
  <2>1. TypeOK' /\ HandInv' /\ accepted' = accepted
    BY <1>3, OtherTyped, OtherHand DEF TypeInv
  <2> QED
    BY <2>1 DEF TypeInv, NumberInv
<1> QED
  BY <1>1, <1>2, <1>3

\* Types, and numbers that tell the frames written apart.
THEOREM TypeCorrect == Spec => []TypeOK
<1>1. TypeInv => TypeOK
  BY DEF TypeInv
<1> QED
  BY <1>1, TypeInit, TypeStep, PTL DEF Spec
-----------------------------------------------------------------------------
(***************************************************************************)
(* Safety.                                                                 *)
(***************************************************************************)

\* A lock is held from the step that takes it to the one that releases it.
LEMMA LockStep ==
    ASSUME TypeOK, HandInv, LockInv, [Next]_vars
    PROVE  LockInv'
<1>1. ASSUME NEW id \in Ids, io_write(id) PROVE LockInv'
  BY <1>1 DEF TypeOK, HandInv, LockInv, io_write, Goto, driver, isrs, chip,
     Loaders
<1>2. ASSUME NEW t \in Loaders, Lock(t) PROVE LockInv'
  BY <1>2 DEF TypeOK, HandInv, LockInv, Lock, Goto, isrs, chip, Loaders
<1>3. ASSUME WriteCheck PROVE LockInv'
  BY <1>3 DEF TypeOK, HandInv, LockInv, WriteCheck, MaySend, Goto, driver,
     isrs, chip, Loaders
<1>4. ASSUME WritePush PROVE LockInv'
  BY <1>4 DEF TypeOK, HandInv, LockInv, WritePush, Goto, isrs, chip, Loaders
<1>5. ASSUME ProcessTransmitFlag PROVE LockInv'
  BY <1>5 DEF TypeOK, HandInv, LockInv, ProcessTransmitFlag, Goto, isrs, chip,
     Loaders
<1>6. ASSUME NEW t \in Loaders, TransmitMessage(t) PROVE LockInv'
  BY <1>6 DEF TypeOK, HandInv, LockInv, TransmitMessage, Taken, Goto, isrs,
     chip, Loaders
<1>7. ASSUME NEW t \in Loaders, TransmitMessageDone(t) PROVE LockInv'
  BY <1>7 DEF TypeOK, HandInv, LockInv, TransmitMessageDone, Goto, isrs,
     Loaders
<1>8. ASSUME NEW t \in Loaders, Unlock(t) PROVE LockInv'
  BY <1>8 DEF TypeOK, HandInv, LockInv, Unlock, Released, Goto, isrs, chip,
     Loaders
<1>9. ASSUME ReceivePulse PROVE LockInv'
  BY <1>9 DEF TypeOK, HandInv, LockInv, ReceivePulse, PulseIn, SwitchOn, Goto,
     driver, isrs, chip, Loaders
<1>10. ASSUME ReceiveTimeout PROVE LockInv'
  BY <1>10 DEF TypeOK, HandInv, LockInv, ReceiveTimeout, SwitchOn, Goto,
     driver, isrs, chip, Loaders
<1>11. ASSUME Acknowledge PROVE LockInv'
  BY <1>11 DEF TypeOK, HandInv, LockInv, Acknowledge, driver, loader, Loaders
<1>12. ASSUME InterruptServiceRoutine PROVE LockInv'
  BY <1>12 DEF TypeOK, HandInv, LockInv, InterruptServiceRoutine, loader, chip,
     Loaders
<1>13. ASSUME ReadInterrupts PROVE LockInv'
  BY <1>13 DEF TypeOK, HandInv, LockInv, ReadInterrupts, Low, driver, loader,
     Loaders
<1>14. ASSUME HandleInterrupts PROVE LockInv'
  BY <1>14 DEF TypeOK, HandInv, LockInv, HandleInterrupts, TransmitComplete,
     loader, chip, Loaders
<1>15. ASSUME LeaveInterrupts PROVE LockInv'
  BY <1>15 DEF TypeOK, HandInv, LockInv, LeaveInterrupts, LatchKept, loader,
     Loaders
<1>16. ASSUME SendPulse PROVE LockInv'
  BY <1>16 DEF TypeOK, HandInv, LockInv, SendPulse, PulseSent, driver, loader,
     chip, Loaders
<1>17. ASSUME Transmitted PROVE LockInv'
  BY <1>17 DEF TypeOK, HandInv, LockInv, Transmitted, Raise, driver, loader,
     isrs, Loaders
<1>18. ASSUME NEW bit \in {"LOW", "HIGH"}, OtherInterrupt(bit) PROVE LockInv'
  BY <1>18 DEF TypeOK, HandInv, LockInv, OtherInterrupt, Raise, driver, loader,
     isrs, Loaders
<1>19. CASE UNCHANGED vars
  BY <1>19 DEF TypeOK, HandInv, LockInv, vars, driver, loader, isrs, chip
<1> QED
  BY <1>1, <1>2, <1>3, <1>4, <1>5, <1>6, <1>7, <1>8, <1>9, <1>10, <1>11, <1>12,
     <1>13, <1>14, <1>15, <1>16, <1>17, <1>18, <1>19
  DEF Next, Dispatch, InterruptHandleTh, ServiceThread, Environment, Loaders

\* The flag is set when the frame has left the buffer, and cleared before another
\* enters it.
LEMMA FlagStep ==
    ASSUME TypeOK, HandInv, LockInv, FlagInv, [Next]_vars
    PROVE  FlagInv'
<1>1. ASSUME NEW id \in Ids, io_write(id) PROVE FlagInv'
  BY <1>1 DEF TypeOK, HandInv, LockInv, FlagInv, OnePerFrame, FreeMeansFree,
     io_write, Goto, driver, isrs, chip, Loaders
<1>2. ASSUME NEW t \in Loaders, Lock(t) PROVE FlagInv'
  BY <1>2 DEF TypeOK, HandInv, LockInv, FlagInv, OnePerFrame, FreeMeansFree,
     Lock, Goto, isrs, chip, Loaders
<1>3. ASSUME WriteCheck PROVE FlagInv'
  BY <1>3 DEF TypeOK, HandInv, LockInv, FlagInv, OnePerFrame, FreeMeansFree,
     WriteCheck, MaySend, Goto, driver, isrs, chip, Loaders
<1>4. ASSUME WritePush PROVE FlagInv'
  BY <1>4 DEF TypeOK, HandInv, LockInv, FlagInv, OnePerFrame, FreeMeansFree,
     WritePush, Goto, isrs, chip, Loaders
<1>5. ASSUME ProcessTransmitFlag PROVE FlagInv'
  BY <1>5 DEF TypeOK, HandInv, LockInv, FlagInv, OnePerFrame, FreeMeansFree,
     ProcessTransmitFlag, Goto, isrs, chip, Loaders
<1>6. ASSUME NEW t \in Loaders, TransmitMessage(t) PROVE FlagInv'
  BY <1>6 DEF TypeOK, HandInv, LockInv, FlagInv, OnePerFrame, FreeMeansFree,
     TransmitMessage, Taken, Goto, isrs, chip, Loaders
<1>7. ASSUME NEW t \in Loaders, TransmitMessageDone(t) PROVE FlagInv'
  BY <1>7 DEF TypeOK, HandInv, LockInv, FlagInv, OnePerFrame, FreeMeansFree,
     TransmitMessageDone, Goto, isrs, Loaders
<1>8. ASSUME NEW t \in Loaders, Unlock(t) PROVE FlagInv'
  BY <1>8 DEF TypeOK, HandInv, LockInv, FlagInv, OnePerFrame, FreeMeansFree,
     Unlock, Released, Goto, isrs, chip, Loaders
<1>9. ASSUME ReceivePulse PROVE FlagInv'
  BY <1>9 DEF TypeOK, HandInv, LockInv, FlagInv, OnePerFrame, FreeMeansFree,
     ReceivePulse, PulseIn, SwitchOn, Goto, driver, isrs, chip, Loaders
<1>10. ASSUME ReceiveTimeout PROVE FlagInv'
  BY <1>10 DEF TypeOK, HandInv, LockInv, FlagInv, OnePerFrame, FreeMeansFree,
     ReceiveTimeout, SwitchOn, Goto, driver, isrs, chip, Loaders
<1>11. ASSUME Acknowledge PROVE FlagInv'
  BY <1>11 DEF TypeOK, HandInv, LockInv, FlagInv, OnePerFrame, FreeMeansFree,
     Acknowledge, driver, loader, Loaders
<1>12. ASSUME InterruptServiceRoutine PROVE FlagInv'
  BY <1>12 DEF TypeOK, HandInv, LockInv, FlagInv, OnePerFrame, FreeMeansFree,
     InterruptServiceRoutine, loader, chip, Loaders
<1>13. ASSUME ReadInterrupts PROVE FlagInv'
  BY <1>13 DEF TypeOK, HandInv, LockInv, FlagInv, OnePerFrame, FreeMeansFree,
     ReadInterrupts, Low, driver, loader, Loaders
<1>14. ASSUME HandleInterrupts PROVE FlagInv'
  <2>1. /\ spinLock = "isr" /\ ireg' = {} /\ isr' = "read"
        /\ transmitBufferFree' = (transmitBufferFree \/ "TX" \in ireg)
        /\ pc' = pc /\ txBuffer' = txBuffer /\ intrReg' = intrReg
    BY <1>14 DEF HandleInterrupts, TransmitComplete, LockInv, loader, chip
  <2>2. \A t \in Loaders : pc[t] # "load"
    BY <2>1 DEF LockInv, Loaders
  <2>3. "TX" \in ireg => txBuffer = None /\ "TX" \notin intrReg
    BY DEF FlagInv, OnePerFrame
  <2>4. transmitBufferFree => txBuffer = None /\ "TX" \notin intrReg
    BY DEF FlagInv, FreeMeansFree
  <2>5. FreeMeansFree'
    BY <2>1, <2>2, <2>3, <2>4 DEF FreeMeansFree
  <2>6. OnePerFrame'
    BY <2>1, <2>2 DEF FlagInv, OnePerFrame
  <2> QED
    BY <2>1, <2>2, <2>3, <2>4, <2>5, <2>6 DEF FlagInv
<1>15. ASSUME LeaveInterrupts PROVE FlagInv'
  BY <1>15 DEF TypeOK, HandInv, LockInv, FlagInv, OnePerFrame, FreeMeansFree,
     LeaveInterrupts, LatchKept, loader, Loaders
<1>16. ASSUME SendPulse PROVE FlagInv'
  BY <1>16 DEF TypeOK, HandInv, LockInv, FlagInv, OnePerFrame, FreeMeansFree,
     SendPulse, PulseSent, driver, loader, chip, Loaders
<1>17. ASSUME Transmitted PROVE FlagInv'
  BY <1>17 DEF TypeOK, HandInv, LockInv, FlagInv, OnePerFrame, FreeMeansFree,
     Transmitted, Raise, driver, loader, isrs, Loaders
<1>18. ASSUME NEW bit \in {"LOW", "HIGH"}, OtherInterrupt(bit) PROVE FlagInv'
  BY <1>18 DEF TypeOK, HandInv, LockInv, FlagInv, OnePerFrame, FreeMeansFree,
     OtherInterrupt, Raise, driver, loader, isrs, Loaders
<1>19. CASE UNCHANGED vars
  BY <1>19 DEF TypeOK, HandInv, LockInv, FlagInv, OnePerFrame, FreeMeansFree,
     vars, driver, loader, isrs, chip
<1> QED
  BY <1>1, <1>2, <1>3, <1>4, <1>5, <1>6, <1>7, <1>8, <1>9, <1>10, <1>11, <1>12,
     <1>13, <1>14, <1>15, <1>16, <1>17, <1>18, <1>19
  DEF Next, Dispatch, InterruptHandleTh, ServiceThread, Environment, Loaders

\* Whatever a queued frame waits for leads to a look at the queue.
LEMMA WakeStep ==
    ASSUME TypeOK, HandInv, LockInv, FlagInv, WakeInv, [Next]_vars
    PROVE  WakeInv'
<1>1. ASSUME NEW id \in Ids, io_write(id) PROVE WakeInv'
  BY <1>1 DEF TypeOK, HandInv, LockInv, FlagInv, WakeInv, OnItsWay, io_write,
     Goto, driver, isrs, chip, Loaders
<1>2. ASSUME NEW t \in Loaders, Lock(t) PROVE WakeInv'
  BY <1>2 DEF TypeOK, HandInv, LockInv, FlagInv, WakeInv, OnItsWay, Lock, Goto,
     isrs, chip, Loaders
<1>3. ASSUME WriteCheck PROVE WakeInv'
  BY <1>3 DEF TypeOK, HandInv, LockInv, FlagInv, WakeInv, OnItsWay, WriteCheck,
     MaySend, Goto, driver, isrs, chip, Loaders
<1>4. ASSUME WritePush PROVE WakeInv'
  BY <1>4 DEF TypeOK, HandInv, LockInv, FlagInv, WakeInv, OnItsWay, WritePush,
     Goto, isrs, chip, Loaders
<1>5. ASSUME ProcessTransmitFlag PROVE WakeInv'
  BY <1>5 DEF TypeOK, HandInv, LockInv, FlagInv, WakeInv, OnItsWay,
     ProcessTransmitFlag, Goto, isrs, chip, Loaders
<1>6. ASSUME NEW t \in Loaders, TransmitMessage(t) PROVE WakeInv'
  BY <1>6 DEF TypeOK, HandInv, LockInv, FlagInv, WakeInv, OnItsWay,
     TransmitMessage, Taken, Goto, isrs, chip, Loaders
<1>7. ASSUME NEW t \in Loaders, TransmitMessageDone(t) PROVE WakeInv'
  BY <1>7 DEF TypeOK, HandInv, LockInv, FlagInv, WakeInv, OnItsWay,
     TransmitMessageDone, Goto, isrs, Loaders
<1>8. ASSUME NEW t \in Loaders, Unlock(t) PROVE WakeInv'
  BY <1>8 DEF TypeOK, HandInv, LockInv, FlagInv, WakeInv, OnItsWay, Unlock,
     Released, Goto, isrs, chip, Loaders
<1>9. ASSUME ReceivePulse PROVE WakeInv'
  BY <1>9 DEF TypeOK, HandInv, LockInv, FlagInv, WakeInv, OnItsWay,
     ReceivePulse, PulseIn, SwitchOn, Goto, driver, isrs, chip, Loaders
<1>10. ASSUME ReceiveTimeout PROVE WakeInv'
  BY <1>10 DEF TypeOK, HandInv, LockInv, FlagInv, WakeInv, OnItsWay,
     ReceiveTimeout, SwitchOn, Goto, driver, isrs, chip, Loaders
<1>11. ASSUME Acknowledge PROVE WakeInv'
  BY <1>11 DEF TypeOK, HandInv, LockInv, FlagInv, WakeInv, OnItsWay,
     Acknowledge, driver, loader, Loaders
<1>12. ASSUME InterruptServiceRoutine PROVE WakeInv'
  BY <1>12 DEF TypeOK, HandInv, LockInv, FlagInv, WakeInv, OnItsWay,
     InterruptServiceRoutine, loader, chip, Loaders
<1>13. ASSUME ReadInterrupts PROVE WakeInv'
  BY <1>13 DEF TypeOK, HandInv, LockInv, FlagInv, WakeInv, OnItsWay,
     ReadInterrupts, Low, driver, loader, Loaders
<1>14. ASSUME HandleInterrupts PROVE WakeInv'
  BY <1>14 DEF TypeOK, HandInv, LockInv, FlagInv, WakeInv, OnItsWay,
     HandleInterrupts, TransmitComplete, loader, chip, Loaders
<1>15. ASSUME LeaveInterrupts PROVE WakeInv'
  BY <1>15 DEF TypeOK, HandInv, LockInv, FlagInv, WakeInv, OnItsWay,
     LeaveInterrupts, LatchKept, loader, Loaders
<1>16. ASSUME SendPulse PROVE WakeInv'
  BY <1>16 DEF TypeOK, HandInv, LockInv, FlagInv, WakeInv, OnItsWay, SendPulse,
     PulseSent, driver, loader, chip, Loaders
<1>17. ASSUME Transmitted PROVE WakeInv'
  BY <1>17 DEF TypeOK, HandInv, LockInv, FlagInv, WakeInv, OnItsWay,
     Transmitted, Raise, driver, loader, isrs, Loaders
<1>18. ASSUME NEW bit \in {"LOW", "HIGH"}, OtherInterrupt(bit) PROVE WakeInv'
  BY <1>18 DEF TypeOK, HandInv, LockInv, FlagInv, WakeInv, OnItsWay,
     OtherInterrupt, Raise, driver, loader, isrs, Loaders
<1>19. CASE UNCHANGED vars
  BY <1>19 DEF TypeOK, HandInv, LockInv, FlagInv, WakeInv, OnItsWay, vars,
     driver, loader, isrs, chip
<1> QED
  BY <1>1, <1>2, <1>3, <1>4, <1>5, <1>6, <1>7, <1>8, <1>9, <1>10, <1>11, <1>12,
     <1>13, <1>14, <1>15, <1>16, <1>17, <1>18, <1>19
  DEF Next, Dispatch, InterruptHandleTh, ServiceThread, Environment, Loaders

\* Nothing is pushed while a thread that holds the mutex has a frame in hand.
LEMMA OrderStep ==
    ASSUME TypeOK, HandInv, LockInv, OrderInv, [Next]_vars
    PROVE  OrderInv'
<1>1. ASSUME NEW id \in Ids, io_write(id) PROVE OrderInv'
  BY <1>1 DEF TypeOK, HandInv, LockInv, OrderInv, io_write, Goto, driver, isrs,
     chip, Loaders
<1>2. ASSUME NEW t \in Loaders, Lock(t) PROVE OrderInv'
  BY <1>2 DEF TypeOK, HandInv, LockInv, OrderInv, Lock, Goto, isrs, chip,
     Loaders
<1>3. ASSUME WriteCheck PROVE OrderInv'
  BY <1>3 DEF TypeOK, HandInv, LockInv, OrderInv, WriteCheck, MaySend, Goto,
     driver, isrs, chip, Loaders
<1>4. ASSUME WritePush PROVE OrderInv'
  BY <1>4 DEF TypeOK, HandInv, LockInv, OrderInv, WritePush, Goto, isrs, chip,
     Loaders
<1>5. ASSUME ProcessTransmitFlag PROVE OrderInv'
  <2>1. pc["dispatch"] \notin {"enter", "load"} /\ pc'["dispatch"] = pc["dispatch"]
    BY <1>5 DEF ProcessTransmitFlag, Goto, LockInv, TypeOK, Loaders
  <2>2. ASSUME NEW f \in Top, canFrame' = [canFrame EXCEPT !["pulse"] = f],
               transmitDataQueue' = transmitDataQueue \ {f}
        PROVE  OrderInv'
    <3>1. canFrame'["pulse"] = f
      BY <2>2 DEF TypeOK, Loaders
    <3> QED
      BY <2>1, <2>2, <3>1 DEF OrderInv, Top, Loaders
  <2>3. ASSUME Goto("pulse", "unlock") PROVE OrderInv'
    BY <2>1, <2>3 DEF OrderInv, Goto, TypeOK, Loaders
  <2> QED
    BY <1>5, <2>2, <2>3 DEF ProcessTransmitFlag
<1>6. ASSUME NEW t \in Loaders, TransmitMessage(t) PROVE OrderInv'
  BY <1>6 DEF TypeOK, HandInv, LockInv, OrderInv, TransmitMessage, Taken, Goto,
     isrs, chip, Loaders
<1>7. ASSUME NEW t \in Loaders, TransmitMessageDone(t) PROVE OrderInv'
  BY <1>7 DEF TypeOK, HandInv, LockInv, OrderInv, TransmitMessageDone, Goto,
     isrs, Loaders
<1>8. ASSUME NEW t \in Loaders, Unlock(t) PROVE OrderInv'
  BY <1>8 DEF TypeOK, HandInv, LockInv, OrderInv, Unlock, Released, Goto, isrs,
     chip, Loaders
<1>9. ASSUME ReceivePulse PROVE OrderInv'
  BY <1>9 DEF TypeOK, HandInv, LockInv, OrderInv, ReceivePulse, PulseIn,
     SwitchOn, Goto, driver, isrs, chip, Loaders
<1>10. ASSUME ReceiveTimeout PROVE OrderInv'
  BY <1>10 DEF TypeOK, HandInv, LockInv, OrderInv, ReceiveTimeout, SwitchOn,
     Goto, driver, isrs, chip, Loaders
<1>11. ASSUME Acknowledge PROVE OrderInv'
  BY <1>11 DEF TypeOK, HandInv, LockInv, OrderInv, Acknowledge, driver, loader,
     Loaders
<1>12. ASSUME InterruptServiceRoutine PROVE OrderInv'
  BY <1>12 DEF TypeOK, HandInv, LockInv, OrderInv, InterruptServiceRoutine,
     loader, chip, Loaders
<1>13. ASSUME ReadInterrupts PROVE OrderInv'
  BY <1>13 DEF TypeOK, HandInv, LockInv, OrderInv, ReadInterrupts, Low, driver,
     loader, Loaders
<1>14. ASSUME HandleInterrupts PROVE OrderInv'
  BY <1>14 DEF TypeOK, HandInv, LockInv, OrderInv, HandleInterrupts,
     TransmitComplete, loader, chip, Loaders
<1>15. ASSUME LeaveInterrupts PROVE OrderInv'
  BY <1>15 DEF TypeOK, HandInv, LockInv, OrderInv, LeaveInterrupts, LatchKept,
     loader, Loaders
<1>16. ASSUME SendPulse PROVE OrderInv'
  BY <1>16 DEF TypeOK, HandInv, LockInv, OrderInv, SendPulse, PulseSent,
     driver, loader, chip, Loaders
<1>17. ASSUME Transmitted PROVE OrderInv'
  BY <1>17 DEF TypeOK, HandInv, LockInv, OrderInv, Transmitted, Raise, driver,
     loader, isrs, Loaders
<1>18. ASSUME NEW bit \in {"LOW", "HIGH"}, OtherInterrupt(bit) PROVE OrderInv'
  BY <1>18 DEF TypeOK, HandInv, LockInv, OrderInv, OtherInterrupt, Raise,
     driver, loader, isrs, Loaders
<1>19. CASE UNCHANGED vars
  BY <1>19 DEF TypeOK, HandInv, LockInv, OrderInv, vars, driver, loader, isrs,
     chip
<1> QED
  BY <1>1, <1>2, <1>3, <1>4, <1>5, <1>6, <1>7, <1>8, <1>9, <1>10, <1>11, <1>12,
     <1>13, <1>14, <1>15, <1>16, <1>17, <1>18, <1>19
  DEF Next, Dispatch, InterruptHandleTh, ServiceThread, Environment, Loaders

\* The latch is cleared before the register is read, never after.
LEMMA LatchStep ==
    ASSUME TypeOK, NoLostInterrupt, [Next]_vars
    PROVE  NoLostInterrupt'
<1>1. ASSUME NEW id \in Ids, io_write(id) PROVE NoLostInterrupt'
  BY <1>1 DEF TypeOK, NoLostInterrupt, io_write, Goto, driver, isrs, chip,
     Loaders
<1>2. ASSUME NEW t \in Loaders, Lock(t) PROVE NoLostInterrupt'
  BY <1>2 DEF TypeOK, NoLostInterrupt, Lock, Goto, isrs, chip, Loaders
<1>3. ASSUME WriteCheck PROVE NoLostInterrupt'
  BY <1>3 DEF TypeOK, NoLostInterrupt, WriteCheck, MaySend, Goto, driver, isrs,
     chip, Loaders
<1>4. ASSUME WritePush PROVE NoLostInterrupt'
  BY <1>4 DEF TypeOK, NoLostInterrupt, WritePush, Goto, isrs, chip, Loaders
<1>5. ASSUME ProcessTransmitFlag PROVE NoLostInterrupt'
  BY <1>5 DEF TypeOK, NoLostInterrupt, ProcessTransmitFlag, Goto, isrs, chip,
     Loaders
<1>6. ASSUME NEW t \in Loaders, TransmitMessage(t) PROVE NoLostInterrupt'
  BY <1>6 DEF TypeOK, NoLostInterrupt, TransmitMessage, Taken, Goto, isrs,
     chip, Loaders
<1>7. ASSUME NEW t \in Loaders, TransmitMessageDone(t) PROVE NoLostInterrupt'
  BY <1>7 DEF TypeOK, NoLostInterrupt, TransmitMessageDone, Goto, isrs, Loaders
<1>8. ASSUME NEW t \in Loaders, Unlock(t) PROVE NoLostInterrupt'
  BY <1>8 DEF TypeOK, NoLostInterrupt, Unlock, Released, Goto, isrs, chip,
     Loaders
<1>9. ASSUME ReceivePulse PROVE NoLostInterrupt'
  BY <1>9 DEF TypeOK, NoLostInterrupt, ReceivePulse, PulseIn, SwitchOn, Goto,
     driver, isrs, chip, Loaders
<1>10. ASSUME ReceiveTimeout PROVE NoLostInterrupt'
  BY <1>10 DEF TypeOK, NoLostInterrupt, ReceiveTimeout, SwitchOn, Goto, driver,
     isrs, chip, Loaders
<1>11. ASSUME Acknowledge PROVE NoLostInterrupt'
  BY <1>11 DEF TypeOK, NoLostInterrupt, Acknowledge, driver, loader, Loaders
<1>12. ASSUME InterruptServiceRoutine PROVE NoLostInterrupt'
  BY <1>12 DEF TypeOK, NoLostInterrupt, InterruptServiceRoutine, loader, chip,
     Loaders
<1>13. ASSUME ReadInterrupts PROVE NoLostInterrupt'
  BY <1>13 DEF TypeOK, NoLostInterrupt, ReadInterrupts, Low, driver, loader,
     Loaders
<1>14. ASSUME HandleInterrupts PROVE NoLostInterrupt'
  BY <1>14 DEF TypeOK, NoLostInterrupt, HandleInterrupts, TransmitComplete,
     loader, chip, Loaders
<1>15. ASSUME LeaveInterrupts PROVE NoLostInterrupt'
  BY <1>15 DEF TypeOK, NoLostInterrupt, LeaveInterrupts, LatchKept, loader,
     Loaders
<1>16. ASSUME SendPulse PROVE NoLostInterrupt'
  BY <1>16 DEF TypeOK, NoLostInterrupt, SendPulse, PulseSent, driver, loader,
     chip, Loaders
<1>17. ASSUME Transmitted PROVE NoLostInterrupt'
  BY <1>17 DEF TypeOK, NoLostInterrupt, Transmitted, Raise, driver, loader,
     isrs, Loaders
<1>18. ASSUME NEW bit \in {"LOW", "HIGH"}, OtherInterrupt(bit) PROVE NoLostInterrupt'
  BY <1>18 DEF TypeOK, NoLostInterrupt, OtherInterrupt, Raise, driver, loader,
     isrs, Loaders
<1>19. CASE UNCHANGED vars
  BY <1>19 DEF TypeOK, NoLostInterrupt, vars, driver, loader, isrs, chip
<1> QED
  BY <1>1, <1>2, <1>3, <1>4, <1>5, <1>6, <1>7, <1>8, <1>9, <1>10, <1>11, <1>12,
     <1>13, <1>14, <1>15, <1>16, <1>17, <1>18, <1>19
  DEF Next, Dispatch, InterruptHandleTh, ServiceThread, Environment, Loaders

\* What is in hand, spelt out.
LEMMA HandOf == InHand = {canFrame["dispatch"], canFrame["pulse"]} \ {None}
  BY DEF InHand, Loaders

\* A frame goes from one place to the next: the buffer a thread writes to is empty,
\* and a frame that is written is new.
LEMMA OnceStep ==
    ASSUME TypeInv, LockInv, FlagInv, ExactlyOnce, [Next]_vars
    PROVE  ExactlyOnce'
<1>1. ASSUME NEW id \in Ids, io_write(id) PROVE ExactlyOnce'
  <2> DEFINE f == canFrame'["dispatch"]
  <2>1. /\ f \notin accepted /\ accepted' = accepted \cup {f} /\ f # None
    BY <1>1, WriteTyped
  <2>2. canFrame["dispatch"] = None /\ canFrame'["pulse"] = canFrame["pulse"]
    BY <1>1 DEF io_write, TypeInv, TypeOK, HandInv, Loaders
  <2>3. UNCHANGED <<transmitDataQueue, txBuffer, sent>>
    BY <1>1 DEF io_write, driver, chip
  <2>4. InHand' = InHand \cup {f}
    BY <2>1, <2>2 DEF InHand, Loaders
  <2> QED
    BY <2>1, <2>2, <2>3, <2>4 DEF ExactlyOnce, OnChip, InHand, Loaders
<1>2. ASSUME NEW t \in Loaders, Lock(t) PROVE ExactlyOnce'
  BY <1>2 DEF ExactlyOnce, InHand, OnChip, Lock, Goto, isrs, chip, Loaders
<1>3. ASSUME WriteCheck PROVE ExactlyOnce'
  BY <1>3 DEF ExactlyOnce, InHand, OnChip, WriteCheck, MaySend, Goto, driver,
     isrs, chip, Loaders
<1>4. ASSUME WritePush PROVE ExactlyOnce'
  <2> DEFINE f == canFrame["dispatch"]
  <2>1. f # None /\ canFrame'["dispatch"] = None /\ canFrame'["pulse"] = canFrame["pulse"]
    BY <1>4 DEF WritePush, TypeInv, TypeOK, HandInv, Loaders
  <2>2. /\ transmitDataQueue' = transmitDataQueue \cup {f}
        /\ UNCHANGED <<txBuffer, sent, accepted>>
    BY <1>4 DEF WritePush, chip
  <2>3. InHand = InHand' \cup {f} /\ f \notin InHand'
    BY <2>1 DEF InHand, Loaders, ExactlyOnce
  <2> QED
    BY <2>1, <2>2, <2>3 DEF ExactlyOnce, OnChip
<1>5. ASSUME ProcessTransmitFlag PROVE ExactlyOnce'
  <2>0. UNCHANGED <<txBuffer, sent, accepted>>
    BY <1>5 DEF ProcessTransmitFlag, chip
  <2>1. ASSUME NEW f \in Top, canFrame' = [canFrame EXCEPT !["pulse"] = f],
               transmitDataQueue' = transmitDataQueue \ {f}
        PROVE  ExactlyOnce'
    <3>1. f \in transmitDataQueue /\ f # None
      BY FrameTyped DEF Top, TypeInv, TypeOK
    <3>2. canFrame["pulse"] = None
      BY <1>5 DEF ProcessTransmitFlag, TypeInv, HandInv
    <3>3. canFrame'["pulse"] = f /\ canFrame'["dispatch"] = canFrame["dispatch"]
      BY <2>1 DEF TypeInv, TypeOK, Loaders
    <3>4. InHand' = InHand \cup {f}
      BY <3>1, <3>2, <3>3, HandOf DEF InHand, Loaders
    <3>5. canFrame["dispatch"] # f
      BY <3>1, HandOf DEF ExactlyOnce
    <3> QED
      BY <2>0, <2>1, <3>1, <3>3, <3>4, <3>5 DEF ExactlyOnce, OnChip
  <2>2. ASSUME UNCHANGED <<canFrame, transmitDataQueue>> PROVE ExactlyOnce'
    BY <2>0, <2>2 DEF ExactlyOnce, InHand, OnChip
  <2> QED
    BY <1>5, <2>1, <2>2 DEF ProcessTransmitFlag
<1>6. ASSUME NEW t \in Loaders, TransmitMessage(t) PROVE ExactlyOnce'
  BY <1>6 DEF ExactlyOnce, InHand, OnChip, TransmitMessage, Taken, Goto, isrs,
     chip, Loaders
<1>7. ASSUME NEW t \in Loaders, TransmitMessageDone(t) PROVE ExactlyOnce'
  <2> DEFINE f == canFrame[t]
  <2>1. f # None /\ f \in InHand
    BY <1>7 DEF TransmitMessageDone, TypeInv, HandInv, InHand, Loaders
  <2>2. txBuffer = None /\ txBuffer' = f
    BY <1>7 DEF TransmitMessageDone, FlagInv, FreeMeansFree
  <2>3. /\ canFrame'[t] = None
        /\ \A u \in Loaders \ {t} : canFrame'[u] = canFrame[u]
    BY <1>7 DEF TransmitMessageDone, TypeInv, TypeOK
  <2>4. \A u \in Loaders \ {t} : canFrame[u] # f
    BY <2>1 DEF ExactlyOnce, Loaders
  <2>5. InHand = InHand' \cup {f} /\ f \notin InHand'
    BY <2>1, <2>3, <2>4 DEF InHand
  <2>6. UNCHANGED <<transmitDataQueue, sent, accepted>>
    BY <1>7 DEF TransmitMessageDone
  <2> QED
    BY <2>1, <2>2, <2>3, <2>5, <2>6 DEF ExactlyOnce, OnChip, Loaders
<1>8. ASSUME NEW t \in Loaders, Unlock(t) PROVE ExactlyOnce'
  BY <1>8 DEF ExactlyOnce, InHand, OnChip, Unlock, Released, Goto, isrs, chip,
     Loaders
<1>9. ASSUME ReceivePulse PROVE ExactlyOnce'
  BY <1>9 DEF ExactlyOnce, InHand, OnChip, ReceivePulse, PulseIn, SwitchOn,
     Goto, driver, isrs, chip, Loaders
<1>10. ASSUME ReceiveTimeout PROVE ExactlyOnce'
  BY <1>10 DEF ExactlyOnce, InHand, OnChip, ReceiveTimeout, SwitchOn, Goto,
     driver, isrs, chip, Loaders
<1>11. ASSUME Acknowledge PROVE ExactlyOnce'
  BY <1>11 DEF ExactlyOnce, InHand, OnChip, Acknowledge, driver, loader,
     Loaders
<1>12. ASSUME InterruptServiceRoutine PROVE ExactlyOnce'
  BY <1>12 DEF ExactlyOnce, InHand, OnChip, InterruptServiceRoutine, loader,
     chip, Loaders
<1>13. ASSUME ReadInterrupts PROVE ExactlyOnce'
  BY <1>13 DEF ExactlyOnce, InHand, OnChip, ReadInterrupts, Low, driver,
     loader, Loaders
<1>14. ASSUME HandleInterrupts PROVE ExactlyOnce'
  BY <1>14 DEF ExactlyOnce, InHand, OnChip, HandleInterrupts, TransmitComplete,
     loader, chip, Loaders
<1>15. ASSUME LeaveInterrupts PROVE ExactlyOnce'
  BY <1>15 DEF ExactlyOnce, InHand, OnChip, LeaveInterrupts, LatchKept, loader,
     Loaders
<1>16. ASSUME SendPulse PROVE ExactlyOnce'
  BY <1>16 DEF ExactlyOnce, InHand, OnChip, SendPulse, PulseSent, driver,
     loader, chip, Loaders
<1>17. ASSUME Transmitted PROVE ExactlyOnce'
  <2>1. /\ txBuffer # None /\ txBuffer' = None /\ sent' = sent \cup {txBuffer}
        /\ UNCHANGED <<canFrame, transmitDataQueue, accepted>>
    BY <1>17 DEF Transmitted, driver, loader
  <2> QED
    BY <2>1 DEF ExactlyOnce, InHand, OnChip
<1>18. ASSUME NEW bit \in {"LOW", "HIGH"}, OtherInterrupt(bit) PROVE ExactlyOnce'
  BY <1>18 DEF ExactlyOnce, InHand, OnChip, OtherInterrupt, Raise, driver,
     loader, isrs, Loaders
<1>19. CASE UNCHANGED vars
  BY <1>19 DEF ExactlyOnce, InHand, OnChip, vars, driver, loader, isrs, chip
<1> QED
  BY <1>1, <1>2, <1>3, <1>4, <1>5, <1>6, <1>7, <1>8, <1>9, <1>10, <1>11, <1>12,
     <1>13, <1>14, <1>15, <1>16, <1>17, <1>18, <1>19
  DEF Next, Dispatch, InterruptHandleTh, ServiceThread, Environment, Loaders

-----------------------------------------------------------------------------
IInv == /\ TypeInv
        /\ LockInv
        /\ FlagInv
        /\ WakeInv
        /\ OrderInv
        /\ NoLostInterrupt
        /\ ExactlyOnce

\* The invariant holds at the start and in every step.
THEOREM TransmitInvariant == Spec => []IInv
<1>1. Init => IInv
  <2> SUFFICES ASSUME Init PROVE IInv
    OBVIOUS
  <2>1. LockInv /\ FlagInv /\ OrderInv
    BY DEF Init, LockInv, FlagInv, FreeMeansFree, OnePerFrame, OrderInv, Loaders
  <2>2. WakeInv /\ NoLostInterrupt /\ ExactlyOnce
    BY DEF Init, WakeInv, NoLostInterrupt, ExactlyOnce, InHand, OnChip, Loaders
  <2> QED
    BY <2>1, <2>2, TypeInit DEF IInv
<1>2. IInv /\ [Next]_vars => IInv'
  <2> SUFFICES ASSUME IInv, [Next]_vars PROVE IInv'
    OBVIOUS
  <2>1. TypeInv' /\ LockInv' /\ FlagInv'
    BY TypeStep, LockStep, FlagStep DEF IInv, TypeInv
  <2>2. WakeInv' /\ OrderInv' /\ NoLostInterrupt' /\ ExactlyOnce'
    BY WakeStep, OrderStep, LatchStep, OnceStep DEF IInv, TypeInv
  <2> QED
    BY <2>1, <2>2 DEF IInv
<1> QED
  BY <1>1, <1>2, PTL DEF Spec

\* transmitBufferFree_ never promises a buffer that is taken.
THEOREM FlagIsRight == Spec => []FreeMeansFree
<1>1. IInv => FreeMeansFree
  BY DEF IInv, FlagInv
<1> QED
  BY <1>1, TransmitInvariant, PTL

\* No frame written is lost in the driver or sent twice.
THEOREM NoFrameLostOrTwice == Spec => []ExactlyOnce
<1>1. IInv => ExactlyOnce
  BY DEF IInv
<1> QED
  BY <1>1, TransmitInvariant, PTL

\* No frame is left in the queue with nothing on its way to look at it.
THEOREM NoFrameStalls == Spec => []NoStall
<1>1. IInv => NoStall
  BY DEF IInv, WakeInv, NoStall
<1> QED
  BY <1>1, TransmitInvariant, PTL

\* The queued frame with the lowest identifier goes first.
THEOREM LowestFirst == Spec => []NoInversion
<1>1. IInv => NoInversion
  BY DEF IInv, OrderInv, NoInversion
<1> QED
  BY <1>1, TransmitInvariant, PTL

\* No interrupt is lost between the latch of the bridge and the chip.
THEOREM InterruptsSeen == Spec => []NoLostInterrupt
<1>1. IInv => NoLostInterrupt
  BY DEF IInv
<1> QED
  BY <1>1, TransmitInvariant, PTL

-----------------------------------------------------------------------------
(***************************************************************************)
(* The refinement.                                                         *)
(***************************************************************************)

\* What a thread that loads a frame has in hand.
HandOn(t) == IF pc[t] \in {"enter", "load"} THEN {canFrame[t]} ELSE {}

\* The mapping leaves the queue as it is.
QueueStutter == UNCHANGED <<InWriting, Waiting, txBuffer, sent>>

\* The frames that are being loaded, thread by thread.
LEMMA LoadingOf == Loading = HandOn("dispatch") \cup HandOn("pulse")
  BY DEF Loading, HandOn, Loaders

\* The same after a step.
LEMMA LoadingNext == Loading' = HandOn("dispatch")' \cup HandOn("pulse")'
  BY DEF Loading, HandOn, Loaders

\* The driver starts with an empty queue.
LEMMA QueueInit == Init => Queue!Init
<1> SUFFICES ASSUME Init PROVE Queue!Init
  OBVIOUS
<1>1. InWriting = None
  BY DEF Init, InWriting, Writing, Loaders
<1>2. Waiting = {}
  BY LoadingOf DEF Init, Waiting, HandOn, Loaders
<1>3. txBuffer = None /\ sent = {}
  BY DEF Init
<1> QED
  BY <1>1, <1>2, <1>3 DEF Queue!Init, InWriting, Waiting

\* A step that moves no frame is a stutter of the queue.
LEMMA QueueIsUnchanged ==
    ASSUME QueueStutter
    PROVE  UNCHANGED Queue!vars
  BY DEF QueueStutter, Queue!vars, InWriting, Waiting

\* A step of a thread from one of its places to another that is alike.
LEMMA NoFrameMoves ==
    ASSUME UNCHANGED <<canFrame, transmitDataQueue, txBuffer, sent>>,
           \A t \in Loaders : pc'[t] \in {"enter", "load"} <=> pc[t] \in {"enter", "load"},
           Writing' <=> Writing
    PROVE  UNCHANGED Queue!vars
<1>1. UNCHANGED InWriting
  BY DEF InWriting, Writing
<1>2. UNCHANGED HandOn("dispatch") /\ UNCHANGED HandOn("pulse")
  BY DEF HandOn, Loaders
<1>3. UNCHANGED Waiting
  BY <1>2, LoadingOf, LoadingNext DEF Waiting
<1> QED
  BY <1>1, <1>3, QueueIsUnchanged DEF QueueStutter

\* io_write begins a write, with a frame that was not written before.
LEMMA WriteBegins ==
    ASSUME IInv, IInv', NEW id \in Ids, io_write(id)
    PROVE  Queue!Write(canFrame'["dispatch"]) /\ canFrame'["dispatch"] \in Frames
<1> DEFINE f == canFrame'["dispatch"]
<1>1. f \notin accepted /\ f # None
  BY WriteTyped DEF IInv
<1>2. f \in Frames
  BY <1>1 DEF IInv, TypeInv, TypeOK, Loaders
<1>3. /\ pc["dispatch"] = "idle" /\ pc' = [pc EXCEPT !["dispatch"] = "lock"]
      /\ canFrame'["pulse"] = canFrame["pulse"]
      /\ UNCHANGED <<transmitDataQueue, txBuffer, sent>>
  BY DEF io_write, Goto, driver, chip, IInv, TypeInv, TypeOK, Loaders
<1>4. /\ pc'["dispatch"] = "lock" /\ pc'["pulse"] = pc["pulse"]
  BY <1>3 DEF IInv, TypeInv, TypeOK, Loaders
<1>5. InWriting = None /\ InWriting' = f
  BY <1>3, <1>4 DEF InWriting, Writing
<1>6. UNCHANGED HandOn("dispatch") /\ UNCHANGED HandOn("pulse")
  BY <1>3, <1>4 DEF HandOn
<1>7. UNCHANGED Waiting
  BY <1>3, <1>6, LoadingOf, LoadingNext DEF Waiting
<1>8. f \notin Waiting \cup {txBuffer} \cup sent
  <2>1. Loading \subseteq accepted
    BY LoadingOf, HandOf DEF HandOn, IInv, TypeInv, HandInv, ExactlyOnce
  <2>2. transmitDataQueue \cup sent \subseteq accepted
    BY DEF IInv, ExactlyOnce
  <2>3. txBuffer \in accepted \cup {None}
    BY DEF IInv, ExactlyOnce, OnChip
  <2> QED
    BY <1>1, <2>1, <2>2, <2>3 DEF Waiting
<1> QED
  BY <1>2, <1>3, <1>5, <1>7, <1>8 DEF Queue!Write, InWriting, Waiting

\* WriteMessage accepts the frame: it goes to the buffer at once, around the queue.
LEMMA CheckAccepts ==
    ASSUME IInv, WriteCheck
    PROVE  Queue!Accept \/ UNCHANGED Queue!vars
<1>1. /\ pc["dispatch"] = "check" /\ pc' = [pc EXCEPT !["dispatch"] = IF MaySend THEN "enter" ELSE "push"]
      /\ UNCHANGED <<canFrame, transmitDataQueue, txBuffer, sent>>
  BY DEF WriteCheck, Goto, driver, chip
<1>2. /\ pc'["dispatch"] = IF MaySend THEN "enter" ELSE "push"
      /\ pc'["pulse"] = pc["pulse"]
  BY <1>1 DEF IInv, TypeInv, TypeOK, Loaders
<1>3. CASE ~ MaySend
  <2>1. Writing' <=> Writing
    BY <1>1, <1>2, <1>3 DEF Writing
  <2>2. \A t \in Loaders : pc'[t] \in {"enter", "load"} <=> pc[t] \in {"enter", "load"}
    BY <1>1, <1>2, <1>3 DEF Loaders
  <2> QED
    BY <1>1, <2>1, <2>2, NoFrameMoves
<1>4. CASE MaySend
  <2>1. InWriting = canFrame["dispatch"] /\ InWriting # None /\ InWriting' = None
    BY <1>1, <1>2, <1>4 DEF InWriting, Writing, IInv, TypeInv, HandInv
  <2>2. /\ HandOn("dispatch") = {} /\ HandOn("dispatch")' = {canFrame["dispatch"]}
        /\ UNCHANGED HandOn("pulse")
    BY <1>1, <1>2, <1>4 DEF HandOn
  <2>3. Waiting' = Waiting \cup {InWriting}
    BY <1>1, <2>1, <2>2, LoadingOf, LoadingNext DEF Waiting
  <2> QED
    BY <1>1, <2>1, <2>3 DEF Queue!Accept, InWriting, Waiting
<1> QED
  BY <1>3, <1>4

\* Or it goes into the queue.
LEMMA PushAccepts ==
    ASSUME IInv, WritePush
    PROVE  Queue!Accept
<1> DEFINE f == canFrame["dispatch"]
<1>1. /\ pc["dispatch"] = "push" /\ pc' = [pc EXCEPT !["dispatch"] = "unlock"]
      /\ transmitDataQueue' = transmitDataQueue \cup {f}
      /\ canFrame'["pulse"] = canFrame["pulse"]
      /\ UNCHANGED <<txBuffer, sent>>
  BY DEF WritePush, Goto, chip, IInv, TypeInv, TypeOK, Loaders
<1>2. pc'["dispatch"] = "unlock" /\ pc'["pulse"] = pc["pulse"]
  BY <1>1 DEF IInv, TypeInv, TypeOK, Loaders
<1>3. InWriting = f /\ f # None /\ InWriting' = None
  BY <1>1, <1>2 DEF InWriting, Writing, IInv, TypeInv, HandInv
<1>4. UNCHANGED HandOn("dispatch") /\ UNCHANGED HandOn("pulse")
  BY <1>1, <1>2 DEF HandOn
<1>5. Waiting' = Waiting \cup {f}
  BY <1>1, <1>4, LoadingOf, LoadingNext DEF Waiting
<1> QED
  BY <1>1, <1>3, <1>5 DEF Queue!Accept, InWriting, Waiting

\* A frame that is taken from the queue to be loaded still waits.
LEMMA TakenStillWaits ==
    ASSUME IInv, ProcessTransmitFlag
    PROVE  UNCHANGED Queue!vars
<1>1. /\ pc["pulse"] = "check" /\ UNCHANGED <<txBuffer, sent>>
  BY DEF ProcessTransmitFlag, chip
<1>2. ASSUME NEW f \in Top, canFrame' = [canFrame EXCEPT !["pulse"] = f],
             transmitDataQueue' = transmitDataQueue \ {f}, Goto("pulse", "enter")
      PROVE  UNCHANGED Queue!vars
  <2>1. f \in transmitDataQueue
    BY DEF Top
  <2>2. /\ pc'["dispatch"] = pc["dispatch"] /\ pc'["pulse"] = "enter"
        /\ canFrame'["dispatch"] = canFrame["dispatch"] /\ canFrame'["pulse"] = f
    BY <1>2 DEF Goto, IInv, TypeInv, TypeOK, Loaders
  <2>3. UNCHANGED InWriting
    BY <2>2 DEF InWriting, Writing
  <2>4. UNCHANGED HandOn("dispatch") /\ HandOn("pulse") = {} /\ HandOn("pulse")' = {f}
    BY <1>1, <2>2 DEF HandOn
  <2>5. UNCHANGED Waiting
    BY <1>2, <2>1, <2>4, LoadingOf, LoadingNext DEF Waiting
  <2> QED
    BY <1>1, <2>3, <2>5, QueueIsUnchanged DEF QueueStutter
<1>3. ASSUME Goto("pulse", "unlock"), UNCHANGED <<canFrame, transmitDataQueue>>
      PROVE  UNCHANGED Queue!vars
  <2>1. pc'["dispatch"] = pc["dispatch"] /\ pc'["pulse"] = "unlock"
    BY <1>3 DEF Goto, IInv, TypeInv, TypeOK, Loaders
  <2> QED
    BY <1>1, <1>3, <2>1, NoFrameMoves DEF Writing, Loaders
<1> QED
  BY <1>2, <1>3 DEF ProcessTransmitFlag

\* The frame that is loaded is the first that waits, and the bus is free for it.
LEMMA LoadStarts ==
    ASSUME IInv, NEW t \in Loaders, TransmitMessageDone(t)
    PROVE  Queue!Start(canFrame[t]) /\ canFrame[t] \in Frames
<1> DEFINE f == canFrame[t]
<1>1. /\ pc[t] = "load" /\ pc' = [pc EXCEPT ![t] = "unlock"]
      /\ canFrame' = [canFrame EXCEPT ![t] = None]
      /\ UNCHANGED <<transmitDataQueue, sent>>
  BY DEF TransmitMessageDone, Goto
<1>2. f # None /\ f \in Frames /\ f \notin transmitDataQueue
  BY <1>1, HandOf DEF IInv, TypeInv, TypeOK, HandInv, ExactlyOnce, Loaders
<1>3. txBuffer = None /\ txBuffer' = f
  BY <1>1 DEF TransmitMessageDone, IInv, FlagInv, FreeMeansFree
<1>4. \A u \in Loaders \ {t} : /\ pc[u] \notin {"check", "push", "enter", "load"}
                               /\ pc'[u] = pc[u] /\ canFrame'[u] = canFrame[u]
  <2>1. transmitMutex = t
    BY <1>1 DEF IInv, LockInv
  <2>2. \A u \in Loaders \ {t} : pc[u] \notin {"check", "push", "enter", "load"}
    BY <2>1 DEF IInv, LockInv
  <2> QED
    BY <1>1, <2>2 DEF IInv, TypeInv, TypeOK
<1>5. pc'[t] = "unlock"
  BY <1>1 DEF IInv, TypeInv, TypeOK
<1>6. Loading = {f} /\ Loading' = {}
  BY <1>1, <1>4, <1>5 DEF Loading
<1>7. \A g \in transmitDataQueue : f.id <= g.id
  BY <1>1 DEF IInv, OrderInv
<1>8. f.id <= f.id
  BY <1>2, FrameTyped
<1>9. UNCHANGED InWriting
  BY <1>1, <1>4, <1>5 DEF InWriting, Writing, Loaders
<1>10. f \in Waiting /\ \A g \in Waiting : f.id <= g.id
  BY <1>6, <1>7, <1>8 DEF Waiting
<1>11. Waiting' = Waiting \ {f}
  BY <1>1, <1>2, <1>6 DEF Waiting
<1> QED
  BY <1>1, <1>2, <1>3, <1>9, <1>10, <1>11 DEF Queue!Start, Queue!First, InWriting, Waiting

\* The end of a transmission.
LEMMA BusSends ==
    ASSUME Transmitted
    PROVE  Queue!Send
<1>1. /\ txBuffer # None /\ sent' = sent \cup {txBuffer} /\ txBuffer' = None
      /\ UNCHANGED <<pc, canFrame, transmitDataQueue>>
  BY DEF Transmitted, driver, loader
<1>2. UNCHANGED InWriting
  BY <1>1 DEF InWriting, Writing
<1>3. UNCHANGED Waiting
  BY <1>1 DEF Waiting, Loading
<1> QED
  BY <1>1, <1>2, <1>3 DEF Queue!Send, InWriting, Waiting

\* Every step of the driver is one of the queue, or none.
LEMMA QueueStep ==
    ASSUME IInv, IInv', [Next]_vars
    PROVE  [Queue!Next]_(Queue!vars)
<1> DEFINE Mapped == [Queue!Next]_(Queue!vars)
<1>0. UNCHANGED <<pc, canFrame, transmitDataQueue, txBuffer, sent>> => Mapped
  <2>1. UNCHANGED <<pc, canFrame, transmitDataQueue, txBuffer, sent>> => UNCHANGED Queue!vars
    BY NoFrameMoves DEF Writing
  <2> QED
    BY <2>1
<1>1. ASSUME NEW id \in Ids, io_write(id) PROVE Mapped
  BY <1>1, WriteBegins DEF Queue!Next
<1>2. ASSUME NEW t \in Loaders, Lock(t) PROVE Mapped
  <2>1. /\ pc[t] = "lock" /\ pc' = [pc EXCEPT ![t] = "check"]
        /\ UNCHANGED <<canFrame, transmitDataQueue, txBuffer, sent>>
    BY <1>2 DEF Lock, Goto, chip
  <2>2. \A u \in Loaders : pc'[u] = IF u = t THEN "check" ELSE pc[u]
    BY <2>1 DEF IInv, TypeInv, TypeOK
  <2>3. UNCHANGED Queue!vars
    BY <2>1, <2>2, NoFrameMoves DEF Writing, Loaders
  <2> QED
    BY <2>3
<1>3. ASSUME WriteCheck PROVE Mapped
  BY <1>3, CheckAccepts DEF Queue!Next
<1>4. ASSUME WritePush PROVE Mapped
  BY <1>4, PushAccepts DEF Queue!Next
<1>5. ASSUME ProcessTransmitFlag PROVE Mapped
  BY <1>5, TakenStillWaits
<1>6. ASSUME NEW t \in Loaders, TransmitMessage(t) PROVE Mapped
  <2>1. /\ pc[t] = "enter" /\ pc' = [pc EXCEPT ![t] = "load"]
        /\ UNCHANGED <<canFrame, transmitDataQueue, txBuffer, sent>>
    BY <1>6 DEF TransmitMessage, Goto, chip
  <2>2. \A u \in Loaders : pc'[u] = IF u = t THEN "load" ELSE pc[u]
    BY <2>1 DEF IInv, TypeInv, TypeOK
  <2>3. UNCHANGED Queue!vars
    BY <2>1, <2>2, NoFrameMoves DEF Writing, Loaders
  <2> QED
    BY <2>3
<1>7. ASSUME NEW t \in Loaders, TransmitMessageDone(t) PROVE Mapped
  BY <1>7, LoadStarts DEF Queue!Next
<1>8. ASSUME NEW t \in Loaders, Unlock(t) PROVE Mapped
  <2>1. /\ pc[t] = "unlock" /\ pc' = [pc EXCEPT ![t] = "idle"]
        /\ UNCHANGED <<canFrame, transmitDataQueue, txBuffer, sent>>
    BY <1>8 DEF Unlock, Goto, chip
  <2>2. \A u \in Loaders : pc'[u] = IF u = t THEN "idle" ELSE pc[u]
    BY <2>1 DEF IInv, TypeInv, TypeOK
  <2>3. UNCHANGED Queue!vars
    BY <2>1, <2>2, NoFrameMoves DEF Writing, Loaders
  <2> QED
    BY <2>3
<1>9. ASSUME ReceivePulse \/ ReceiveTimeout PROVE Mapped
  <2>1. /\ pc["pulse"] = "idle"
        /\ \E code \in {"INTERRUPT_PULSE", "TERMINATE_PULSE", "other"} : SwitchOn(code)
        /\ UNCHANGED <<canFrame, transmitDataQueue, txBuffer, sent>>
    BY <1>9 DEF ReceivePulse, ReceiveTimeout, driver, chip, IInv, TypeInv, TypeOK
  <2>2. pc'["dispatch"] = pc["dispatch"] /\ pc'["pulse"] \in {"lock", "stopped", "idle"}
    BY <2>1 DEF SwitchOn, Goto, IInv, TypeInv, TypeOK, Loaders
  <2>3. UNCHANGED Queue!vars
    BY <2>1, <2>2, NoFrameMoves DEF Writing, Loaders
  <2> QED
    BY <2>3
<1>10. ASSUME ServiceThread PROVE Mapped
  BY <1>0, <1>10 DEF ServiceThread, Acknowledge, InterruptServiceRoutine, ReadInterrupts,
     HandleInterrupts, LeaveInterrupts, SendPulse, driver, loader, chip
<1>11. ASSUME Transmitted PROVE Mapped
  BY <1>11, BusSends DEF Queue!Next
<1>12. ASSUME NEW bit \in {"LOW", "HIGH"}, OtherInterrupt(bit) PROVE Mapped
  BY <1>0, <1>12 DEF OtherInterrupt, driver, loader
<1>13. CASE UNCHANGED vars
  BY <1>0, <1>13 DEF vars, driver, loader, chip
<1> HIDE DEF Mapped
<1>14. ASSUME Next PROVE Mapped
  BY <1>1, <1>2, <1>3, <1>4, <1>5, <1>6, <1>7, <1>8, <1>9, <1>10, <1>11, <1>12, <1>14
  DEF Next, Dispatch, InterruptHandleTh, Environment, Loaders
<1> QED
  BY <1>13, <1>14 DEF Mapped

\* The two threads with their flag, their mutex and the interrupts are one queue by
\* priority, from which each frame goes to the bus once.
THEOREM QueueImplemented == Spec => ImplementsQueue
<1>1. Init => Queue!Init
  BY QueueInit
<1>2. IInv /\ IInv' /\ [Next]_vars => [Queue!Next]_(Queue!vars)
  BY QueueStep
<1> QED
  BY <1>1, <1>2, TransmitInvariant, PTL DEF Spec, ImplementsQueue, Queue!Spec
=============================================================================
