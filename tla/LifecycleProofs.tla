--------------------------- MODULE LifecycleProofs ---------------------------
(***************************************************************************)
(* Safety of start and shutdown, whichever threads a signal may meet.      *)
(*                                                                         *)
(* None of the properties but MaskBalanced is inductive.  StartInv says    *)
(* how far main has come when a thread runs, BridgeInv what Finalize finds *)
(* of the device and leaves of it, HolderInv who holds the controller      *)
(* while the manager serves and in which order the holders let go.  They   *)
(* also say why a thread that Finalize did not meet cannot undo its work:  *)
(* main is past the step, or is the thread that runs Finalize.             *)
(***************************************************************************)
EXTENDS Lifecycle, TLAPS

\* Steps of main before the interrupt thread, the pulse thread and the receive
\* thread exist; a step that failed is in each of them.
BeforeIsr   == {"attach", "ports", "bridge", "chip", "irq"}
BeforePulse == BeforeIsr \cup {"publish", "manager"}
BeforeRecv  == BeforePulse \cup {"init", "mode", "start"}

\* Steps of Finalize, in order.
UpToReset == {"no", "free", "unmap", "zero", "detach", "reset"}
UpToJoin  == UpToReset \cup {"tell", "join"}
UpToDrop  == UpToJoin \cup {"delete", "exit", "drop"}
Closing   == {"close", "tellPulse", "joinPulse"}

StartInv ==
    /\ fin.at = "no" <=> fin.by = "none"
    /\ pc.isr = "none" => pc.main \in BeforeIsr \cup {"failed"} /\ fin.by \in {"none", "main"}
    /\ pc.isr # "none" => pc.main \notin BeforeIsr
    /\ pc.pulse # "none" => pc.isr # "none" /\ pc.main \notin BeforePulse
    /\ pc.pulse = "none" => pc.main \in BeforePulse \cup {"failed"} /\ fin.by # "pulse"
    /\ pc.recv # "none" => pc.pulse # "none" /\ pc.main \notin BeforeRecv
    /\ pc.recv = "none" => pc.main \in BeforeRecv \cup {"failed"} /\ fin.by # "recv"

BridgeInv ==
    /\ device.addr # "bridge" => ~ device.enabled /\ ~ device.mapped
    /\ pc.main \in {"attach", "ports"} => device.addr = "zero"
    /\ fin.at \notin {"no", "free"} => ~ device.enabled
    /\ fin.at \notin {"no", "free", "unmap"} => ~ device.mapped
    /\ fin.at \notin {"no", "free", "unmap", "zero", "detach"} => ~ device.attached
    /\ fin.at = "no" /\ (pc.isr # "none" \/ pc.main \in {"bridge", "chip", "irq"}) =>
         device.mapped

HolderInv ==
    /\ pc.main \in {"manager", "init", "mode", "start", "assign"} =>
         "argument" \in controller.holders
    /\ fin.at = "no" => controller.object # "freed"
    /\ fin.at = "no" /\ pc.isr # "none" /\ pc.main # "publish" =>
         "factory" \in controller.holders
    /\ fin.at \in UpToDrop /\ pc.pulse # "none" => "manager" \in controller.holders
    /\ fin.at \in UpToReset => controller.holders # {"factory"}
    /\ fin.by = "isr" => fin.at \in UpToJoin
    /\ fin.at \notin UpToReset /\ fin.by # "isr" => "factory" \notin controller.holders
    /\ fin.at \in Closing => controller.holders = {}

ServeInv ==
    /\ pc.main \in {"start", "assign"} => controller.inited \/ fin.at \notin UpToDrop
    /\ canManager => pc.recv # "none" /\ "argument" \notin controller.holders
    /\ canManager /\ fin.at \in UpToDrop => controller.inited

JoinInv ==
    /\ fin.at \notin UpToJoin => pc.isr \in {"none", "ended"}
    /\ terminate => canManager /\ fin.at \notin UpToJoin \cup {"delete", "exit"}
    /\ fin.at = "joinRecv" => terminate /\ pc.pulse = "ended"
    /\ fin.at = "done" /\ fault = "none" /\ terminate =>
         pc.pulse = "ended" /\ pc.recv = "ended"

LifeInv ==
    /\ StartInv
    /\ BridgeInv
    /\ HolderInv
    /\ ServeInv
    /\ JoinInv
    /\ MaskBalanced
    /\ ServingIsSafe

IInv == TypeOK /\ LifeInv

-----------------------------------------------------------------------------
\* What becomes of the records when a field of them is assigned.
LEMMA DeviceTyped ==
    ASSUME NEW d \in Devices, NEW b \in BOOLEAN
    PROVE  /\ [d EXCEPT !.attached = b] \in Devices
           /\ [d EXCEPT !.mapped = b] \in Devices
           /\ [d EXCEPT !.enabled = b] \in Devices
           /\ [d EXCEPT !.icr = b] \in Devices
           /\ [d EXCEPT !.irq = b] \in Devices
           /\ [d EXCEPT !.masked = b] \in Devices
           /\ \A addr \in {"zero", "bridge", "MAP_FAILED"} :
                /\ [d EXCEPT !.addr = addr] \in Devices
                /\ [d EXCEPT !.addr = addr, !.mapped = b] \in Devices
  BY DEF Devices

\* A thread that is started, and the step of main after it.
LEMMA StepsTyped ==
    ASSUME NEW p \in Steps
    PROVE  /\ [p EXCEPT !.main = "publish", !.isr = "wait"] \in Steps
           /\ [p EXCEPT !.main = "init", !.pulse = "wait"] \in Steps
           /\ [p EXCEPT !.main = "assign", !.recv = "check"] \in Steps
  BY DEF Steps

\* A pulse that is sent.
LEMMA ChannelTyped ==
    ASSUME NEW c \in [isr : SUBSET Pulses, pulse : SUBSET Pulses], NEW code \in Pulses
    PROVE  /\ [c EXCEPT !.isr = @ \cup {code}] \in [isr : SUBSET Pulses, pulse : SUBSET Pulses]
           /\ [c EXCEPT !.pulse = @ \cup {code}] \in [isr : SUBSET Pulses, pulse : SUBSET Pulses]
  OBVIOUS

\* A controller that is started, stopped, freed, held or let go.
LEMMA ControllerTyped ==
    ASSUME NEW c \in Controllers
    PROVE  /\ [c EXCEPT !.inited = TRUE] \in Controllers
           /\ [c EXCEPT !.inited = FALSE] \in Controllers
           /\ [c EXCEPT !.object = "freed"] \in Controllers
           /\ \A who \in {"factory", "argument", "manager"} :
                [c EXCEPT !.holders = @ \ {who}] \in Controllers
           /\ [c EXCEPT !.holders = @ \cup {"manager"}] \in Controllers
           /\ [c EXCEPT !.holders = (@ \ {"argument"}) \cup {"manager"}] \in Controllers
           /\ [c EXCEPT !.holders = @ \cup {"factory", "argument"}, !.object = "alive"]
                \in Controllers
  BY DEF Controllers

\* A step that meets what is not there changes nothing but fault.
LEMMA FaultStep ==
    ASSUME IInv, NEW cause, Fault(cause), Running
    PROVE  /\ TypeOK'
           /\ fin.at # "no" \/ pc.main = "publish" => LifeInv'
<1>1. /\ UNCHANGED <<pc, fin, device, channel, incomePulse, controller, terminate,
                     canManager, mutex>>
      /\ fin.at # "done"
  BY DEF Fault, manager, Running
<1>2. TypeOK'
  BY <1>1 DEF IInv, TypeOK
<1>3. StartInv' /\ BridgeInv' /\ HolderInv' /\ ServeInv' /\ MaskBalanced'
  BY <1>1 DEF IInv, LifeInv, StartInv, BridgeInv, HolderInv, ServeInv, MaskBalanced
<1>4. JoinInv'
  BY <1>1 DEF IInv, LifeInv, JoinInv
<1>5. ASSUME fin.at # "no" \/ pc.main = "publish" PROVE ServingIsSafe'
  BY <1>1, <1>5 DEF ServingIsSafe
<1> QED
  BY <1>2, <1>3, <1>4, <1>5 DEF LifeInv

\* main creates the controller.
LEMMA CreateTyped == ASSUME IInv, CreateController PROVE TypeOK'
<1> USE DEF IInv, Running, manager
<1>1. CASE PCIAttachDevice
  BY <1>1 DEF PCIAttachDevice, At, Go, TypeOK, Steps, Devices
<1>2. CASE PCIGetPCANPorts
  <2>1. device' \in Devices
    BY <1>2, DeviceTyped DEF PCIGetPCANPorts, At, Go, Mapped, TypeOK
  <2> QED
    BY <1>2, <2>1 DEF PCIGetPCANPorts, At, Go, Mapped, TypeOK, Steps
<1>3. CASE PCIInitPCAN
  <2>1. device' \in Devices
    BY <1>3, DeviceTyped DEF PCIInitPCAN, At, Go, TypeOK
  <2> QED
    BY <1>3, <2>1 DEF PCIInitPCAN, At, Go, TypeOK, Steps
<1>4. CASE MapChip
  BY <1>4 DEF MapChip, At, Go, TypeOK, Steps
<1>5. CASE StartInterruptThread
  <2>1. device' \in Devices
    BY <1>5, DeviceTyped DEF StartInterruptThread, At, TypeOK
  <2>2. pc' \in Steps
    BY <1>5, StepsTyped DEF StartInterruptThread, At, TypeOK
  <2> QED
    BY <1>5, <2>1, <2>2 DEF StartInterruptThread, At, TypeOK
<1>6. CASE MakeController
  <2>1. controller' \in Controllers
    BY <1>6, ControllerTyped DEF MakeController, At, Go, Given, KeptAndReturned,
       TypeOK
  <2>2. controller'.holders # {} => controller'.object = "alive"
    BY <1>6 DEF MakeController, At, Go, Given, KeptAndReturned, TypeOK, Controllers,
       LifeInv, HolderInv, Closing
  <2> QED
    BY <1>6, <2>1, <2>2 DEF MakeController, At, Go, Given, KeptAndReturned, TypeOK,
       Steps
<1> QED
  BY <1>1, <1>2, <1>3, <1>4, <1>5, <1>6 DEF CreateController

\* main creates the manager.
LEMMA ManagerTyped == ASSUME IInv, CanManager PROVE TypeOK'
<1> USE DEF IInv, Running, manager
<1>1. CASE NewCanManager
  <2>1. controller' \in Controllers
    BY <1>1, ControllerTyped DEF NewCanManager, At, Go, Given, TypeOK
  <2>2. controller'.holders # {} => controller'.object = "alive"
    BY <1>1 DEF NewCanManager, At, Go, Given, TypeOK, Controllers, LifeInv, HolderInv,
       Closing
  <2>3. pc' \in Steps
    <3>1. CASE pc' = [pc EXCEPT !.main = "init", !.pulse = "wait"]
      BY <3>1, StepsTyped DEF TypeOK
    <3>2. CASE pc' = [pc EXCEPT !.main = "failed"]
      BY <3>2 DEF TypeOK, Steps
    <3> QED
      BY <1>1, <3>1, <3>2 DEF NewCanManager, Go
  <2> QED
    BY <1>1, <2>1, <2>2, <2>3 DEF NewCanManager, At, Go, Given, TypeOK
<1>2. CASE IsThereDevice
  BY <1>2 DEF IsThereDevice, At, Go, NotStarted, Dropped, TypeOK, Steps, Controllers
<1>3. CASE InitController
  <2>1. controller' \in Controllers
    BY <1>3, ControllerTyped DEF InitController, At, Go, NotStarted, Dropped, TypeOK
  <2>2. controller'.holders # {} => controller'.object = "alive"
    BY <1>3 DEF InitController, At, Go, NotStarted, Dropped, TypeOK, Controllers,
       LifeInv, HolderInv, Closing
  <2> QED
    BY <1>3, <2>1, <2>2 DEF InitController, At, Go, NotStarted, Dropped, TypeOK, Steps
<1>4. CASE StartReceiveThread
  <2>1. pc' \in Steps
    BY <1>4, StepsTyped DEF StartReceiveThread, At, TypeOK
  <2> QED
    BY <1>4, <2>1 DEF StartReceiveThread, At, TypeOK
<1>5. CASE AssignCanManager
  BY <1>5 DEF AssignCanManager, At, Go, Dropped, TypeOK, Steps, Controllers
<1> QED
  BY <1>1, <1>2, <1>3, <1>4, <1>5 DEF CanManager

\* main dispatches.
LEMMA DispatchTyped == ASSUME IInv, DispatchLoop \/ HandlerReturns PROVE TypeOK'
<1> USE DEF IInv, Running, manager
<1>1. CASE HandleRead
  BY <1>1 DEF HandleRead, At, Go, TypeOK, Steps
<1>2. CASE HandleWrite
  <2>1. CASE ~ Holds("manager")
    <3>1. Fault("write through no controller") /\ Running
      BY <1>2, <2>1 DEF HandleWrite, At
    <3> QED
      BY <3>1, FaultStep
  <2>2. CASE Holds("manager")
    BY <1>2, <2>2 DEF HandleWrite, At, Go, Holds, TypeOK, Steps
  <2> QED
    BY <2>1, <2>2
<1>3. CASE StopServing
  BY <1>3 DEF StopServing, At, Go, TypeOK, Steps
<1>4. CASE HandlerReturns
  BY <1>4 DEF HandlerReturns, At, Go, TypeOK, Steps
<1> QED
  BY <1>1, <1>2, <1>3, <1>4 DEF DispatchLoop

\* The chip interrupts.
LEMMA InterruptTyped == ASSUME IInv, Raise \/ InterruptEvent PROVE TypeOK'
<1> USE DEF IInv, Running, manager
<1>1. CASE Raise
  <2>1. device' \in Devices
    BY <1>1, DeviceTyped DEF Raise, TypeOK
  <2> QED
    BY <1>1, <2>1 DEF Raise, TypeOK
<1>2. CASE InterruptEvent
  <2>1. device' \in Devices
    BY <1>2, DeviceTyped DEF InterruptEvent, TypeOK
  <2>2. channel' \in [isr : SUBSET Pulses, pulse : SUBSET Pulses]
    BY <1>2, ChannelTyped DEF InterruptEvent, TypeOK, Pulses
  <2> QED
    BY <1>2, <2>1, <2>2 DEF InterruptEvent, TypeOK
<1> QED
  BY <1>1, <1>2

\* The interrupt thread.
LEMMA IsrTyped == ASSUME IInv, InterruptHandleTh PROVE TypeOK'
<1> USE DEF IInv, Running, manager
<1>1. CASE \E code \in Pulses : IsrPulse(code)
  BY <1>1 DEF IsrPulse, At, Go, Pulses, TypeOK, Steps
<1>2. CASE IsrTimeout
  BY <1>2 DEF IsrTimeout, At, Go, TypeOK, Steps
<1>3. CASE IsrTest
  BY <1>3 DEF IsrTest, At, Go, TypeOK, Steps
<1>4. CASE IsrLook
  <2>1. CASE ~ device.mapped
    <3>1. Fault("interrupt thread reads the bridge, not mapped") /\ Running
      BY <1>4, <2>1 DEF IsrLook, At
    <3> QED
      BY <3>1, FaultStep
  <2>2. CASE device.mapped
    <3>1. device' \in Devices
      BY <1>4, <2>2, DeviceTyped DEF IsrLook, At, Go, TypeOK
    <3> QED
      BY <1>4, <2>2, <3>1 DEF IsrLook, At, Go, TypeOK, Steps
  <2> QED
    BY <2>1, <2>2
<1>5. CASE IsrCall
  <2>1. CASE ~ Holds("factory")
    <3>1. Fault("interrupt thread calls no controller") /\ Running
      BY <1>5, <2>1 DEF IsrCall, At
    <3> QED
      BY <3>1, FaultStep
  <2>2. CASE Holds("factory")
    <3>1. channel' \in [isr : SUBSET Pulses, pulse : SUBSET Pulses]
      <4>1. channel \in [isr : SUBSET Pulses, pulse : SUBSET Pulses]
        BY DEF TypeOK
      <4>2. [channel EXCEPT !.pulse = @ \cup {"INTERRUPT_PULSE"}]
              \in [isr : SUBSET Pulses, pulse : SUBSET Pulses]
        BY <4>1 DEF Pulses
      <4>3. channel' \in {channel, [channel EXCEPT !.pulse = @ \cup {"INTERRUPT_PULSE"}]}
        BY <1>5, <2>2 DEF IsrCall
      <4> QED
        BY <4>1, <4>2, <4>3
    <3>2. /\ pc' = [pc EXCEPT !.isr = "look"]
          /\ UNCHANGED <<fin, device, incomePulse, controller, manager, mutex, fault>>
      BY <1>5, <2>2 DEF IsrCall, At, Go, Holds
    <3> QED
      BY <3>1, <3>2 DEF TypeOK, Steps
  <2> QED
    BY <2>1, <2>2
<1>6. CASE IsrDone
  <2>1. device' \in Devices
    BY <1>6, DeviceTyped DEF IsrDone, At, Go, FallsThrough, TypeOK
  <2> QED
    BY <1>6, <2>1 DEF IsrDone, At, Go, FallsThrough, TypeOK, Steps
<1> QED
  BY <1>1, <1>2, <1>3, <1>4, <1>5, <1>6 DEF InterruptHandleTh

\* The pulse thread.
LEMMA PulseTyped == ASSUME IInv, PulseThread PROVE TypeOK'
<1> USE DEF IInv, Running, manager
<1>1. CASE \E code \in Pulses : PulseWakeUp(code)
  BY <1>1 DEF PulseWakeUp, At, Go, Pulses, TypeOK, Steps
<1>2. CASE PulseTimeout
  BY <1>2 DEF PulseTimeout, At, Go, TypeOK, Steps
<1>3. CASE PulseLock
  BY <1>3 DEF PulseLock, At, Go, TypeOK, Steps
<1>4. CASE PulseUnlock
  BY <1>4 DEF PulseUnlock, At, Go, TypeOK, Steps
<1> QED
  BY <1>1, <1>2, <1>3, <1>4 DEF PulseThread

\* The receive thread.
LEMMA ReceiveTyped == ASSUME IInv, ReceiveThread PROVE TypeOK'
<1> USE DEF IInv, Running, manager
<1>1. CASE RecvCheck
  BY <1>1 DEF RecvCheck, At, Go, TypeOK, Steps
<1>2. CASE RecvCall
  <2>1. CASE ~ Holds("manager")
    <3>1. Fault("receive thread calls no controller") /\ Running
      BY <1>2, <2>1 DEF RecvCall, At
    <3> QED
      BY <3>1, FaultStep
  <2>2. CASE Holds("manager")
    BY <1>2, <2>2 DEF RecvCall, At, Go, Holds, TypeOK, Steps
  <2> QED
    BY <2>1, <2>2
<1>3. CASE RecvRead
  <2>1. CASE controller.object = "freed"
    <3>1. Fault("receive thread reads a freed controller") /\ Running
      BY <1>3, <2>1 DEF RecvRead, At
    <3> QED
      BY <3>1, FaultStep
  <2>2. CASE controller.object # "freed"
    BY <1>3, <2>2 DEF RecvRead, At, Go, TypeOK, Steps
  <2> QED
    BY <2>1, <2>2
<1>4. CASE RecvLock
  BY <1>4 DEF RecvLock, At, Go, TypeOK, Steps
<1>5. CASE RecvUnlock
  BY <1>5 DEF RecvUnlock, At, Go, TypeOK, Steps
<1> QED
  BY <1>1, <1>2, <1>3, <1>4, <1>5 DEF ReceiveThread

\* Finalize, in the thread that runs it.
LEMMA FinalTyped == ASSUME IInv, Finalization PROVE TypeOK'
<1> USE DEF IInv, Running, manager
<1>1. CASE Finalize
  <2>1. fin' = [by |-> "main", at |-> "free"]
        /\ UNCHANGED <<pc, device, channel, incomePulse, controller, terminate, canManager,
                       mutex>>
    BY <1>1 DEF Finalize, Starts
  <2> QED
    BY <2>1 DEF TypeOK, Threads
<1>2. CASE PCIFreePCAN
  <2>1. CASE device.addr = "MAP_FAILED"
    <3>1. Fault("Finalize writes to MAP_FAILED") /\ Running
      BY <1>2, <2>1 DEF PCIFreePCAN, Finalizing
    <3> QED
      BY <3>1, FaultStep
  <2>2. CASE device.addr # "MAP_FAILED"
    <3>1. device' \in Devices
      BY <1>2, <2>2, DeviceTyped DEF PCIFreePCAN, Finalizing, Then, TypeOK
    <3> QED
      BY <1>2, <2>2, <3>1 DEF PCIFreePCAN, Finalizing, Then, TypeOK
  <2> QED
    BY <2>1, <2>2
<1>3. CASE UnmapBridge
  <2>1. device' \in Devices
    BY <1>3, DeviceTyped DEF UnmapBridge, Finalizing, Then, TypeOK
  <2> QED
    BY <1>3, <2>1 DEF UnmapBridge, Finalizing, Then, TypeOK
<1>4. CASE ClearConfigAddr
  <2>1. device' \in Devices
    BY <1>4, DeviceTyped DEF ClearConfigAddr, Finalizing, Then, TypeOK
  <2> QED
    BY <1>4, <2>1 DEF ClearConfigAddr, Finalizing, Then, TypeOK
<1>5. CASE PCIDetachDevice
  <2>1. device' \in Devices
    BY <1>5, DeviceTyped DEF PCIDetachDevice, Finalizing, Then, Always, TypeOK
  <2> QED
    BY <1>5, <2>1 DEF PCIDetachDevice, Finalizing, Then, Always, TypeOK
<1>6. CASE ResetFactory
  <2>1. /\ controller.holders # {"factory"} /\ fin.at = "reset"
        /\ UNCHANGED <<pc, device, channel, incomePulse, terminate, canManager, mutex>>
    BY <1>6 DEF ResetFactory, Finalizing, LifeInv, HolderInv, UpToReset
  <2>2. controller' = Dropped("factory") /\ fin' = [fin EXCEPT !.at = "tell"]
    BY <1>6, <2>1 DEF ResetFactory, Reset, Last, Then
  <2>3. controller' \in Controllers
    BY <2>2, ControllerTyped DEF TypeOK, Dropped
  <2> QED
    BY <2>1, <2>2, <2>3 DEF TypeOK, Dropped, Controllers
<1>7. CASE TellIsr
  <2>1. channel' \in [isr : SUBSET Pulses, pulse : SUBSET Pulses]
    BY <1>7, ChannelTyped DEF TellIsr, Finalizing, Then, TypeOK, Pulses
  <2> QED
    BY <1>7, <2>1 DEF TellIsr, Finalizing, Then, TypeOK
<1>8. CASE JoinIsr
  <2>1. CASE fin.by = "isr"
    <3>1. Fault("a thread joins itself") /\ Running
      BY <1>8, <2>1 DEF JoinIsr, Join, Finalizing
    <3> QED
      BY <3>1, FaultStep
  <2>2. CASE fin.by # "isr"
    BY <1>8, <2>2 DEF JoinIsr, Finalizing, Then, Join, TypeOK
  <2> QED
    BY <2>1, <2>2
<1>9. CASE DeleteCanManager
  BY <1>9 DEF DeleteCanManager, Finalizing, Then, TypeOK
<1>10. CASE ResetManager
  <2>1. UNCHANGED <<pc, device, channel, incomePulse, terminate, canManager, mutex>>
    BY <1>10 DEF ResetManager
  <2>2. \E step \in {"close", "joinRecv", "done"} : fin' = [fin EXCEPT !.at = step]
    BY <1>10 DEF ResetManager, Reset, Then, AfterReset
  <2>3. \/ controller' = Dropped("manager")
        \/ controller' = [Dropped("manager") EXCEPT !.object = "freed"] /\ Last("manager")
    BY <1>10 DEF ResetManager, Reset
  <2>4. Dropped("manager") \in Controllers
    BY ControllerTyped DEF TypeOK, Dropped
  <2>5. controller' \in Controllers
    <3>1. [Dropped("manager") EXCEPT !.object = "freed"] \in Controllers
      BY <2>4, ControllerTyped
    <3> QED
      BY <2>3, <2>4, <3>1
  <2>6. controller'.holders # {} => controller'.object = "alive"
    <3>1. CASE controller' = Dropped("manager")
      BY <3>1 DEF TypeOK, Dropped, Controllers
    <3>2. CASE controller' = [Dropped("manager") EXCEPT !.object = "freed"] /\ Last("manager")
      <4>1. controller'.holders = controller.holders \ {"manager"}
        BY <3>2 DEF TypeOK, Dropped, Controllers
      <4> QED
        BY <3>2, <4>1 DEF Last
    <3> QED
      BY <2>3, <3>1, <3>2
  <2> QED
    BY <2>1, <2>2, <2>5, <2>6 DEF TypeOK
<1>11. CASE CloseController
  <2>1. controller' \in Controllers
    BY <1>11, ControllerTyped DEF CloseController, Finalizing, Then, TypeOK
  <2> QED
    BY <1>11, <2>1 DEF CloseController, Finalizing, Then, TypeOK, Controllers
<1>12. CASE TellPulse
  <2>1. channel' \in [isr : SUBSET Pulses, pulse : SUBSET Pulses]
    BY <1>12, ChannelTyped DEF TellPulse, Finalizing, Then, Told, TypeOK, Pulses
  <2> QED
    BY <1>12, <2>1 DEF TellPulse, Finalizing, Then, Told, TypeOK
<1>13. CASE JoinPulse
  <2>1. CASE fin.by = "pulse"
    <3>1. Fault("a thread joins itself") /\ Running
      BY <1>13, <2>1 DEF JoinPulse, Finalizing
    <3> QED
      BY <3>1, FaultStep
  <2>2. CASE fin.by # "pulse"
    <3>1. controller' \in Controllers
      BY <1>13, <2>2, ControllerTyped DEF JoinPulse, Finalizing, Then, AfterReset,
         TypeOK
    <3> QED
      BY <1>13, <2>2, <3>1 DEF JoinPulse, Finalizing, Then, AfterReset, TypeOK,
         Controllers, LifeInv, HolderInv, Closing
  <2> QED
    BY <2>1, <2>2
<1>14. CASE JoinRecv
  <2>1. CASE fin.by = "recv"
    <3>1. Fault("a thread joins itself") /\ Running
      BY <1>14, <2>1 DEF JoinRecv, Join, Finalizing
    <3> QED
      BY <3>1, FaultStep
  <2>2. CASE fin.by # "recv"
    BY <1>14, <2>2 DEF JoinRecv, Finalizing, Then, Join, TypeOK
  <2> QED
    BY <2>1, <2>2
<1>15. CASE Exit
  BY <1>15 DEF Exit, Finalizing, Then, Holds, TypeOK
<1> QED
  BY <1>1, <1>2, <1>3, <1>4, <1>5, <1>6, <1>7, <1>8, <1>9, <1>10, <1>11, <1>12, <1>13,
     <1>14, <1>15 DEF Finalization

\* main creates the controller.
LEMMA CreateSafe == ASSUME IInv, CreateController PROVE LifeInv'
<1> USE DEF IInv, LifeInv, StartInv, BridgeInv, HolderInv, ServeInv, JoinInv,
           MaskBalanced, ServingIsSafe, BeforeIsr, BeforePulse, BeforeRecv, UpToReset,
           UpToJoin, UpToDrop, Closing, TypeOK, Steps, Devices, Controllers, Running, manager
<1>1. CASE PCIAttachDevice
  BY <1>1 DEF PCIAttachDevice, At, Go
<1>2. CASE PCIGetPCANPorts
  <2>1. /\ pc.main = "ports" /\ fin.by # "main"
        /\ \E step \in {"bridge", "failed"} : pc' = [pc EXCEPT !.main = step]
        /\ UNCHANGED <<fin, channel, incomePulse, controller, terminate, canManager, fault>>
    BY <1>2 DEF PCIGetPCANPorts, At, Go
  <2>2. /\ device' \in {device, Mapped("bridge"), Mapped("MAP_FAILED")}
        /\ pc'.main = "bridge" => device' = Mapped("bridge")
    BY <1>2 DEF PCIGetPCANPorts, Go
  <2>3. /\ Mapped("bridge") = [device EXCEPT !.addr = "bridge", !.mapped = TRUE]
        /\ Mapped("MAP_FAILED") = [device EXCEPT !.addr = "MAP_FAILED", !.mapped = FALSE]
    BY DEF Mapped
  <2>4. /\ ~ device.enabled /\ device'.enabled = device.enabled
        /\ device'.masked = device.masked /\ device'.attached = device.attached
    <3>1. ~ device.enabled
      BY <2>1
    <3>2. CASE device' = device
      BY <3>1, <3>2
    <3>3. CASE device' = [device EXCEPT !.addr = "bridge", !.mapped = TRUE]
      BY <3>1, <3>3
    <3>4. CASE device' = [device EXCEPT !.addr = "MAP_FAILED", !.mapped = FALSE]
      BY <3>1, <3>4
    <3> QED
      BY <2>2, <2>3, <3>2, <3>3, <3>4
  <2>5. StartInv'
    BY <2>1, <2>2, <2>3
  <2>6. BridgeInv'
    <3>1. pc.isr = "none" /\ fin.at = "no" /\ device.addr = "zero" /\ ~ device.mapped
      BY <2>1
    <3>2. /\ device'.addr = "bridge" \/ ~ device'.mapped
          /\ pc'.main = "bridge" => device'.mapped
      <4>1. Mapped("bridge").addr = "bridge" /\ Mapped("bridge").mapped
        BY <2>3
      <4>2. ~ Mapped("MAP_FAILED").mapped
        BY <2>3
      <4> QED
        BY <2>2, <3>1, <4>1, <4>2
    <3>3. pc'.isr = "none" /\ fin'.at = "no" /\ pc'.main \in {"bridge", "failed"}
      BY <2>1, <3>1
    <3> QED
      BY <2>4, <3>2, <3>3
  <2>7. HolderInv'
    BY <2>1, <2>2, <2>3
  <2>8. ServeInv'
    BY <2>1, <2>2, <2>3
  <2>9. JoinInv'
    BY <2>1, <2>2, <2>3
  <2>10. MaskBalanced'
    BY <2>1, <2>4
  <2>11. ServingIsSafe'
    BY <2>1, <2>2, <2>3
  <2> QED
    BY <2>5, <2>6, <2>7, <2>8, <2>9, <2>10, <2>11
<1>3. CASE PCIInitPCAN
  BY <1>3 DEF PCIInitPCAN, At, Go
<1>4. CASE MapChip
  BY <1>4 DEF MapChip, At, Go
<1>5. CASE StartInterruptThread
  BY <1>5 DEF StartInterruptThread, At
<1>6. CASE MakeController
  <2>1. /\ pc.main = "publish" /\ fin.by # "main" /\ Running
        /\ pc' = [pc EXCEPT !.main = "manager"]
        /\ UNCHANGED <<fin, device, channel, incomePulse, terminate, canManager, fault>>
        /\ controller'.holders = controller.holders \cup {"factory", "argument"}
        /\ controller'.object = "alive" /\ controller'.inited = controller.inited
    BY <1>6 DEF MakeController, At, Go, Given, KeptAndReturned
  <2>2. fin.by \in {"none", "isr"} /\ ~ canManager /\ pc.isr # "none"
    BY <2>1 DEF Threads
  <2>3. "argument" \in controller'.holders /\ "factory" \in controller'.holders
    BY <2>1
  <2>4. StartInv'
    BY <2>1, <2>2
  <2>5. BridgeInv'
    BY <2>1, <2>2
  <2>6. ServeInv'
    BY <2>1, <2>2
  <2>7. JoinInv'
    BY <2>1, <2>2
  <2>8. MaskBalanced'
    BY <2>1, <2>2
  <2>9. ServingIsSafe'
    BY <2>1, <2>2
  <2>10. HolderInv'
    <3>1. controller'.holders # {"factory"}
      BY <2>3
    <3> QED
      BY <2>1, <2>2, <2>3, <3>1
  <2> QED
    BY <2>4, <2>5, <2>6, <2>7, <2>8, <2>9, <2>10
<1> QED
  BY <1>1, <1>2, <1>3, <1>4, <1>5, <1>6 DEF CreateController

\* main creates the manager.
LEMMA ManagerSafe == ASSUME IInv, CanManager PROVE LifeInv'
<1> USE DEF IInv, LifeInv, StartInv, BridgeInv, HolderInv, ServeInv, JoinInv,
           MaskBalanced, ServingIsSafe, BeforeIsr, BeforePulse, BeforeRecv, UpToReset,
           UpToJoin, UpToDrop, Closing, TypeOK, Steps, Devices, Controllers, Running, manager
<1>1. CASE NewCanManager
  <2>1. /\ pc.main = "manager" /\ fin.by # "main" /\ Running
        /\ \/ pc' = [pc EXCEPT !.main = "init", !.pulse = "wait"]
              /\ controller'.holders = controller.holders \cup {"manager"}
           \/ pc' = [pc EXCEPT !.main = "failed"]
              /\ controller'.holders = (controller.holders \ {"argument"}) \cup {"manager"}
        /\ UNCHANGED <<fin, device, channel, incomePulse, terminate, canManager, fault>>
        /\ controller'.object = controller.object /\ controller'.inited = controller.inited
    BY <1>1 DEF NewCanManager, At, Go, Given
  <2>2. /\ fin.by \in {"none", "isr"} /\ ~ canManager
        /\ pc.isr # "none" /\ pc'.isr = pc.isr /\ pc'.main \in {"init", "failed"}
    BY <2>1 DEF Threads
  <2>3. StartInv'
    <3>1. pc.pulse = "none" /\ pc.recv = "none" /\ pc'.recv = "none"
      BY <2>1
    <3>2. \/ pc'.main = "init" /\ pc'.pulse = "wait"
          \/ pc'.main = "failed" /\ pc'.pulse = "none"
      BY <2>1, <3>1
    <3> QED
      BY <2>1, <2>2, <3>1, <3>2
  <2>4. BridgeInv'
    BY <2>1, <2>2
  <2>5. HolderInv'
    BY <2>1, <2>2
  <2>6. ServeInv'
    BY <2>1, <2>2
  <2>7. JoinInv'
    BY <2>1, <2>2
  <2>8. MaskBalanced'
    BY <2>1, <2>2
  <2>9. ServingIsSafe'
    BY <2>1, <2>2
  <2> QED
    BY <2>3, <2>4, <2>5, <2>6, <2>7, <2>8, <2>9
<1>2. CASE IsThereDevice
  BY <1>2 DEF IsThereDevice, At, Go, NotStarted, Dropped
<1>3. CASE InitController
  BY <1>3 DEF InitController, At, Go, NotStarted, Dropped
<1>4. CASE StartReceiveThread
  BY <1>4 DEF StartReceiveThread, At
<1>5. CASE AssignCanManager
  BY <1>5 DEF AssignCanManager, At, Go, Dropped
<1> QED
  BY <1>1, <1>2, <1>3, <1>4, <1>5 DEF CanManager

\* main dispatches.
LEMMA DispatchSafe == ASSUME IInv, DispatchLoop \/ HandlerReturns PROVE LifeInv'
<1> USE DEF IInv, LifeInv, StartInv, BridgeInv, HolderInv, ServeInv, JoinInv,
           MaskBalanced, ServingIsSafe, BeforeIsr, BeforePulse, BeforeRecv, UpToReset,
           UpToJoin, UpToDrop, Closing, TypeOK, Steps, Devices, Controllers, Running, manager
<1>1. CASE HandleRead
  BY <1>1 DEF HandleRead, At, Go
<1>2. CASE HandleWrite
  <2>1. CASE ~ Holds("manager")
    <3>1. Fault("write through no controller") /\ Running
      BY <1>2, <2>1 DEF HandleWrite, At
    <3>2. fin.at # "no" \/ pc.main = "publish"
      BY <1>2, <2>1 DEF HandleWrite, At, Holds
    <3> QED
      BY <3>1, <3>2, FaultStep
  <2>2. CASE Holds("manager")
    BY <1>2, <2>2 DEF HandleWrite, At, Go, Holds
  <2> QED
    BY <2>1, <2>2
<1>3. CASE StopServing
  BY <1>3 DEF StopServing, At, Go
<1>4. CASE HandlerReturns
  BY <1>4 DEF HandlerReturns, At, Go
<1> QED
  BY <1>1, <1>2, <1>3, <1>4 DEF DispatchLoop

\* The chip interrupts.
LEMMA InterruptSafe == ASSUME IInv, Raise \/ InterruptEvent PROVE LifeInv'
<1> USE DEF IInv, LifeInv, StartInv, BridgeInv, HolderInv, ServeInv, JoinInv,
           MaskBalanced, ServingIsSafe, BeforeIsr, BeforePulse, BeforeRecv, UpToReset,
           UpToJoin, UpToDrop, Closing, TypeOK, Steps, Devices, Controllers, Running, manager
<1>1. CASE Raise
  BY <1>1 DEF Raise
<1>2. CASE InterruptEvent
  BY <1>2 DEF InterruptEvent
<1> QED
  BY <1>1, <1>2

\* The interrupt thread.
LEMMA IsrSafe == ASSUME IInv, InterruptHandleTh PROVE LifeInv'
<1> USE DEF IInv, LifeInv, StartInv, BridgeInv, HolderInv, ServeInv, JoinInv,
           MaskBalanced, ServingIsSafe, BeforeIsr, BeforePulse, BeforeRecv, UpToReset,
           UpToJoin, UpToDrop, Closing, TypeOK, Steps, Devices, Controllers, Running, manager
<1>1. CASE \E code \in Pulses : IsrPulse(code)
  BY <1>1 DEF IsrPulse, At, Go
<1>2. CASE IsrTimeout
  BY <1>2 DEF IsrTimeout, At, Go
<1>3. CASE IsrTest
  BY <1>3 DEF IsrTest, At, Go
<1>4. CASE IsrLook
  <2>1. CASE ~ device.mapped
    <3>1. Fault("interrupt thread reads the bridge, not mapped") /\ Running
      BY <1>4, <2>1 DEF IsrLook, At
    <3>2. fin.at # "no" \/ pc.main = "publish"
      BY <1>4, <2>1 DEF IsrLook, At
    <3> QED
      BY <3>1, <3>2, FaultStep
  <2>2. CASE device.mapped
    BY <1>4, <2>2 DEF IsrLook, At, Go
  <2> QED
    BY <2>1, <2>2
<1>5. CASE IsrCall
  <2>1. CASE ~ Holds("factory")
    <3>1. Fault("interrupt thread calls no controller") /\ Running
      BY <1>5, <2>1 DEF IsrCall, At
    <3>2. fin.at # "no" \/ pc.main = "publish"
      BY <1>5, <2>1 DEF IsrCall, At, Holds
    <3> QED
      BY <3>1, <3>2, FaultStep
  <2>2. CASE Holds("factory")
    BY <1>5, <2>2 DEF IsrCall, At, Go, Holds
  <2> QED
    BY <2>1, <2>2
<1>6. CASE IsrDone
  <2>1. /\ pc.isr = "done" /\ fin.by # "isr" /\ fin.at # "done"
        /\ pc' = [pc EXCEPT !.isr = "wait"]
        /\ incomePulse = "INTERRUPT_PULSE" => ~ device'.masked
        /\ device'.masked => device.masked
        /\ device'.addr = device.addr /\ device'.mapped = device.mapped
        /\ device'.enabled = device.enabled /\ device'.attached = device.attached
        /\ UNCHANGED <<fin, channel, incomePulse, controller, terminate, canManager, fault>>
    BY <1>6 DEF IsrDone, At, Go, FallsThrough
  <2>2. StartInv' /\ BridgeInv' /\ HolderInv' /\ ServeInv' /\ JoinInv' /\ ServingIsSafe'
    BY <2>1
  <2>3. MaskBalanced'
    BY <2>1
  <2> QED
    BY <2>2, <2>3
<1> QED
  BY <1>1, <1>2, <1>3, <1>4, <1>5, <1>6 DEF InterruptHandleTh

\* The pulse thread.
LEMMA PulseSafe == ASSUME IInv, PulseThread PROVE LifeInv'
<1> USE DEF IInv, LifeInv, StartInv, BridgeInv, HolderInv, ServeInv, JoinInv,
           MaskBalanced, ServingIsSafe, BeforeIsr, BeforePulse, BeforeRecv, UpToReset,
           UpToJoin, UpToDrop, Closing, TypeOK, Steps, Devices, Controllers, Running, manager
<1>1. CASE \E code \in Pulses : PulseWakeUp(code)
  BY <1>1 DEF PulseWakeUp, At, Go
<1>2. CASE PulseTimeout
  BY <1>2 DEF PulseTimeout, At, Go
<1>3. CASE PulseLock
  BY <1>3 DEF PulseLock, At, Go
<1>4. CASE PulseUnlock
  BY <1>4 DEF PulseUnlock, At, Go
<1> QED
  BY <1>1, <1>2, <1>3, <1>4 DEF PulseThread

\* The receive thread.
LEMMA ReceiveSafe == ASSUME IInv, ReceiveThread PROVE LifeInv'
<1> USE DEF IInv, LifeInv, StartInv, BridgeInv, HolderInv, ServeInv, JoinInv,
           MaskBalanced, ServingIsSafe, BeforeIsr, BeforePulse, BeforeRecv, UpToReset,
           UpToJoin, UpToDrop, Closing, TypeOK, Steps, Devices, Controllers, Running, manager
<1>1. CASE RecvCheck
  BY <1>1 DEF RecvCheck, At, Go
<1>2. CASE RecvCall
  <2>1. CASE ~ Holds("manager")
    <3>1. Fault("receive thread calls no controller") /\ Running
      BY <1>2, <2>1 DEF RecvCall, At
    <3>2. fin.at # "no" \/ pc.main = "publish"
      BY <1>2, <2>1 DEF RecvCall, At, Holds
    <3> QED
      BY <3>1, <3>2, FaultStep
  <2>2. CASE Holds("manager")
    BY <1>2, <2>2 DEF RecvCall, At, Go, Holds
  <2> QED
    BY <2>1, <2>2
<1>3. CASE RecvRead
  <2>1. CASE controller.object = "freed"
    <3>1. Fault("receive thread reads a freed controller") /\ Running
      BY <1>3, <2>1 DEF RecvRead, At
    <3>2. fin.at # "no" \/ pc.main = "publish"
      BY <1>3, <2>1 DEF RecvRead, At
    <3> QED
      BY <3>1, <3>2, FaultStep
  <2>2. CASE controller.object # "freed"
    BY <1>3, <2>2 DEF RecvRead, At, Go
  <2> QED
    BY <2>1, <2>2
<1>4. CASE RecvLock
  BY <1>4 DEF RecvLock, At, Go
<1>5. CASE RecvUnlock
  BY <1>5 DEF RecvUnlock, At, Go
<1> QED
  BY <1>1, <1>2, <1>3, <1>4, <1>5 DEF ReceiveThread

\* Finalize, in the thread that runs it.
LEMMA FinalSafe == ASSUME IInv, Finalization PROVE LifeInv'
<1> USE DEF IInv, LifeInv, StartInv, BridgeInv, HolderInv, ServeInv, JoinInv,
           MaskBalanced, ServingIsSafe, BeforeIsr, BeforePulse, BeforeRecv, UpToReset,
           UpToJoin, UpToDrop, Closing, TypeOK, Steps, Devices, Controllers, Running, manager
<1>1. CASE Finalize
  BY <1>1 DEF Finalize, At, Starts
<1>2. CASE PCIFreePCAN
  <2>1. CASE device.addr = "MAP_FAILED"
    <3>1. Fault("Finalize writes to MAP_FAILED") /\ Running
      BY <1>2, <2>1 DEF PCIFreePCAN, Finalizing
    <3>2. fin.at # "no" \/ pc.main = "publish"
      BY <1>2, <2>1 DEF PCIFreePCAN, Finalizing
    <3> QED
      BY <3>1, <3>2, FaultStep
  <2>2. CASE device.addr # "MAP_FAILED"
    BY <1>2, <2>2 DEF PCIFreePCAN, Finalizing, Then
  <2> QED
    BY <2>1, <2>2
<1>3. CASE UnmapBridge
  BY <1>3 DEF UnmapBridge, Finalizing, Then
<1>4. CASE ClearConfigAddr
  BY <1>4 DEF ClearConfigAddr, Finalizing, Then
<1>5. CASE PCIDetachDevice
  BY <1>5 DEF PCIDetachDevice, Finalizing, Then, Always
<1>6. CASE ResetFactory
  <2>1. /\ controller.holders # {"factory"} /\ fin.at = "reset"
        /\ UNCHANGED <<pc, device, channel, incomePulse, terminate, canManager>>
    BY <1>6 DEF ResetFactory, Finalizing
  <2>2. /\ controller' = Dropped("factory") /\ fin' = [fin EXCEPT !.at = "tell"]
        /\ UNCHANGED fault
    BY <1>6, <2>1 DEF ResetFactory, Reset, Last, Then
  <2> QED
    BY <2>1, <2>2 DEF Dropped
<1>7. CASE TellIsr
  BY <1>7 DEF TellIsr, Finalizing, Then
<1>8. CASE JoinIsr
  <2>1. CASE fin.by = "isr"
    <3>1. Fault("a thread joins itself") /\ Running
      BY <1>8, <2>1 DEF JoinIsr, Join, Finalizing
    <3>2. fin.at # "no" \/ pc.main = "publish"
      BY <1>8, <2>1 DEF JoinIsr, Finalizing
    <3> QED
      BY <3>1, <3>2, FaultStep
  <2>2. CASE fin.by # "isr"
    BY <1>8, <2>2 DEF JoinIsr, Finalizing, Then, Join
  <2> QED
    BY <2>1, <2>2
<1>9. CASE DeleteCanManager
  BY <1>9 DEF DeleteCanManager, Finalizing, Then
<1>10. CASE ResetManager
  <2>1. /\ fin.at = "drop" /\ fin.by # "none" /\ fin.by # "isr"
        /\ UNCHANGED <<pc, device, channel, incomePulse, terminate, canManager>>
        /\ controller'.holders = controller.holders \ {"manager"}
        /\ controller'.inited = controller.inited
    <3>1. \/ controller' = Dropped("manager")
          \/ controller' = [Dropped("manager") EXCEPT !.object = "freed"]
      BY <1>10 DEF ResetManager, Reset
    <3>2. fin.at = "drop" /\ UNCHANGED <<pc, device, channel, incomePulse, manager>>
      BY <1>10 DEF ResetManager, Finalizing
    <3>3. fin.by # "none" /\ fin.by # "isr"
      BY <3>2
    <3>4. /\ Dropped("manager").holders = controller.holders \ {"manager"}
          /\ Dropped("manager").inited = controller.inited
      BY DEF Dropped
    <3>5. /\ controller'.holders = Dropped("manager").holders
          /\ controller'.inited = Dropped("manager").inited
      BY <3>1 DEF Dropped
    <3> QED
      BY <3>2, <3>3, <3>4, <3>5
  <2>2. canManager => Last("manager") /\ controller.inited
    BY <2>1 DEF Last
  <2>3. \/ /\ fin' = [fin EXCEPT !.at = "close"] /\ Last("manager")
        \/ /\ fin' = [fin EXCEPT !.at = "done"] /\ ~ terminate
    BY <1>10, <2>2 DEF ResetManager, Reset, Then, AfterReset
  <2>4. StartInv' /\ BridgeInv' /\ MaskBalanced' /\ ServingIsSafe'
    BY <2>1, <2>3
  <2>5. HolderInv' /\ ServeInv' /\ JoinInv'
    BY <2>1, <2>2, <2>3 DEF Last
  <2> QED
    BY <2>4, <2>5
<1>11. CASE CloseController
  BY <1>11 DEF CloseController, Finalizing, Then
<1>12. CASE TellPulse
  BY <1>12 DEF TellPulse, Finalizing, Then, Told
<1>13. CASE JoinPulse
  <2>1. CASE fin.by = "pulse"
    <3>1. Fault("a thread joins itself") /\ Running
      BY <1>13, <2>1 DEF JoinPulse, Finalizing
    <3>2. fin.at # "no" \/ pc.main = "publish"
      BY <1>13, <2>1 DEF JoinPulse, Finalizing
    <3> QED
      BY <3>1, <3>2, FaultStep
  <2>2. CASE fin.by # "pulse"
    BY <1>13, <2>2 DEF JoinPulse, Finalizing, Then, AfterReset
  <2> QED
    BY <2>1, <2>2
<1>14. CASE JoinRecv
  <2>1. CASE fin.by = "recv"
    <3>1. Fault("a thread joins itself") /\ Running
      BY <1>14, <2>1 DEF JoinRecv, Join, Finalizing
    <3>2. fin.at # "no" \/ pc.main = "publish"
      BY <1>14, <2>1 DEF JoinRecv, Finalizing
    <3> QED
      BY <3>1, <3>2, FaultStep
  <2>2. CASE fin.by # "recv"
    BY <1>14, <2>2 DEF JoinRecv, Finalizing, Then, Join
  <2> QED
    BY <2>1, <2>2
<1>15. CASE Exit
  BY <1>15 DEF Exit, Finalizing, Then, Holds
<1> QED
  BY <1>1, <1>2, <1>3, <1>4, <1>5, <1>6, <1>7, <1>8, <1>9, <1>10, <1>11, <1>12, <1>13,
     <1>14, <1>15 DEF Finalization

\* A signal meets a thread.
LEMMA SignalStep == ASSUME IInv, NEW t \in Signals, SigTermHandler(t) PROVE TypeOK' /\ LifeInv'
<1> USE DEF IInv, Running, manager
<1>1. t \in {"main", "isr", "pulse", "recv"}
  BY LifecycleAssumption DEF Threads
<1>2. TypeOK'
  BY <1>1 DEF SigTermHandler, Starts, TypeOK, Threads
<1>3. LifeInv'
  BY <1>1 DEF SigTermHandler, Starts, TypeOK, LifeInv, StartInv, BridgeInv, HolderInv,
     ServeInv, JoinInv, MaskBalanced, ServingIsSafe, UpToReset, UpToJoin, UpToDrop, Closing
<1> QED
  BY <1>2, <1>3

\* The process starts with nothing attached, mapped or running.
LEMMA InvInit == Init => IInv
<1> SUFFICES ASSUME Init PROVE IInv
  OBVIOUS
<1>1. TypeOK
  BY DEF Init, TypeOK, Steps, Devices, Controllers, Threads
<1>2. LifeInv
  BY DEF Init, LifeInv, StartInv, BridgeInv, HolderInv, ServeInv, JoinInv, MaskBalanced,
     ServingIsSafe, BeforeIsr, BeforePulse, BeforeRecv, UpToReset, UpToJoin, UpToDrop, Closing
<1> QED
  BY <1>1, <1>2 DEF IInv

\* Every step of every thread, the signal and Finalize keep the invariant.
LEMMA InvStep == IInv /\ [Next]_vars => IInv'
<1> SUFFICES ASSUME IInv, [Next]_vars PROVE TypeOK' /\ LifeInv'
  BY DEF IInv
<1>1. CASE UNCHANGED vars
  <2>1. UNCHANGED <<pc, fin, device, channel, incomePulse, controller, terminate,
                    canManager, mutex, fault>>
    BY <1>1 DEF vars, manager
  <2>2. TypeOK'
    BY <2>1 DEF IInv, TypeOK
  <2>3. StartInv' /\ BridgeInv' /\ HolderInv' /\ ServeInv'
    BY <2>1 DEF IInv, LifeInv, StartInv, BridgeInv, HolderInv, ServeInv
  <2>4. JoinInv' /\ MaskBalanced' /\ ServingIsSafe'
    BY <2>1 DEF IInv, LifeInv, JoinInv, MaskBalanced, ServingIsSafe
  <2> QED
    BY <2>2, <2>3, <2>4 DEF LifeInv
<1>2. CASE CreateController
  BY <1>2, CreateTyped, CreateSafe
<1>3. CASE CanManager
  BY <1>3, ManagerTyped, ManagerSafe
<1>4. CASE DispatchLoop \/ HandlerReturns
  BY <1>4, DispatchTyped, DispatchSafe
<1>5. CASE Raise \/ InterruptEvent
  BY <1>5, InterruptTyped, InterruptSafe
<1>6. CASE InterruptHandleTh
  BY <1>6, IsrTyped, IsrSafe
<1>7. CASE PulseThread
  BY <1>7, PulseTyped, PulseSafe
<1>8. CASE ReceiveThread
  BY <1>8, ReceiveTyped, ReceiveSafe
<1>9. CASE Finalization
  BY <1>9, FinalTyped, FinalSafe
<1>10. CASE \E t \in Signals : SigTermHandler(t)
  BY <1>10, SignalStep
<1> QED
  BY <1>1, <1>2, <1>3, <1>4, <1>5, <1>6, <1>7, <1>8, <1>9, <1>10 DEF Next

-----------------------------------------------------------------------------
\* Every reachable state satisfies IInv, by induction on the steps.
THEOREM LifeInvariant == Spec => []IInv
  BY InvInit, InvStep, PTL DEF Spec

\* The controller lives as long as somebody holds it, and no thread, pulse, mutex
\* or step of Finalize is in a state of its own.
THEOREM TypeCorrect == Spec => []TypeOK
<1>1. IInv => TypeOK
  BY DEF IInv
<1> QED
  BY <1>1, LifeInvariant, PTL

\* While the manager serves, no thread calls a controller or reads a bridge that is
\* not there: that happens only before the controller is published or after a stop.
THEOREM SafeWhileServing == Spec => []ServingIsSafe
<1>1. IInv => ServingIsSafe
  BY DEF IInv, LifeInv
<1> QED
  BY <1>1, LifeInvariant, PTL

\* An interrupt that the kernel has masked is unmasked again.
THEOREM MaskIsBalanced == Spec => []MaskBalanced
<1>1. IInv => MaskBalanced
  BY DEF IInv, LifeInv
<1> QED
  BY <1>1, LifeInvariant, PTL

\* Whichever thread the signal met and however far the start got, a Finalize that
\* ends leaves the device off and unmapped, and no thread in the manager.
THEOREM ExitIsClean == Spec => []CleanExit
<1>1. IInv => CleanExit
  BY DEF IInv, LifeInv, BridgeInv, JoinInv, UpToJoin, UpToReset, CleanExit
<1> QED
  BY <1>1, LifeInvariant, PTL
=============================================================================
