----------------------------- MODULE Lifecycle ------------------------------
(***************************************************************************)
(* From the attachment of the PCI device to the exit of the process: who   *)
(* creates what, which thread uses it, and in which order Finalize takes   *)
(* it apart.                                                               *)
(*                                                                         *)
(* Four threads: main, which starts everything and then dispatches; isr,   *)
(* the interrupt thread of ControllerFactory; pulse, the thread of the     *)
(* controller; recv, DataReceiveThread.  A signal runs Finalize in the     *)
(* thread it meets, and that thread does not go on.  What follows the use  *)
(* of a null or freed object, of memory that is not mapped, or a join of   *)
(* oneself is not defined: fault names it, and nothing is said after it.   *)
(***************************************************************************)

CONSTANT
    Signals         \* the threads a signal may meet, once

Threads == {"main", "isr", "pulse", "recv"}

ASSUME LifecycleAssumption == Signals \subseteq Threads

VARIABLES
    pc,             \* what each thread does next
    fin,            \* who is in Finalize, and what it does next
    device,         \* the PCI device, its bridge and its interrupt
    channel,        \* pulses in the channels of isr and pulse
    incomePulse,    \* what the interrupt thread handles: a pulse or a time-out
    controller,     \* the controller and who holds a shared_ptr to it
    terminate,      \* terminate_
    canManager,     \* canManager is set
    mutex,          \* holders of queueMutex_ and transmitMutex_
    fault           \* what went wrong

manager == <<terminate, canManager>>
vars    == <<pc, fin, device, channel, incomePulse, controller, manager, mutex, fault>>

Pulses == {"INTERRUPT_PULSE", "TERMINATE_PULSE"}
Steps ==
    [main  : {"attach", "ports", "bridge", "chip", "irq", "publish", "manager",
              "init", "mode", "start", "assign", "serve", "read", "write", "failed"},
     isr   : {"none", "wait", "test", "look", "call", "done", "ended"},
     pulse : {"none", "wait", "lock", "send", "ended"},
     recv  : {"none", "check", "call", "read", "lock", "walk", "ended"}]
Devices ==
    [attached : BOOLEAN,    \* pci_dev_hdl_
     addr     : {"zero", "bridge", "MAP_FAILED"},   \* configAddr_
     mapped   : BOOLEAN,    \* the bridge is mapped there
     enabled  : BOOLEAN,    \* the bridge forwards interrupts
     icr      : BOOLEAN,    \* interrupt latched in the bridge
     irq      : BOOLEAN,    \* InterruptAttachEvent succeeded
     masked   : BOOLEAN]    \* the interrupt is masked in the kernel
Controllers ==
    [object   : {"none", "alive", "freed"},
     holders  : SUBSET {"factory", "argument", "manager"},
     inited   : BOOLEAN]    \* inited_

\* What each variable may hold; the controller lives as long as somebody holds it.
TypeOK ==
    /\ pc \in Steps
    /\ fin \in [by : Threads \cup {"none"},
                at : {"no", "free", "unmap", "zero", "detach", "reset", "tell",
                      "join", "delete", "drop", "close", "tellPulse",
                      "joinPulse", "joinRecv", "exit", "done"}]
    /\ device \in Devices
    /\ channel \in [isr : SUBSET Pulses, pulse : SUBSET Pulses]
    /\ incomePulse \in {"INTERRUPT_PULSE", "timeout"}
    /\ controller \in Controllers
    /\ controller.holders # {} => controller.object = "alive"
    /\ terminate \in BOOLEAN
    /\ canManager \in BOOLEAN
    /\ mutex \in [queue : {"free", "main", "recv"},
                  transmit : {"free", "main", "pulse"}]

Init ==
    /\ pc = [main |-> "attach", isr |-> "none", pulse |-> "none", recv |-> "none"]
    /\ fin = [by |-> "none", at |-> "no"]
    /\ device = [attached |-> FALSE, addr |-> "zero", mapped |-> FALSE,
                 enabled |-> FALSE, icr |-> FALSE, irq |-> FALSE, masked |-> FALSE]
    /\ channel = [isr |-> {}, pulse |-> {}]
    /\ incomePulse = "timeout"
    /\ controller = [object |-> "none", holders |-> {}, inited |-> FALSE]
    /\ terminate = FALSE
    /\ canManager = FALSE
    /\ mutex = [queue |-> "free", transmit |-> "free"]
    /\ fault = "none"

Running == fault = "none" /\ fin.at # "done"

\* A thread is at a step of its own, not in a signal handler; it goes on.
At(t, step) == Running /\ pc[t] = step /\ fin.by # t
Go(t, step) == pc' = [pc EXCEPT ![t] = step]

Fault(cause) ==
    /\ fault' = cause
    /\ UNCHANGED <<pc, fin, device, channel, incomePulse, controller, manager, mutex>>

Mapped(addr) == [device EXCEPT !.addr = addr, !.mapped = (addr = "bridge")]

Holds(who) == who \in controller.holders
Given(who) == [controller EXCEPT !.holders = @ \cup who]
Dropped(who) == [controller EXCEPT !.holders = @ \ {who}]

-----------------------------------------------------------------------------
(***************************************************************************)
(* ControllerFactory::CreateController and the constructor of CanManager.  *)
(* A step that throws leads to Finalize, from where main caught it.        *)
(***************************************************************************)

\* The device may be attached although a later part of the step fails.
PCIAttachDevice ==
    /\ At("main", "attach")
    /\ \E attached \in BOOLEAN, step \in {"failed", "ports"} :
         /\ step = "ports" => attached
         /\ device' = [device EXCEPT !.attached = attached]
         /\ Go("main", step)
    /\ UNCHANGED <<fin, channel, incomePulse, controller, manager, mutex, fault>>

PCIGetPCANPorts ==
    /\ At("main", "ports")
    /\ \/ device' = Mapped("bridge") /\ Go("main", "bridge")
       \/ device' \in {device, Mapped("MAP_FAILED")} /\ Go("main", "failed")
    /\ UNCHANGED <<fin, channel, incomePulse, controller, manager, mutex, fault>>

PCIInitPCAN ==
    /\ At("main", "bridge")
    /\ \/ device' = [device EXCEPT !.enabled = TRUE] /\ Go("main", "chip")
       \/ Go("main", "failed") /\ UNCHANGED device
    /\ UNCHANGED <<fin, channel, incomePulse, controller, manager, mutex, fault>>

\* The chip is mapped and the bit rate is one of the table.
MapChip ==
    /\ At("main", "chip")
    /\ \E step \in {"failed", "irq"} : Go("main", step)
    /\ UNCHANGED <<fin, device, channel, incomePulse, controller, manager, mutex, fault>>

\* The result of InterruptAttachEvent is not looked at.
StartInterruptThread ==
    /\ At("main", "irq")
    /\ \E irq \in BOOLEAN : device' = [device EXCEPT !.irq = irq]
    /\ pc' = [pc EXCEPT !.main = "publish", !.isr = "wait"]
    /\ UNCHANGED <<fin, channel, incomePulse, controller, manager, mutex, fault>>

ReturnedOnly    == {"argument"}
KeptAndReturned == {"factory", "argument"}

MakeController ==
    /\ At("main", "publish")
    /\ controller' = [Given(KeptAndReturned) EXCEPT !.object = "alive"]
    /\ Go("main", "manager")
    /\ UNCHANGED <<fin, device, channel, incomePulse, manager, mutex, fault>>

\* CanManager copies the shared_ptr, refuses a size, or lets InitController start the
\* pulse thread; that one ...
NewCanManager ==
    /\ At("main", "manager")
    /\ \/ /\ controller' = Given({"manager"})
          /\ pc' = [pc EXCEPT !.main = "init", !.pulse = "wait"]
       \/ /\ controller' = [controller EXCEPT !.holders = (@ \ {"argument"}) \cup {"manager"}]
          /\ Go("main", "failed")
    /\ UNCHANGED <<fin, device, channel, incomePulse, manager, mutex, fault>>

\* ... looks for the chip, ...
NotStarted == controller' = Dropped("argument") /\ Go("main", "failed")

IsThereDevice ==
    /\ At("main", "init")
    /\ \/ Go("main", "mode") /\ UNCHANGED controller
       \/ NotStarted
    /\ UNCHANGED <<fin, device, channel, incomePulse, manager, mutex, fault>>

\* ... and takes it out of its reset mode, if it will.
InitController ==
    /\ At("main", "mode")
    /\ \/ controller' = [controller EXCEPT !.inited = TRUE] /\ Go("main", "start")
       \/ NotStarted
    /\ UNCHANGED <<fin, device, channel, incomePulse, manager, mutex, fault>>

StartReceiveThread ==
    /\ At("main", "start")
    /\ pc' = [pc EXCEPT !.main = "assign", !.recv = "check"]
    /\ UNCHANGED <<fin, device, channel, incomePulse, controller, manager, mutex, fault>>

AssignCanManager ==
    /\ At("main", "assign")
    /\ canManager' = TRUE
    /\ controller' = Dropped("argument")
    /\ Go("main", "serve")
    /\ UNCHANGED <<fin, device, channel, incomePulse, terminate, mutex, fault>>

\* The dispatch loop: handlers hold queueMutex_ or, in a write, transmitMutex_.
HandleRead ==
    /\ At("main", "serve")
    /\ mutex.queue = "free"
    /\ mutex' = [mutex EXCEPT !.queue = "main"]
    /\ Go("main", "read")
    /\ UNCHANGED <<fin, device, channel, incomePulse, controller, manager, fault>>

HandleWrite ==
    /\ At("main", "serve")
    /\ IF ~ Holds("manager") THEN Fault("write through no controller")
       ELSE /\ mutex.transmit = "free"
            /\ mutex' = [mutex EXCEPT !.transmit = "main"]
            /\ Go("main", "write")
            /\ UNCHANGED <<fin, device, channel, incomePulse, controller, manager,
                           fault>>

HandlerReturns ==
    /\ At("main", "read") \/ At("main", "write")
    /\ mutex' = IF pc.main = "read" THEN [mutex EXCEPT !.queue = "free"]
                ELSE [mutex EXCEPT !.transmit = "free"]
    /\ Go("main", "serve")
    /\ UNCHANGED <<fin, device, channel, incomePulse, controller, manager, fault>>

\* No name, no dispatch handle, or resmgr_block fails: the program ends.
StopServing ==
    /\ At("main", "serve")
    /\ Go("main", "failed")
    /\ UNCHANGED <<fin, device, channel, incomePulse, controller, manager, mutex, fault>>

-----------------------------------------------------------------------------
(***************************************************************************)
(* The interrupt: the chip, the kernel and the interrupt thread.           *)
(***************************************************************************)

Raise ==
    /\ Running
    /\ device.enabled
    /\ ~ device.icr
    /\ device' = [device EXCEPT !.icr = TRUE]
    /\ UNCHANGED <<pc, fin, channel, incomePulse, controller, manager, mutex, fault>>

\* The kernel sends the event and masks the interrupt.
InterruptEvent ==
    /\ Running
    /\ device.irq /\ device.icr /\ device.enabled
    /\ ~ device.masked
    /\ device' = [device EXCEPT !.masked = TRUE]
    /\ channel' = [channel EXCEPT !.isr = @ \cup {"INTERRUPT_PULSE"}]
    /\ UNCHANGED <<pc, fin, incomePulse, controller, manager, mutex, fault>>

IsrPulse(code) ==
    /\ At("isr", "wait")
    /\ code \in channel.isr
    /\ channel' = [channel EXCEPT !.isr = @ \ {code}]
    /\ IF code = "TERMINATE_PULSE"
       THEN Go("isr", "ended") /\ UNCHANGED incomePulse
       ELSE Go("isr", "test") /\ incomePulse' = code
    /\ UNCHANGED <<fin, device, controller, manager, mutex, fault>>

IsrTimeout ==
    /\ At("isr", "wait")
    /\ channel.isr = {}
    /\ Go("isr", "test")
    /\ incomePulse' = "timeout"
    /\ UNCHANGED <<fin, device, channel, controller, manager, mutex, fault>>

\* configAddr_ is tested once; the latch is then looked at again and again.
IsrTest ==
    /\ At("isr", "test")
    /\ Go("isr", IF device.addr = "zero" THEN "done" ELSE "look")
    /\ UNCHANGED <<fin, device, channel, incomePulse, controller, manager, mutex, fault>>

IsrLook ==
    /\ At("isr", "look")
    /\ IF ~ device.mapped THEN Fault("interrupt thread reads the bridge, not mapped")
       ELSE /\ Go("isr", IF device.icr THEN "call" ELSE "done")
            /\ device' = [device EXCEPT !.icr = FALSE]
            /\ UNCHANGED <<fin, channel, incomePulse, controller, manager, mutex, fault>>

IsrCall ==
    /\ At("isr", "call")
    /\ IF ~ Holds("factory") THEN Fault("interrupt thread calls no controller")
       ELSE /\ channel' \in {channel,
                             [channel EXCEPT !.pulse = @ \cup {"INTERRUPT_PULSE"}]}
            /\ Go("isr", "look")
            /\ UNCHANGED <<fin, device, incomePulse, controller, manager, mutex, fault>>

\* The case of the interrupt has no break: it goes on to InterruptUnmask.  A
\* time-out does not.
Breaks(code)       == FALSE
FallsThrough(code) == code = "INTERRUPT_PULSE"

IsrDone ==
    /\ At("isr", "done")
    /\ device' = [device EXCEPT !.masked = @ /\ ~ FallsThrough(incomePulse)]
    /\ Go("isr", "wait")
    /\ UNCHANGED <<fin, channel, incomePulse, controller, manager, mutex, fault>>

-----------------------------------------------------------------------------
(***************************************************************************)
(* The pulse thread and the receive thread, as far as they use what        *)
(* Finalize takes away.                                                    *)
(***************************************************************************)

PulseWakeUp(code) ==
    /\ At("pulse", "wait")
    /\ code \in channel.pulse
    /\ channel' = [channel EXCEPT !.pulse = @ \ {code}]
    /\ Go("pulse", IF code = "TERMINATE_PULSE" THEN "ended" ELSE "lock")
    /\ UNCHANGED <<fin, device, incomePulse, controller, manager, mutex, fault>>

\* The result of MsgReceivePulse is not looked at: the pulse handled is the last one.
PulseTimeout ==
    /\ At("pulse", "wait")
    /\ channel.pulse = {}
    /\ Go("pulse", "lock")
    /\ UNCHANGED <<fin, device, channel, incomePulse, controller, manager, mutex, fault>>

PulseLock ==
    /\ At("pulse", "lock")
    /\ mutex.transmit = "free"
    /\ mutex' = [mutex EXCEPT !.transmit = "pulse"]
    /\ Go("pulse", "send")
    /\ UNCHANGED <<fin, device, channel, incomePulse, controller, manager, fault>>

PulseUnlock ==
    /\ At("pulse", "send")
    /\ mutex' = [mutex EXCEPT !.transmit = "free"]
    /\ Go("pulse", "wait")
    /\ UNCHANGED <<fin, device, channel, incomePulse, controller, manager, fault>>

RecvCheck ==
    /\ At("recv", "check")
    /\ Go("recv", IF terminate THEN "ended" ELSE "call")
    /\ UNCHANGED <<fin, device, channel, incomePulse, controller, manager, mutex, fault>>

RecvCall ==
    /\ At("recv", "call")
    /\ IF ~ Holds("manager") THEN Fault("receive thread calls no controller")
       ELSE /\ Go("recv", "read")
            /\ UNCHANGED <<fin, device, channel, incomePulse, controller, manager,
                           mutex, fault>>

\* ReadMessage looks at the controller every 2 ms, until it is closed or has a frame.
RecvRead ==
    /\ At("recv", "read")
    /\ IF controller.object = "freed" THEN Fault("receive thread reads a freed controller")
       ELSE /\ \E step \in IF controller.inited THEN {"read", "lock"} ELSE {"check"} :
                 Go("recv", step)
            /\ UNCHANGED <<fin, device, channel, incomePulse, controller, manager,
                           mutex, fault>>

RecvLock ==
    /\ At("recv", "lock")
    /\ mutex.queue = "free"
    /\ mutex' = [mutex EXCEPT !.queue = "recv"]
    /\ Go("recv", "walk")
    /\ UNCHANGED <<fin, device, channel, incomePulse, controller, manager, fault>>

RecvUnlock ==
    /\ At("recv", "walk")
    /\ mutex' = [mutex EXCEPT !.queue = "free"]
    /\ Go("recv", "check")
    /\ UNCHANGED <<fin, device, channel, incomePulse, controller, manager, fault>>

-----------------------------------------------------------------------------
(***************************************************************************)
(* Finalize: DeleteController, then the destructor of CanManager, then the *)
(* destructors that exit runs.                                             *)
(***************************************************************************)

Finalizing(step) == Running /\ fin.at = step
Then(step) == fin' = [fin EXCEPT !.at = step]

Starts(t) == Running /\ fin.by = "none" /\ fin' = [by |-> t, at |-> "free"]

Finalize ==
    /\ At("main", "failed")
    /\ Starts("main")
    /\ UNCHANGED <<pc, device, channel, incomePulse, controller, manager, mutex, fault>>

SigTermHandler(t) ==
    /\ pc[t] \notin {"none", "ended"}
    /\ Starts(t)
    /\ UNCHANGED <<pc, device, channel, incomePulse, controller, manager, mutex, fault>>

PCIFreePCAN ==
    /\ Finalizing("free")
    /\ IF device.addr = "MAP_FAILED" THEN Fault("Finalize writes to MAP_FAILED")
       ELSE /\ device' = [device EXCEPT !.enabled = FALSE]
            /\ Then(IF device.addr = "zero" THEN "detach" ELSE "unmap")
            /\ UNCHANGED <<pc, channel, incomePulse, controller, manager, mutex, fault>>

UnmapBridge ==
    /\ Finalizing("unmap")
    /\ device' = [device EXCEPT !.mapped = FALSE]
    /\ Then("zero")
    /\ UNCHANGED <<pc, channel, incomePulse, controller, manager, mutex, fault>>

ClearConfigAddr ==
    /\ Finalizing("zero")
    /\ device' = [device EXCEPT !.addr = "zero"]
    /\ Then("detach")
    /\ UNCHANGED <<pc, channel, incomePulse, controller, manager, mutex, fault>>

\* Detaching as a part of giving up the bridge only.
WithBridge == device.enabled \/ pc.isr # "none"
Always     == TRUE

PCIDetachDevice ==
    /\ Finalizing("detach")
    /\ device' = [device EXCEPT !.attached = @ /\ ~ Always]
    /\ Then("reset")
    /\ UNCHANGED <<pc, channel, incomePulse, controller, manager, mutex, fault>>

\* A shared_ptr is reset: the controller goes with the last one.  Its destructor
\* closes it if it was initialised; a thread it has not joined ends the program.
Alone(who) == controller.object = "alive"
Last(who)  == controller.holders = {who}

Reset(who, next) ==
    IF ~ Last(who)
    THEN controller' = Dropped(who) /\ Then(next) /\ UNCHANGED fault
    ELSE IF controller.inited
    THEN controller' = Dropped(who) /\ Then("close") /\ UNCHANGED fault
    ELSE /\ controller' = [Dropped(who) EXCEPT !.object = "freed"]
         /\ Then(next)
         /\ fault' = IF pc.pulse = "none" THEN fault ELSE "thread never joined"

ResetFactory ==
    /\ Finalizing("reset")
    /\ Reset("factory", "tell")
    /\ UNCHANGED <<pc, device, channel, incomePulse, manager, mutex>>

TellIsr ==
    /\ Finalizing("tell")
    /\ channel' = [channel EXCEPT !.isr = @ \cup {"TERMINATE_PULSE"}]
    /\ Then("join")
    /\ UNCHANGED <<pc, device, incomePulse, controller, manager, mutex, fault>>

\* A thread that was never started is not joined.
Join(t, next) ==
    IF fin.by = t THEN Fault("a thread joins itself")
    ELSE /\ pc[t] \in {"none", "ended"}
         /\ Then(next)
         /\ UNCHANGED <<pc, device, channel, incomePulse, controller, manager, mutex,
                        fault>>

JoinIsr == Finalizing("join") /\ Join("isr", "delete")

DeleteCanManager ==
    /\ Finalizing("delete")
    /\ terminate' = canManager
    /\ Then(IF canManager THEN "drop" ELSE "exit")
    /\ UNCHANGED <<pc, device, channel, incomePulse, controller, canManager, mutex, fault>>

\* canManager was tested before, and a main that still runs may have assigned it since:
\* what follows the reset is what the destructor of CanManager has begun, or exit.
AfterReset == IF terminate THEN "joinRecv" ELSE "done"

ResetManager ==
    /\ Finalizing("drop")
    /\ Reset("manager", AfterReset)
    /\ UNCHANGED <<pc, device, channel, incomePulse, manager, mutex>>

CloseController ==
    /\ Finalizing("close")
    /\ controller' = [controller EXCEPT !.inited = FALSE]
    /\ Then("tellPulse")
    /\ UNCHANGED <<pc, device, channel, incomePulse, manager, mutex, fault>>

NotTold == channel
Told    == [channel EXCEPT !.pulse = @ \cup {"TERMINATE_PULSE"}]

TellPulse ==
    /\ Finalizing("tellPulse")
    /\ channel' = Told
    /\ Then("joinPulse")
    /\ UNCHANGED <<pc, device, incomePulse, controller, manager, mutex, fault>>

\* The join returns, and the controller is gone.
JoinPulse ==
    /\ Finalizing("joinPulse")
    /\ IF fin.by = "pulse" THEN Fault("a thread joins itself")
       ELSE /\ pc.pulse = "ended"
            /\ controller' = [controller EXCEPT !.object = "freed"]
            /\ Then(AfterReset)
            /\ UNCHANGED <<pc, device, channel, incomePulse, manager, mutex, fault>>

JoinRecv == Finalizing("joinRecv") /\ Join("recv", "done")

\* exit destroys CanManager::canController_, if nobody has reset it.
Exit ==
    /\ Finalizing("exit")
    /\ Then(IF Holds("manager") THEN "drop" ELSE "done")
    /\ UNCHANGED <<pc, device, channel, incomePulse, controller, manager, mutex, fault>>

-----------------------------------------------------------------------------
CreateController ==
    \/ PCIAttachDevice \/ PCIGetPCANPorts \/ PCIInitPCAN \/ MapChip
    \/ StartInterruptThread \/ MakeController

CanManager ==
    NewCanManager \/ IsThereDevice \/ InitController \/ StartReceiveThread \/ AssignCanManager

DispatchLoop == HandleRead \/ HandleWrite \/ StopServing

InterruptHandleTh ==
    (\E code \in Pulses : IsrPulse(code)) \/ IsrTimeout \/ IsrTest \/ IsrLook
    \/ IsrCall \/ IsrDone

PulseThread ==
    (\E code \in Pulses : PulseWakeUp(code)) \/ PulseTimeout \/ PulseLock \/ PulseUnlock

ReceiveThread == RecvCheck \/ RecvCall \/ RecvRead \/ RecvLock \/ RecvUnlock

Finalization ==
    \/ Finalize \/ PCIFreePCAN \/ UnmapBridge \/ ClearConfigAddr \/ PCIDetachDevice
    \/ ResetFactory \/ TellIsr \/ JoinIsr \/ DeleteCanManager \/ ResetManager
    \/ CloseController \/ TellPulse \/ JoinPulse \/ JoinRecv \/ Exit

Next ==
    \/ CreateController \/ CanManager \/ DispatchLoop \/ HandlerReturns
    \/ Raise \/ InterruptEvent
    \/ InterruptHandleTh \/ PulseThread \/ ReceiveThread
    \/ Finalization
    \/ \E t \in Signals : SigTermHandler(t)

Spec == Init /\ [][Next]_vars

\* Every thread runs; the program need not be stopped.
Fairness ==
    /\ WF_vars(CreateController \/ CanManager)
    /\ WF_vars(HandlerReturns)
    /\ WF_vars(InterruptHandleTh)
    /\ WF_vars(PulseThread)
    /\ WF_vars(ReceiveThread)
    /\ WF_vars(Finalization)

FairSpec == Spec /\ Fairness

-----------------------------------------------------------------------------
(***************************************************************************)
(* Properties.                                                             *)
(***************************************************************************)

\* Nobody uses what is not there while the manager serves: only before the
\* controller is assigned, under an interrupt thread that already runs, and once
\* the program is being stopped.
ServingIsSafe == fault # "none" => pc.main = "publish" \/ fin.at # "no"

\* A masked interrupt will be unmasked: its pulse waits or is being handled.
MaskBalanced ==
    device.masked =>
      \/ "INTERRUPT_PULSE" \in channel.isr
      \/ pc.isr \in {"test", "look", "call", "done"} /\ incomePulse = "INTERRUPT_PULSE"

\* However far the start got, the program leaves the device as it found it, and
\* with no thread in the manager it deleted.
CleanExit ==
    fin.at = "done" /\ fault = "none" =>
      /\ ~ device.enabled /\ ~ device.mapped /\ ~ device.attached
      /\ pc.isr \in {"none", "ended"}
      /\ terminate => pc.pulse = "ended" /\ pc.recv = "ended"

\* A shutdown ends, unless the signal met main in a critical section another
\* thread has to enter before it can be joined.
Stuck == fin.by = "main" /\ (mutex.queue = "main" \/ mutex.transmit = "main")
ShutdownEnds == fin.at # "no" ~> fin.at = "done" \/ fault # "none" \/ Stuck
=============================================================================
