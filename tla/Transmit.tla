------------------------------ MODULE Transmit ------------------------------
(***************************************************************************)
(* The transmit side of the driver: SJA1000CanController from WriteMessage *)
(* to the transmit buffer of the chip, and back by interrupt and pulse.    *)
(*                                                                         *)
(* Three threads share one flag, transmitBufferFree_.  The dispatch thread *)
(* (io_write) and the pulse thread (InterruptHandleTh) read it under       *)
(* transmitMutex_ and clear it when they load a frame; the thread of the   *)
(* interrupt service routine sets it without that mutex, and tells the     *)
(* pulse thread with a pulse.  interruptSpinLock_ serialises access to the *)
(* command register.                                                       *)
(***************************************************************************)
EXTENDS Integers, FiniteSets

CONSTANTS
    Ids,         \* arbitration fields of the frames, the lowest wins
    MaxWrites,   \* bound: frames the clients write
    MaxEvents,   \* bound: interrupts of the chip that are not for transmission
    StackCodes,  \* what the stack slot of incomePulse holds before a pulse
    None         \* no frame

ASSUME TransmitAssumption ==
    /\ Ids \subseteq Int
    /\ MaxWrites \in Nat
    /\ MaxEvents \in Nat
    /\ StackCodes \subseteq {"INTERRUPT_PULSE", "TERMINATE_PULSE", "other"}
    /\ None \notin [id : Ids, n : 1 .. MaxWrites]

Frames  == [id : Ids, n : 1 .. MaxWrites]
Loaders == {"dispatch", "pulse"}

\* Bits of the interrupt register: transmit; receive, error warning and overrun
\* (the rest of the low four); bus error, error passive and wake-up (the high).
Low  == {"TX", "LOW"}
Bits == Low \cup {"HIGH"}

VARIABLES
    transmitDataQueue,   \* the priority queue; n tells frames apart
    transmitBufferFree,  \* the flag
    transmitMutex,       \* holder of transmitMutex_
    spinLock,            \* holder of interruptSpinLock_
    pc,                  \* where a thread that may load a frame is
    canFrame,            \* the frame it has in hand
    isr,                 \* where the interrupt service routine is
    ireg,                \* its copy of the interrupt register
    hit,                 \* it found something to tell the pulse thread
    pulses,              \* INTERRUPT_PULSEs in the channel
    incomePulse,         \* code the pulse thread's buffer holds
    txBuffer,            \* transmit buffer of the chip
    intrReg,             \* interrupt register of the chip, cleared when read
    icr,                 \* interrupt latched in the bridge (PCAN_ICR)
    accepted,            \* frames written so far
    sent,                \* frames the chip has put on the bus
    events               \* interrupts raised for something else

driver == <<transmitDataQueue, transmitBufferFree, transmitMutex, spinLock>>
loader == <<pc, canFrame>>
isrs   == <<isr, ireg, hit>>
chip   == <<txBuffer, intrReg, icr, sent, events>>
vars   == <<driver, loader, isrs, pulses, incomePulse, chip, accepted>>

\* What each variable may hold; in particular a frame is in the transmit buffer
\* or in hand only as a whole, and pulses are counted, not merged.
TypeOK ==
    /\ transmitDataQueue \subseteq Frames
    /\ transmitBufferFree \in BOOLEAN
    /\ transmitMutex \in Loaders \cup {"free"}
    /\ spinLock \in Loaders \cup {"free", "isr"}
    /\ pc \in [Loaders -> {"idle", "lock", "check", "push", "enter", "load",
                           "unlock", "stopped"}]
    /\ canFrame \in [Loaders -> Frames \cup {None}]
    /\ isr \in {"wait", "enter", "read", "handle", "leave", "pulse"}
    /\ ireg \subseteq Bits
    /\ hit \in BOOLEAN
    /\ pulses \in Nat
    /\ incomePulse \in {"INTERRUPT_PULSE", "TERMINATE_PULSE", "other"}
    /\ txBuffer \in Frames \cup {None}
    /\ intrReg \subseteq Bits
    /\ icr \in BOOLEAN
    /\ accepted \subseteq Frames
    /\ sent \subseteq Frames
    /\ events \in 0 .. MaxEvents

Init ==
    /\ transmitDataQueue = {}
    /\ transmitBufferFree = TRUE
    /\ transmitMutex = "free"
    /\ spinLock = "free"
    /\ pc = [t \in Loaders |-> "idle"]
    /\ canFrame = [t \in Loaders |-> None]
    /\ isr = "wait"
    /\ ireg = {}
    /\ hit = FALSE
    /\ pulses = 0
    /\ incomePulse \in StackCodes
    /\ txBuffer = None
    /\ intrReg = {}
    /\ icr = FALSE
    /\ accepted = {}
    /\ sent = {}
    /\ events = 0

Goto(t, label) == pc' = [pc EXCEPT ![t] = label]

-----------------------------------------------------------------------------
(***************************************************************************)
(* WriteMessage, called by io_write, and ProcessTransmitFlag, called by    *)
(* the pulse thread.                                                       *)
(***************************************************************************)

\* io_write has verified a request and read its frame.
io_write(id) ==
    /\ pc["dispatch"] = "idle"
    /\ Cardinality(accepted) < MaxWrites
    /\ LET f == [id |-> id, n |-> Cardinality(accepted) + 1]
       IN  /\ canFrame' = [canFrame EXCEPT !["dispatch"] = f]
           /\ accepted' = accepted \cup {f}
    /\ Goto("dispatch", "lock")
    /\ UNCHANGED <<driver, isrs, pulses, incomePulse, chip>>

Lock(t) ==
    /\ pc[t] = "lock"
    /\ transmitMutex = "free"
    /\ transmitMutex' = t
    /\ Goto(t, "check")
    /\ UNCHANGED <<transmitDataQueue, transmitBufferFree, spinLock, canFrame,
                   isrs, pulses, incomePulse, chip, accepted>>

\* Whether a frame may go to the chip at once.
MayBypass == transmitBufferFree
MaySend   == transmitDataQueue = {} /\ transmitBufferFree

WriteCheck ==
    /\ pc["dispatch"] = "check"
    /\ Goto("dispatch", IF MaySend THEN "enter" ELSE "push")
    /\ UNCHANGED <<driver, canFrame, isrs, pulses, incomePulse, chip, accepted>>

WritePush ==
    /\ pc["dispatch"] = "push"
    /\ transmitDataQueue' = transmitDataQueue \cup {canFrame["dispatch"]}
    /\ canFrame' = [canFrame EXCEPT !["dispatch"] = None]
    /\ Goto("dispatch", "unlock")
    /\ UNCHANGED <<transmitBufferFree, transmitMutex, spinLock, isrs, pulses,
                   incomePulse, chip, accepted>>

\* The frames the comparison of the priority queue puts on top: of frames with
\* the same identifier any may be there.
Top == {f \in transmitDataQueue : \A g \in transmitDataQueue : f.id <= g.id}

ProcessTransmitFlag ==
    /\ pc["pulse"] = "check"
    /\ \/ /\ transmitBufferFree
          /\ \E f \in Top :
               /\ canFrame' = [canFrame EXCEPT !["pulse"] = f]
               /\ transmitDataQueue' = transmitDataQueue \ {f}
          /\ Goto("pulse", "enter")
       \/ /\ ~ transmitBufferFree \/ transmitDataQueue = {}
          /\ Goto("pulse", "unlock")
          /\ UNCHANGED <<canFrame, transmitDataQueue>>
    /\ UNCHANGED <<transmitBufferFree, transmitMutex, spinLock, isrs, pulses,
                   incomePulse, chip, accepted>>

\* TransmitMessage: the command register is ours, the buffer is taken.
StillFree == UNCHANGED transmitBufferFree
Taken     == transmitBufferFree' = FALSE

TransmitMessage(t) ==
    /\ pc[t] = "enter"
    /\ spinLock = "free"
    /\ spinLock' = t
    /\ Taken
    /\ Goto(t, "load")
    /\ UNCHANGED <<transmitDataQueue, transmitMutex, canFrame, isrs, pulses,
                   incomePulse, chip, accepted>>

\* The frame is written and its transmission requested.  The chip ignores what
\* is written to a buffer whose transmission is not complete.
TransmitMessageDone(t) ==
    /\ pc[t] = "load"
    /\ txBuffer' = IF txBuffer = None THEN canFrame[t] ELSE txBuffer
    /\ canFrame' = [canFrame EXCEPT ![t] = None]
    /\ spinLock' = "free"
    /\ Goto(t, "unlock")
    /\ UNCHANGED <<transmitDataQueue, transmitBufferFree, transmitMutex, isrs,
                   pulses, incomePulse, intrReg, icr, sent, events, accepted>>

Forgotten == UNCHANGED transmitMutex
Released  == transmitMutex' = "free"

Unlock(t) ==
    /\ pc[t] = "unlock"
    /\ Released
    /\ Goto(t, "idle")
    /\ UNCHANGED <<transmitDataQueue, transmitBufferFree, spinLock, canFrame,
                   isrs, pulses, incomePulse, chip, accepted>>

-----------------------------------------------------------------------------
(***************************************************************************)
(* InterruptHandleTh of the controller.  MsgReceivePulse leaves its buffer *)
(* alone when it times out, so the switch looks at the code of the pulse   *)
(* before or, before the first one, at what the stack held.                *)
(***************************************************************************)

SwitchOn(code) ==
    Goto("pulse", CASE code = "INTERRUPT_PULSE" -> "lock"
                    [] code = "TERMINATE_PULSE" -> "stopped"
                    [] OTHER -> "idle")

AnyWakeUp == TRUE
PulseIn   == pulses > 0

ReceivePulse ==
    /\ pc["pulse"] = "idle"
    /\ PulseIn
    /\ pulses' = pulses - 1
    /\ incomePulse' = "INTERRUPT_PULSE"
    /\ SwitchOn("INTERRUPT_PULSE")
    /\ UNCHANGED <<driver, canFrame, isrs, chip, accepted>>

ReceiveTimeout ==
    /\ pc["pulse"] = "idle"
    /\ pulses = 0
    /\ SwitchOn(incomePulse)
    /\ UNCHANGED <<driver, canFrame, isrs, pulses, incomePulse, chip, accepted>>

-----------------------------------------------------------------------------
(***************************************************************************)
(* The interrupt service routine.  ControllerFactory runs it when it finds *)
(* the interrupt latched, on an interrupt or at the latest after 100 ms,   *)
(* and acknowledges the latch first.                                       *)
(***************************************************************************)

Acknowledge ==
    /\ isr = "wait"
    /\ icr
    /\ icr' = FALSE
    /\ isr' = "enter"
    /\ UNCHANGED <<driver, loader, ireg, hit, pulses, incomePulse, txBuffer,
                   intrReg, sent, events, accepted>>

InterruptServiceRoutine ==
    /\ isr = "enter"
    /\ spinLock = "free"
    /\ spinLock' = "isr"
    /\ hit' = FALSE
    /\ isr' = "read"
    /\ UNCHANGED <<transmitDataQueue, transmitBufferFree, transmitMutex, loader,
                   ireg, pulses, incomePulse, chip, accepted>>

\* One read returns and clears every bit.  The loop ends when none of the low
\* four is set, whatever the others say.
ReadInterrupts ==
    /\ isr = "read"
    /\ intrReg' = {}
    /\ IF intrReg \cap Low # {}
       THEN ireg' = intrReg /\ isr' = "handle"
       ELSE ireg' = {} /\ isr' = "leave"
    /\ UNCHANGED <<driver, loader, hit, pulses, incomePulse, txBuffer, icr, sent,
                   events, accepted>>

AnyBit           == TRUE
TransmitComplete == "TX" \in ireg

\* (Receive, overrun and error bits only matter here for the pulse they cause.)
HandleInterrupts ==
    /\ isr = "handle"
    /\ transmitBufferFree' = (transmitBufferFree \/ TransmitComplete)
    /\ hit' = TRUE
    /\ ireg' = {}
    /\ isr' = "read"
    /\ UNCHANGED <<transmitDataQueue, transmitMutex, spinLock, loader, pulses,
                   incomePulse, chip, accepted>>

\* The call of FinializeInterrupt in the routine is commented out: a latch set
\* since it was acknowledged stays set.
LatchCleared == icr' = FALSE
LatchKept    == UNCHANGED icr

LeaveInterrupts ==
    /\ isr = "leave"
    /\ spinLock' = "free"
    /\ isr' = IF hit THEN "pulse" ELSE "wait"
    /\ LatchKept
    /\ UNCHANGED <<transmitDataQueue, transmitBufferFree, transmitMutex, loader,
                   ireg, hit, pulses, incomePulse, txBuffer, intrReg, sent, events,
                   accepted>>

NoPulse   == UNCHANGED pulses
PulseSent == pulses' = pulses + 1

SendPulse ==
    /\ isr = "pulse"
    /\ PulseSent
    /\ isr' = "wait"
    /\ UNCHANGED <<driver, loader, ireg, hit, incomePulse, chip, accepted>>

-----------------------------------------------------------------------------
(***************************************************************************)
(* The chip.  The bridge latches the rise of its interrupt line, which is  *)
(* up while a bit is set.                                                  *)
(***************************************************************************)

Raise(bit) ==
    /\ intrReg' = intrReg \cup {bit}
    /\ icr' = (icr \/ intrReg = {})

Transmitted ==
    /\ txBuffer # None
    /\ sent' = sent \cup {txBuffer}
    /\ txBuffer' = None
    /\ Raise("TX")
    /\ UNCHANGED <<driver, loader, isrs, pulses, incomePulse, events, accepted>>

OtherInterrupt(bit) ==
    /\ events < MaxEvents
    /\ events' = events + 1
    /\ Raise(bit)
    /\ UNCHANGED <<driver, loader, isrs, pulses, incomePulse, txBuffer, sent,
                   accepted>>

-----------------------------------------------------------------------------
Dispatch ==
    \/ Lock("dispatch")
    \/ WriteCheck
    \/ WritePush
    \/ TransmitMessage("dispatch")
    \/ TransmitMessageDone("dispatch")
    \/ Unlock("dispatch")

InterruptHandleTh ==
    \/ ReceivePulse
    \/ ReceiveTimeout
    \/ Lock("pulse")
    \/ ProcessTransmitFlag
    \/ TransmitMessage("pulse")
    \/ TransmitMessageDone("pulse")
    \/ Unlock("pulse")

ServiceThread ==
    \/ Acknowledge
    \/ InterruptServiceRoutine
    \/ ReadInterrupts
    \/ HandleInterrupts
    \/ LeaveInterrupts
    \/ SendPulse

Environment ==
    \/ \E id \in Ids : io_write(id)
    \/ Transmitted
    \/ \E bit \in {"LOW", "HIGH"} : OtherInterrupt(bit)

Next == Dispatch \/ InterruptHandleTh \/ ServiceThread \/ Environment

Spec == Init /\ [][Next]_vars

\* The three threads run, and the bus takes the frame in the buffer in the end.
\* Each time-out makes the pulse thread take the mutex for a moment, which does
\* not keep a waiting write from it for ever.
Fairness ==
    /\ WF_vars(Dispatch) /\ SF_vars(Lock("dispatch"))
    /\ WF_vars(InterruptHandleTh)
    /\ WF_vars(ServiceThread)
    /\ WF_vars(Transmitted)

FairSpec == Spec /\ Fairness

-----------------------------------------------------------------------------
(***************************************************************************)
(* Properties.                                                             *)
(***************************************************************************)

InHand == {canFrame[t] : t \in Loaders} \ {None}
OnChip == {txBuffer} \ {None}

\* transmitBufferFree_ promises a free buffer, to the two threads that load one:
\* nobody holds a frame for a buffer that another frame is in, and no interrupt
\* of an earlier frame is left that could free the buffer under a later one.
FreeMeansFree ==
    transmitBufferFree \/ (\E t \in Loaders : pc[t] = "load") =>
      /\ txBuffer = None
      /\ "TX" \notin intrReg \cup ireg

\* Every frame written is in one place: in hand, in the queue, on the chip or
\* sent.  None is lost in a buffer that was not free, none is sent twice.
ExactlyOnce ==
    /\ accepted = InHand \cup transmitDataQueue \cup OnChip \cup sent
    /\ InHand \cap (transmitDataQueue \cup OnChip \cup sent) = {}
    /\ transmitDataQueue \cap (OnChip \cup sent) = {}
    /\ OnChip \cap sent = {}
    /\ canFrame["dispatch"] # None => canFrame["dispatch"] # canFrame["pulse"]

\* A frame waits in the queue only while the buffer is taken, or the end of a
\* transmission is on its way to the pulse thread, or a thread is at it: no
\* write slips its frame into the queue after the last pulse was handled.
OnItsWay ==
    \/ txBuffer # None
    \/ "TX" \in intrReg \cup ireg
    \/ isr \in {"read", "handle", "leave"} /\ hit
    \/ isr = "pulse"
    \/ pulses > 0
    \/ pc["pulse"] \in {"lock", "check", "enter", "load", "stopped"}
    \/ pc["dispatch"] \in {"enter", "load"}
NoStall == transmitDataQueue # {} => OnItsWay

\* The frame that is loaded goes before every frame in the queue: none was
\* pushed while it was in hand that has a lower identifier.
NoInversion ==
    \A t \in Loaders : pc[t] = "load" =>
      \A f \in transmitDataQueue : canFrame[t].id <= f.id

\* The interrupt line is never up unnoticed: a bit that was set while the
\* routine ran is read by it, or the latch was set again.
NoLostInterrupt ==
    intrReg # {} => icr \/ isr \in {"enter", "read", "handle"}

\* A write ends, whatever the bus does: it waits for no transmission.
WriteReturns == pc["dispatch"] # "idle" ~> pc["dispatch"] = "idle"

\* Every frame written is sent, unless the code the pulse thread found on the
\* stack at its first time-out was the one that ends it.
AllSent ==
    \A id \in Ids, n \in 1 .. MaxWrites :
      [id |-> id, n |-> n] \in accepted
        ~> [id |-> id, n |-> n] \in sent \/ pc["pulse"] = "stopped"
=============================================================================
