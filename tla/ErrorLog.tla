------------------------------ MODULE ErrorLog ------------------------------
(***************************************************************************)
(* The error interrupts of the chip on their way to the log: the routine   *)
(* puts its copy of the interrupt register into the ring errorMessageBuf_  *)
(* and sends a pulse, the pulse thread empties the ring into the log.      *)
(*                                                                         *)
(* The ring has the shape of the receive ring, but its head is incremented *)
(* before the slot is stored, the thread looks at a slot several times for *)
(* one entry, and nothing but the pulse tells it to look.                  *)
(***************************************************************************)
EXTENDS Integers

CONSTANTS
    Size,           \* ERROR_BUFFER_SIZE
    StackCodes,     \* what the stack slot of incomePulse holds before a pulse
    MaxRaised       \* bound: interrupts the chip raises

ASSUME ErrorLogAssumption ==
    /\ Size \in Nat \ {0}
    /\ StackCodes \subseteq {"INTERRUPT_PULSE", "TERMINATE_PULSE", "other"}
    /\ MaxRaised \in Nat

\* The interrupt register, by what the routine does with the bits: RX and TX;
\* OVERRUN and ERRINT, errors of the low half; BEI, ALI, EPI and WUI.
Bits   == {"RX_TX", "ERRINT", "BEI"}
Low    == {"RX_TX", "ERRINT"}
Errors == {"ERRINT", "BEI"}

\* Entries are numbered by the calls of AddError; 0 is a slot never stored.
Never  == -1

VARIABLES
    intrReg,     \* interrupt register of the chip
    icr,         \* interrupt latched in the bridge
    raised,      \* interrupts so far
    isr,         \* where the interrupt service routine is
    hit,         \* whether it will send a pulse
    dropped,     \* error bits it read and did not put into the ring
    buf,         \* errorMessageBuf_
    head,        \* errorBufHead_
    tail,        \* errorBufTail_
    added,       \* calls of AddError
    pulses,      \* pulses in the channel
    incomePulse, \* the code the pulse thread switches on
    reader,      \* where the pulse thread is
    entry,       \* what it first saw in the slot it logs
    logged,      \* entries it has logged, counted while it is sound
    newest,      \* the last of them; Never once one was torn, old or missing
    early,       \* it looked into a slot before the routine stored it
    lapped       \* the head has passed the tail

chip    == <<intrReg, icr, raised>>
routine == <<isr, hit, dropped>>
writer  == <<buf, head, added, lapped>>
thread  == <<incomePulse, reader, entry>>
log     == <<tail, logged, newest, early>>
vars    == <<chip, routine, writer, pulses, thread, log>>

\* What each variable may hold: no access to the ring is outside it.
TypeOK ==
    /\ intrReg \subseteq Bits
    /\ icr \in BOOLEAN
    /\ raised \in 0 .. MaxRaised
    /\ isr \in {"wait", "read", "add", "store", "wrap"}
    /\ hit \in BOOLEAN
    /\ dropped \subseteq Errors
    /\ buf \in [0 .. Size - 1 -> 0 .. MaxRaised]
    /\ head \in 0 .. Size
    /\ isr \notin {"store", "wrap"} => head < Size
    /\ tail \in 0 .. Size - 1
    /\ added \in 0 .. MaxRaised
    /\ pulses \in 0 .. MaxRaised
    /\ incomePulse \in {"INTERRUPT_PULSE", "TERMINATE_PULSE", "other"}
    /\ reader \in {"wait", "look", "entry", "stopped"}
    /\ entry \in 0 .. MaxRaised
    /\ logged \in 0 .. MaxRaised
    /\ newest \in Never .. MaxRaised
    /\ early \in BOOLEAN
    /\ lapped \in BOOLEAN

Init ==
    /\ intrReg = {} /\ icr = FALSE /\ raised = 0
    /\ isr = "wait" /\ hit = FALSE /\ dropped = {}
    /\ buf = [i \in 0 .. Size - 1 |-> 0]
    /\ head = 0 /\ added = 0 /\ lapped = FALSE
    /\ pulses = 0
    /\ incomePulse \in StackCodes
    /\ reader = "wait" /\ entry = 0
    /\ tail = 0 /\ logged = 0 /\ newest = 0 /\ early = FALSE

-----------------------------------------------------------------------------
\* The chip raises an interrupt; the bridge latches the rise of its line.
Raise(bit) ==
    /\ raised < MaxRaised
    /\ raised' = raised + 1
    /\ icr' = (icr \/ intrReg = {})
    /\ intrReg' = intrReg \cup {bit}
    /\ UNCHANGED <<routine, writer, pulses, thread, log>>

-----------------------------------------------------------------------------
(***************************************************************************)
(* The interrupt service routine.                                          *)
(***************************************************************************)

Acknowledge ==
    /\ isr = "wait"
    /\ icr
    /\ icr' = FALSE
    /\ isr' = "read"
    /\ UNCHANGED <<intrReg, raised, hit, dropped, writer, pulses, thread, log>>

\* Whether a register with low bits is served as an error, besides the rest.
BusError(ireg) == "BEI" \in ireg
HasError(ireg) == ireg \cap Errors # {}

\* Reading the register clears it.  Without a low bit the routine is left.
LeaveRoutine ==
    /\ isr = "read"
    /\ intrReg \cap Low = {}
    /\ intrReg' = {}
    /\ dropped' = dropped \cup (intrReg \cap Errors)
    /\ pulses' = IF hit THEN pulses + 1 ELSE pulses
    /\ hit' = FALSE
    /\ isr' = "wait"
    /\ UNCHANGED <<icr, raised, writer, thread, log>>

NoHit == UNCHANGED hit
Hit   == hit' = TRUE

ServeError ==
    /\ isr = "read"
    /\ intrReg \cap Low # {}
    /\ HasError(intrReg)
    /\ intrReg' = {}
    /\ Hit
    /\ isr' = "add"
    /\ UNCHANGED <<icr, raised, dropped, writer, pulses, thread, log>>

ServeOther ==
    /\ isr = "read"
    /\ intrReg \cap Low # {}
    /\ ~ HasError(intrReg)
    /\ intrReg' = {}
    /\ dropped' = dropped \cup (intrReg \cap Errors)
    /\ hit' = TRUE
    /\ UNCHANGED <<icr, raised, isr, writer, pulses, thread, log>>

\* AddError: the head moves on, ...
AddError ==
    /\ isr = "add"
    /\ head' = head + 1
    /\ added' = added + 1
    /\ lapped' = (lapped \/ added' - logged >= Size)
    /\ isr' = "store"
    /\ UNCHANGED <<chip, hit, dropped, buf, pulses, thread, log>>

\* ... the slot it left is stored, ...
AtNewHead == head % Size
AtOldHead == head - 1

StoreError ==
    /\ isr = "store"
    /\ buf' = [buf EXCEPT ![AtOldHead] = added]
    /\ isr' = "wrap"
    /\ UNCHANGED <<chip, hit, dropped, head, added, lapped, pulses, thread, log>>

\* ... and the head wraps.
LateWrap(i) == IF i > Size THEN 0 ELSE i
Wrapped(i)  == IF i = Size THEN 0 ELSE i

WrapHead ==
    /\ isr = "wrap"
    /\ head' = Wrapped(head)
    /\ isr' = "read"
    /\ UNCHANGED <<chip, hit, dropped, buf, added, lapped, pulses, thread, log>>

-----------------------------------------------------------------------------
(***************************************************************************)
(* The pulse thread.  The result of MsgReceivePulse is not looked at: a    *)
(* time-out acts on the code of the pulse before.                          *)
(***************************************************************************)

SwitchOn(code) ==
    reader' = CASE code = "INTERRUPT_PULSE" -> "look"
                [] code = "TERMINATE_PULSE" -> "stopped"
                [] OTHER                    -> "wait"

ReceivePulse ==
    /\ reader = "wait"
    /\ pulses > 0
    /\ pulses' = pulses - 1
    /\ incomePulse' = "INTERRUPT_PULSE"
    /\ SwitchOn(incomePulse')
    /\ UNCHANGED <<chip, routine, writer, entry, log>>

ReceiveTimeout ==
    /\ reader = "wait"
    /\ pulses = 0
    /\ SwitchOn(incomePulse)
    /\ UNCHANGED <<chip, routine, writer, pulses, incomePulse, entry, log>>

\* ProcessErrorBuffer: the indices differ, so there is an entry at the tail, ...
HeadAhead == head > tail
Ready     == head # tail

Stored == added - (IF isr = "store" THEN 1 ELSE 0)
Sound  == ~ early /\ ~ lapped

LookAtEntry ==
    /\ reader = "look"
    /\ Ready
    /\ entry' = buf[tail]
    /\ early' = (early \/ logged >= Stored)
    /\ reader' = "entry"
    /\ UNCHANGED <<chip, routine, writer, pulses, incomePulse, tail, logged, newest>>

\* ... which is read once per bit, logged, and passed, ...
LogEntry ==
    /\ reader = "entry"
    /\ newest' = IF newest # Never /\ entry = newest + 1 /\ buf[tail] = entry
                 THEN entry ELSE Never
    /\ logged' = IF Sound THEN logged + 1 ELSE logged
    /\ tail' = Wrapped(tail + 1)
    /\ reader' = "look"
    /\ UNCHANGED <<chip, routine, writer, pulses, incomePulse, entry, early>>

\* ... until the ring is empty.
RingEmpty ==
    /\ reader = "look"
    /\ ~ Ready
    /\ reader' = "wait"
    /\ UNCHANGED <<chip, routine, writer, pulses, incomePulse, entry, log>>

-----------------------------------------------------------------------------
InterruptServiceRoutine ==
    \/ Acknowledge
    \/ LeaveRoutine
    \/ ServeError
    \/ ServeOther
    \/ AddError
    \/ StoreError
    \/ WrapHead

PulseThread ==
    \/ ReceivePulse
    \/ ReceiveTimeout
    \/ LookAtEntry
    \/ LogEntry
    \/ RingEmpty

Next == (\E bit \in Bits : Raise(bit)) \/ InterruptServiceRoutine \/ PulseThread

Spec == Init /\ [][Next]_vars

\* The thread of the routine looks at the latch every 100 ms at the latest; the
\* pulse thread runs.
Fairness == WF_vars(InterruptServiceRoutine) /\ WF_vars(PulseThread)

FairSpec == Spec /\ Fairness

-----------------------------------------------------------------------------
(***************************************************************************)
(* Properties.                                                             *)
(***************************************************************************)

\* Until the ring is lapped or the thread looks into a slot that is not stored,
\* the log has the errors in their order, each once and whole.
LogInOrder == Sound => newest = logged

\* Nothing but a pulse makes the thread look: an entry it has not logged has one
\* on the way.  (A thread that never got a pulse may have ended at its first
\* time-out, on what its stack held.)
OnItsWay ==
    head # tail =>
      \/ hit
      \/ pulses > 0
      \/ reader # "wait"
      \/ incomePulse = "INTERRUPT_PULSE"

\* An error the routine has read is in the ring, unless it is of the high half.
OnlyHighDropped == dropped \subseteq Bits \ Low

\* The ring is emptied again and again, also after it was lapped.
RingEmptied == head # tail ~> head = tail \/ reader = "stopped"

\* No error the chip raised is forgotten.
NoErrorDropped == dropped = {}
=============================================================================
