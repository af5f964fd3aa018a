----------------------------- MODULE CanManager -----------------------------
(***************************************************************************)
(* The receive side of the resource manager: class CanManager.             *)
(*                                                                         *)
(* Two threads share a ring of CAN frames and a list of requests that wait *)
(* for one.  The receive thread (DataReceiveThread) writes each frame into *)
(* the ring without the mutex, then takes it, walks the list and publishes *)
(* the frame.  The dispatch thread runs one handler at a time; a handler   *)
(* that reads the ring or the list takes the mutex.                        *)
(*                                                                         *)
(* A receive identifier (rcvid) names the connection of one client to one  *)
(* open descriptor, so it is the pair <<client, ocb>> and is used again by *)
(* that client's next message.  Several clients may share an OCB (threads  *)
(* of a process, or a descriptor inherited by a child): Access.            *)
(***************************************************************************)
EXTENDS Integers, Sequences, FiniteSets

CONSTANTS
    Clients,        \* client threads
    Ocbs,           \* open control blocks the pool can hand out
    Access,         \* the pairs <<client, ocb>>: who holds a connection to what
    Ids,            \* arbitration fields of the frames on the bus
    Filters,        \* what a CanMessageFilter accepts: sets of Ids
    N,              \* ring slots, 2^nQueueSize
    HeadMod,        \* where queueHead_ and queueBottom_ wrap, 2^32
    MaxFrames,      \* bound: frames the controller delivers
    MaxDelayed,     \* bound: length of delayedQueue_
    MaxInterrupts,  \* bound: unblock pulses per open descriptor
    None            \* no request, no client, no OCB; a filter being copied

ASSUME CanManagerAssumption ==
    /\ Access \subseteq Clients \X Ocbs
    /\ Filters \subseteq SUBSET Ids
    /\ N \in Nat \ {0}
    /\ HeadMod \in Nat \ {0}
    /\ MaxFrames \in Nat
    /\ MaxDelayed \in Nat
    /\ MaxInterrupts \in Nat
    /\ None \notin Clients \cup Ocbs

(***************************************************************************)
(* A frame carries its arrival number n, which only the properties look    *)
(* at.  Garbage is a slot never written or being written.  Torn is a       *)
(* filter being copied.                                                    *)
(***************************************************************************)
Frames  == [id : Ids, n : 0 .. MaxFrames - 1]
Garbage == [id |-> None, n |-> -1]
Torn    == None
Never   == -1

ReadOps   == {"read", "readnb"}
PollOps   == {"notify", "poll"}
LockedOps == ReadOps \cup PollOps \cup {"open", "append", "close"}
Ops       == LockedOps \cup {"devctl"}

Requests  == [client : Clients, ocb : Ocbs, op : Ops \cup {"memcpy"},
              arg : Filters \cup {None}]
Elements  == [type : {"ET_REPLY", "ET_NOTIFY"}, client : Clients, ocb : Ocbs]
Sends     == [ocb : Ocbs, op : Ops]

ASSUME NoneAssumption == None \notin Requests \cup Sends

VARIABLES
    canMessageQueue,  \* the ring
    queueHead,        \* index of the next frame, mod HeadMod
    queueBottom,      \* index of the oldest readable frame, mod HeadMod
    filling,          \* the ring has not been filled once
    queueMutex,       \* holder of queueMutex_
    pc,               \* where DataReceiveThread is
    delayedQueue,     \* delayedQueue_ from the iterator of a walk to its end
    passed,           \* delayedQueue_ before the iterator of a walk
    live,             \* OCBs in use
    offset,           \* defaultOCB_.offset: next frame of an OCB
    filter,           \* canMessageFilter_ of an OCB
    notifyEvent,      \* whose event notifyEvent_ of an OCB holds
    request,          \* message the dispatch thread handles
    blocked,          \* what a client is SEND- or REPLY-blocked on
    waiting,          \* the OCB a client armed and awaits an event from
    received,         \* frames written to the ring so far
    expected,         \* 1 + number of the last frame an OCB's clients got;
                      \* Never once a frame came torn, twice or out of order
    lost,             \* frames an OCB passed over by replying to nobody
    interrupts        \* reads of an OCB answered by io_unblock

ring    == <<canMessageQueue, queueHead, queueBottom, filling, received>>
queue   == <<delayedQueue, passed>>
ocbs    == <<live, offset, filter, notifyEvent>>
clients == <<blocked, waiting>>
history == <<expected, lost, interrupts>>
vars    == <<ring, queueMutex, pc, queue, ocbs, request, clients, history>>

\* What each variable may hold; in particular the 32-bit indices wrap, while the
\* 64-bit pointers of the descriptors count on.
TypeOK ==
    /\ canMessageQueue \in [0 .. N - 1 -> Frames \cup {Garbage}]
    /\ queueHead \in 0 .. HeadMod - 1
    /\ queueBottom \in 0 .. HeadMod - 1
    /\ filling \in BOOLEAN
    /\ queueMutex \in {"free", "receive", "dispatch"}
    /\ pc \in {"read", "copy", "lock", "walk"}
    /\ delayedQueue \in Seq(Elements)
    /\ passed \in Seq(Elements)
    /\ live \subseteq Ocbs
    /\ offset \in [Ocbs -> Nat]
    /\ filter \in [Ocbs -> (SUBSET Ids) \cup {Torn}]
    /\ notifyEvent \in [Ocbs -> Clients \cup {None}]
    /\ request \in Requests \cup {None}
    /\ blocked \in [Clients -> Sends \cup {None}]
    /\ waiting \in [Clients -> Ocbs \cup {None}]
    /\ received \in 0 .. MaxFrames
    /\ expected \in [Ocbs -> Never .. MaxFrames]
    /\ lost \in [Ocbs -> Nat]
    /\ interrupts \in [Ocbs -> Nat]

Init ==
    /\ canMessageQueue = [i \in 0 .. N - 1 |-> Garbage]
    /\ queueHead = 0
    /\ queueBottom = 0
    /\ filling = TRUE
    /\ queueMutex = "free"
    /\ pc = "read"
    /\ delayedQueue = <<>>
    /\ passed = <<>>
    /\ live = {}
    /\ offset = [o \in Ocbs |-> 0]
    /\ filter = [o \in Ocbs |-> Ids]
    /\ notifyEvent = [o \in Ocbs |-> None]
    /\ request = None
    /\ blocked = [c \in Clients |-> None]
    /\ waiting = [c \in Clients |-> None]
    /\ received = 0
    /\ expected = [o \in Ocbs |-> 0]
    /\ lost = [o \in Ocbs |-> 0]
    /\ interrupts = [o \in Ocbs |-> 0]

-----------------------------------------------------------------------------
(***************************************************************************)
(* What the handlers and the receive thread have in common.                *)
(***************************************************************************)

Slot(i) == canMessageQueue[i % N]

\* The verdict on a torn filter or a torn frame is whatever the bytes give.
CheckFilter(frame, accepted, luck) ==
    IF frame = Garbage \/ accepted = Torn THEN luck ELSE frame.id \in accepted

\* The first reply to a rcvid unblocks its client; any other reply fails.
BlockedOn(c, o) == blocked[c] # None /\ blocked[c].ocb = o
MsgReply(c, o) ==
    blocked' = IF BlockedOn(c, o) THEN [blocked EXCEPT ![c] = None] ELSE blocked

Reading(c, o) == BlockedOn(c, o) /\ blocked[c].op \in ReadOps

\* MsgReply with a frame: the client reads it, or nobody does.
AfterFrame(o, frame) ==
    IF expected[o] # Never /\ frame.n >= expected[o] THEN frame.n + 1 ELSE Never

ReplyFrame(c, o, frame) ==
    /\ MsgReply(c, o)
    /\ \/ /\ Reading(c, o)
          /\ expected' = [expected EXCEPT ![o] = AfterFrame(o, frame)]
          /\ UNCHANGED lost
       \/ /\ ~ Reading(c, o)
          /\ lost' = [lost EXCEPT ![o] = @ + 1]
          /\ UNCHANGED expected

\* Where a read or a poll of o starts: the pointer, if it is in the ring.
Oldest(o) == queueBottom
Unchecked(o) == offset[o]
Start(o) ==
    IF offset[o] > queueHead \/ offset[o] < queueBottom THEN queueBottom
    ELSE offset[o]

\* The frames the search loop visits.  A pointer beyond the head never meets
\* it: the loop goes round the ring.
Unread(o) ==
    Start(o) .. (IF Start(o) <= queueHead THEN queueHead ELSE Start(o) + N) - 1

\* A search that forgets to stop at the first frame.
AnyAccepted(o, i, luck) ==
    /\ i \in Unread(o)
    /\ CheckFilter(Slot(i), filter[o], luck)

FirstAccepted(o, i, luck) ==
    /\ i \in Unread(o)
    /\ CheckFilter(Slot(i), filter[o], luck)
    /\ \A j \in Start(o) .. i - 1 : ~ CheckFilter(Slot(j), filter[o], luck)

\* A loop that looks for the head only after a step.
StepsFirst(o, luck) ==
    /\ Start(o) < queueHead
    /\ \A i \in Unread(o) : ~ CheckFilter(Slot(i), filter[o], luck)

NoneAccepted(o, luck) ==
    /\ Start(o) <= queueHead
    /\ \A i \in Unread(o) : ~ CheckFilter(Slot(i), filter[o], luck)

-----------------------------------------------------------------------------
(***************************************************************************)
(* DataReceiveThread.                                                      *)
(***************************************************************************)

\* ReadMessage has a frame and starts to copy it into the slot at the head.
ReadMessage ==
    /\ pc = "read"
    /\ received < MaxFrames
    /\ canMessageQueue' = [canMessageQueue EXCEPT ![queueHead % N] = Garbage]
    /\ pc' = "copy"
    /\ UNCHANGED <<queueHead, queueBottom, filling, received, queueMutex,
                   queue, ocbs, request, clients, history>>

\* The copy is complete.
ReadMessageDone(id) ==
    /\ pc = "copy"
    /\ canMessageQueue' = [canMessageQueue EXCEPT
                             ![queueHead % N] = [id |-> id, n |-> received]]
    /\ received' = received + 1
    /\ pc' = "lock"
    /\ UNCHANGED <<queueHead, queueBottom, filling, queueMutex,
                   queue, ocbs, request, clients, history>>

LockForWalk ==
    /\ pc = "lock"
    /\ queueMutex = "free"
    /\ queueMutex' = "receive"
    /\ pc' = "walk"
    /\ UNCHANGED <<ring, queue, ocbs, request, clients, history>>

\* The iterator moves on, over an element that stays or past one erased.  (Drop
\* is a walk that erases where it should keep.)
Drop  == /\ delayedQueue' = Tail(delayedQueue)
         /\ UNCHANGED passed
Keep  == /\ passed' = Append(passed, Head(delayedQueue))
         /\ delayedQueue' = Tail(delayedQueue)
Erase == /\ delayedQueue' = Tail(delayedQueue)
         /\ UNCHANGED passed

AtHead(e) == offset[e.ocb] = queueHead

\* The pointer passes a frame rejected or returned.
StayPut(o) == UNCHANGED offset
Advance(o) == offset' = [offset EXCEPT ![o] = @ + 1]

\* An element whose OCB already moved past this frame.
WalkSkip ==
    /\ pc = "walk" /\ delayedQueue # <<>>
    /\ ~ AtHead(Head(delayedQueue))
    /\ Keep
    /\ UNCHANGED <<ring, queueMutex, pc, ocbs, request, clients, history>>

WalkReject ==
    /\ pc = "walk" /\ delayedQueue # <<>>
    /\ LET e == Head(delayedQueue) IN
         /\ AtHead(e)
         /\ \E luck \in BOOLEAN :
              ~ CheckFilter(Slot(queueHead), filter[e.ocb], luck)
         /\ Advance(e.ocb)
    /\ Keep
    /\ UNCHANGED <<ring, queueMutex, pc, live, filter, notifyEvent, request,
                   clients, history>>

WalkReply ==
    /\ pc = "walk" /\ delayedQueue # <<>>
    /\ LET e == Head(delayedQueue) IN
         /\ AtHead(e)
         /\ e.type = "ET_REPLY"
         /\ \E luck \in BOOLEAN :
              CheckFilter(Slot(queueHead), filter[e.ocb], luck)
         /\ ReplyFrame(e.client, e.ocb, Slot(queueHead))
         /\ Advance(e.ocb)
    /\ Erase
    /\ UNCHANGED <<ring, queueMutex, pc, live, filter, notifyEvent, request,
                   waiting, interrupts>>

\* The event of the OCB is delivered once, over the rcvid of the element: a
\* second element of the OCB is erased without one.  An event that another
\* client armed reaches the one or the other, by its type.
WalkNotify ==
    /\ pc = "walk" /\ delayedQueue # <<>>
    /\ LET e == Head(delayedQueue) IN
         /\ AtHead(e)
         /\ e.type = "ET_NOTIFY"
         /\ \E luck \in BOOLEAN :
              CheckFilter(Slot(queueHead), filter[e.ocb], luck)
         /\ notifyEvent' = [notifyEvent EXCEPT ![e.ocb] = None]
         /\ IF notifyEvent[e.ocb] = None THEN UNCHANGED waiting
            ELSE \E c \in {e.client, notifyEvent[e.ocb]} :
                   waiting' = [waiting EXCEPT ![c] =
                                 IF @ = e.ocb THEN None ELSE @]
    /\ Erase
    /\ UNCHANGED <<ring, queueMutex, pc, live, offset, filter, request,
                   blocked, history>>

\* An index of the ring, as an uint32_t.
NoWrap(i)    == i + 1
NextIndex(i) == (i + 1) % HeadMod

\* Whether the ring has been filled once its head is h.
FullLate(h) == N < h
RingFull(h) == N - 1 < h

\* The walk ends: the frame becomes readable, the oldest one stops to be.
Publish ==
    /\ pc = "walk" /\ delayedQueue = <<>>
    /\ delayedQueue' = passed
    /\ passed' = <<>>
    /\ queueHead' = NextIndex(queueHead)
    /\ filling' = (filling /\ ~ RingFull(queueHead'))
    /\ queueBottom' = IF filling' THEN queueBottom ELSE NextIndex(queueBottom)
    /\ queueMutex' = "free"
    /\ pc' = "read"
    /\ UNCHANGED <<canMessageQueue, received, ocbs, request, clients, history>>

-----------------------------------------------------------------------------
(***************************************************************************)
(* The dispatch thread.  Receive is the client's side: it sends a message  *)
(* and blocks until the first reply to its rcvid.  A client that awaited   *)
(* an event and sends again has given up waiting.                          *)
(***************************************************************************)

Receive(c, o, op, arg) ==
    /\ request = None
    /\ blocked[c] = None
    /\ <<c, o>> \in Access
    /\ (op \in {"open", "append"}) <=> (o \notin live)
    /\ (op = "devctl") <=> (arg # None)
    /\ op \in {"read", "notify"} => Len(delayedQueue) + Len(passed) < MaxDelayed
    /\ request' = [client |-> c, ocb |-> o, op |-> op, arg |-> arg]
    /\ blocked' = [blocked EXCEPT ![c] = [ocb |-> o, op |-> op]]
    /\ waiting' = [waiting EXCEPT ![c] = None]
    /\ UNCHANGED <<ring, queueMutex, pc, queue, ocbs, history>>

\* The error returns of the handlers, before they touch anything: wrong size,
\* extended type, failed verification, unknown command, no memory for an OCB.
Refuse ==
    /\ request # None
    /\ queueMutex # "dispatch"
    /\ request.op \in Ops \ {"close"}
    /\ MsgReply(request.client, request.ocb)
    /\ request' = None
    /\ UNCHANGED <<ring, queueMutex, pc, queue, ocbs, waiting, history>>

LockForRequest ==
    /\ request # None
    /\ request.op \in LockedOps
    /\ queueMutex = "free"
    /\ queueMutex' = "dispatch"
    /\ UNCHANGED <<ring, pc, queue, ocbs, request, clients, history>>

\* The dispatch thread is inside a handler's critical section.
Handling(ops) ==
    /\ queueMutex = "dispatch"
    /\ request.op \in ops

Return == queueMutex' = "free" /\ request' = None

\* A frame the filter accepts is in the ring: reply with the first one.
ReadFound ==
    /\ Handling(ReadOps)
    /\ LET o == request.ocb IN
         \E luck \in BOOLEAN, i \in Unread(o) :
           /\ FirstAccepted(o, i, luck)
           /\ ReplyFrame(request.client, o, Slot(i))
           /\ offset' = [offset EXCEPT ![o] = i + 1]
    /\ Return
    /\ UNCHANGED <<ring, pc, queue, live, filter, notifyEvent, waiting, interrupts>>

\* No frame and O_NONBLOCK: an empty reply.
ReadEmpty ==
    /\ Handling({"readnb"})
    /\ \E luck \in BOOLEAN : NoneAccepted(request.ocb, luck)
    /\ offset' = [offset EXCEPT ![request.ocb] = queueHead]
    /\ MsgReply(request.client, request.ocb)
    /\ Return
    /\ UNCHANGED <<ring, pc, queue, live, filter, notifyEvent, waiting, history>>

\* No frame: the request is queued and its client stays blocked.
ReadDelayed ==
    /\ Handling({"read"})
    /\ \E luck \in BOOLEAN : NoneAccepted(request.ocb, luck)
    /\ offset' = [offset EXCEPT ![request.ocb] = queueHead]
    /\ delayedQueue' = Append(delayedQueue,
         [type |-> "ET_REPLY", client |-> request.client, ocb |-> request.ocb])
    /\ Return
    /\ UNCHANGED <<ring, pc, passed, live, filter, notifyEvent, clients, history>>

\* io_notify finds a frame: the condition is reported in the reply.
NotifyFound ==
    /\ Handling(PollOps)
    /\ LET o == request.ocb IN
         \E luck \in BOOLEAN, i \in Unread(o) :
           /\ FirstAccepted(o, i, luck)
           /\ offset' = [offset EXCEPT ![o] = i]
    /\ MsgReply(request.client, request.ocb)
    /\ Return
    /\ UNCHANGED <<ring, pc, queue, live, filter, notifyEvent, waiting, history>>

\* io_notify finds none, and the client asks for something else than to be
\* told of input later.
NotifyNone ==
    /\ Handling({"poll"})
    /\ \E luck \in BOOLEAN : NoneAccepted(request.ocb, luck)
    /\ offset' = [offset EXCEPT ![request.ocb] = queueHead]
    /\ MsgReply(request.client, request.ocb)
    /\ Return
    /\ UNCHANGED <<ring, pc, queue, live, filter, notifyEvent, waiting, history>>

\* _NOTIFY_ACTION_POLLARM for input alone: the event of the OCB is armed.
NotifyArm ==
    /\ Handling({"notify"})
    /\ LET o == request.ocb
           c == request.client
       IN  /\ \E luck \in BOOLEAN : NoneAccepted(o, luck)
           /\ offset' = [offset EXCEPT ![o] = queueHead]
           /\ notifyEvent' = [notifyEvent EXCEPT ![o] = c]
           /\ delayedQueue' = Append(delayedQueue,
                [type |-> "ET_NOTIFY", client |-> c, ocb |-> o])
           /\ MsgReply(c, o)
           /\ waiting' = IF BlockedOn(c, o) THEN [waiting EXCEPT ![c] = o] ELSE waiting
    /\ Return
    /\ UNCHANGED <<ring, pc, passed, live, filter, history>>

\* The block ocb_calloc zeroes: the filter is ET_DISABLED, no event is armed.
\* A freed block is kept in this form too, since nobody may look at it.
Zeroed(o) ==
    /\ filter' = [filter EXCEPT ![o] = Ids]
    /\ notifyEvent' = [notifyEvent EXCEPT ![o] = None]
    /\ expected' = [expected EXCEPT ![o] = 0]
    /\ lost' = [lost EXCEPT ![o] = 0]
    /\ interrupts' = [interrupts EXCEPT ![o] = 0]

\* Where a descriptor starts to read.
OneBefore(op) == (IF op = "append" THEN queueHead ELSE queueBottom) - 1
OpenAt(op) == IF op = "append" THEN queueHead ELSE queueBottom

io_open ==
    /\ Handling({"open", "append"})
    /\ LET o == request.ocb IN
         /\ live' = live \cup {o}
         /\ Zeroed(o)
         /\ offset' = [offset EXCEPT ![o] = OpenAt(request.op)]
         /\ MsgReply(request.client, o)
    /\ Return
    /\ UNCHANGED <<ring, pc, queue, waiting>>

\* io_close_ocb walks the list: elements of the OCB are answered and erased.
CloseErase ==
    /\ Handling({"close"})
    /\ delayedQueue # <<>>
    /\ Head(delayedQueue).ocb = request.ocb
    /\ MsgReply(Head(delayedQueue).client, request.ocb)
    /\ Erase
    /\ UNCHANGED <<ring, queueMutex, pc, ocbs, request, waiting, history>>

CloseKeep ==
    /\ Handling({"close"})
    /\ delayedQueue # <<>>
    /\ Head(delayedQueue).ocb # request.ocb
    /\ Keep
    /\ UNCHANGED <<ring, queueMutex, pc, ocbs, request, clients, history>>

\* The walk is over: the mutex is released and ocb_free ends the OCB.
CloseFree ==
    /\ Handling({"close"})
    /\ delayedQueue = <<>>
    /\ delayedQueue' = passed
    /\ passed' = <<>>
    /\ live' = live \ {request.ocb}
    /\ Zeroed(request.ocb)
    /\ offset' = [offset EXCEPT ![request.ocb] = 0]
    /\ MsgReply(request.client, request.ocb)
    /\ waiting' = [c \in Clients |->
                     IF waiting[c] = request.ocb THEN None ELSE waiting[c]]
    /\ Return
    /\ UNCHANGED <<ring, pc>>

\* EDCMD_SET_MASK copies the filter without the mutex.
io_devctl ==
    /\ request # None /\ request.op = "devctl"
    /\ filter' = [filter EXCEPT ![request.ocb] = Torn]
    /\ request' = [request EXCEPT !.op = "memcpy"]
    /\ UNCHANGED <<ring, queueMutex, pc, queue, live, offset, notifyEvent,
                   clients, history>>

io_devctl_return ==
    /\ request # None /\ request.op = "memcpy"
    /\ filter' = [filter EXCEPT ![request.ocb] = request.arg]
    /\ MsgReply(request.client, request.ocb)
    /\ request' = None
    /\ UNCHANGED <<ring, queueMutex, pc, queue, live, offset, notifyEvent,
                   waiting, history>>

\* A signal or a timeout hits a client that waits for a frame: the unblock
\* pulse is answered with -1, without the mutex and without the list.
io_unblock(c) ==
    /\ request = None
    /\ blocked[c] # None
    /\ LET o == blocked[c].ocb IN
         /\ interrupts[o] < MaxInterrupts
         /\ interrupts' = [interrupts EXCEPT ![o] = @ + 1]
         /\ MsgReply(c, o)
    /\ UNCHANGED <<ring, queueMutex, pc, queue, ocbs, request, waiting,
                   expected, lost>>

-----------------------------------------------------------------------------
ReceiveThread ==
    \/ ReadMessage
    \/ \E id \in Ids : ReadMessageDone(id)
    \/ LockForWalk
    \/ WalkSkip
    \/ WalkReject
    \/ WalkReply
    \/ WalkNotify
    \/ Publish

Dispatch ==
    \/ Refuse
    \/ LockForRequest
    \/ ReadFound
    \/ ReadEmpty
    \/ ReadDelayed
    \/ NotifyFound
    \/ NotifyNone
    \/ NotifyArm
    \/ io_open
    \/ CloseErase
    \/ CloseKeep
    \/ CloseFree
    \/ io_devctl
    \/ io_devctl_return

Environment ==
    \/ \E c \in Clients, o \in Ocbs, op \in Ops, arg \in Filters \cup {None} :
         Receive(c, o, op, arg)
    \/ \E c \in Clients : io_unblock(c)

Next == ReceiveThread \/ Dispatch \/ Environment

Spec == Init /\ [][Next]_vars

\* Both threads run and a copy ends.  The receive thread waits in the mutex at
\* priority 30, above the dispatch thread, so it is granted the mutex however
\* often handlers take it in between.  A frame may or may not arrive; a client
\* may or may not send.
Fairness ==
    /\ WF_vars(\E id \in Ids : ReadMessageDone(id))
    /\ SF_vars(LockForWalk)
    /\ WF_vars(WalkSkip \/ WalkReject \/ WalkReply \/ WalkNotify \/ Publish)
    /\ WF_vars(Dispatch)

FairSpec == Spec /\ Fairness

-----------------------------------------------------------------------------
(***************************************************************************)
(* Properties.                                                             *)
(***************************************************************************)

Members(s) == {s[i] : i \in 1 .. Len(s)}
Pending    == Members(passed) \cup Members(delayedQueue)
Private(c, o) == \A d \in Clients : <<d, o>> \in Access => d = c

\* The receive thread writes the slot at the head without the mutex: no frame
\* a handler can reach is the one being written or was overwritten.
ReadableIntact ==
    /\ queueHead - queueBottom <= N - 1
    /\ \A i \in queueBottom .. queueHead - 1 :
         Slot(i) # Garbage /\ Slot(i).n = i

\* Between two critical sections every delayed request stands at the head:
\* the walk compares for equality, so a request left elsewhere is never
\* answered again.
PendingAtHead ==
    queueMutex = "free" =>
      /\ passed = <<>>
      /\ \A e \in Pending : AtHead(e)

\* io_close_ocb leaves no element of the OCB that ocb_free frees: the receive
\* thread dereferences the OCB of every element.
NoDanglingOcb == \A e \in Pending : e.ocb \in live

\* A client blocked in a read that was handled has an element that will answer.
ReaderHasElement ==
    \A c \in Clients :
      blocked[c] # None /\ (request = None \/ request.client # c) =>
        /\ blocked[c].op = "read"
        /\ [type |-> "ET_REPLY", client |-> c, ocb |-> blocked[c].ocb] \in Pending

\* A client that armed its own descriptor has an element, and the event of the
\* descriptor is its own, until it closes it.
Closing(o) == queueMutex = "dispatch" /\ request.op = "close" /\ request.ocb = o
PollerHasEvent ==
    \A c \in Clients, o \in Ocbs :
      waiting[c] = o /\ Private(c, o) /\ ~ Closing(o) =>
        /\ notifyEvent[o] = c
        /\ [type |-> "ET_NOTIFY", client |-> c, ocb |-> o] \in Pending

\* The clients of an OCB get each frame at most once, whole, in arrival order.
InOrder == \A o \in live : expected[o] # Never

\* Frames an OCB's clients never get although nothing was overwritten are at
\* most as many as its interrupted reads: each read, waiting or unanswered,
\* that no client waits for any more stands for one interrupt.
Reads(o) ==
    LET Q == passed \o delayedQueue
    IN  Cardinality({i \in 1 .. Len(Q) : Q[i].ocb = o /\ Q[i].type = "ET_REPLY"})
LossBudget ==
    \A o \in live : Closing(o) \/
      lost[o] + Reads(o) <= interrupts[o] + Cardinality({c \in Clients : Reading(c, o)})

\* A step that moves the pointer of an OCB leaves behind only frames that were
\* overwritten, rejected by its filter, or replied.
PassedOver(o, i) ==
    \/ i < queueBottom
    \/ filter[o] = Torn
    \/ Slot(i).id \notin filter[o]
    \/ expected'[o] = i + 1
    \/ lost'[o] > lost[o]
NothingSkipped ==
    \A o \in live \cap live' :
      \A i \in offset[o] .. offset'[o] - 1 : PassedOver(o, i)
NoSilentSkip == [][NothingSkipped]_vars

\* The pointer of an open descriptor never goes back.
PointerOnlyAdvances ==
    [][\A o \in live \cap live' : offset'[o] >= offset[o]]_vars

\* Every frame the manager replies with reaches a client.
NothingLost == \A o \in live : lost[o] = 0

\* A search while the head has wrapped and the bottom, for N - 1 frames, has not: it
\* starts at the bottom or behind it, and its 64-bit pointer counts up past the head.
Laps == Handling(ReadOps \cup PollOps) /\ queueBottom > queueHead

\* A handler ends: it gets the mutex, its search meets the head, it leaves the mutex.
\* This holds of every request, also after the wrap and with a pointer left beyond the
\* head, except of a search that laps the ring: one that finds no frame its filter
\* accepts goes round for ever, with the mutex.
RequestServed == request # None ~> request = None \/ Laps

\* A frame that passes the filter of a descriptor, written while its only
\* client waits in a read or for its event, reaches that client.  The frame is one of
\* the first HeadMod: the pointer of a request that waits then never equals the
\* wrapped head, and the request waits for ever.
Arrives(o) ==
    /\ pc = "lock" /\ received <= HeadMod
    /\ filter[o] # Torn /\ Slot(queueHead).id \in filter[o]
Waits(c)   == request = None \/ request.client # c
UsedBy(c)  == {o \in Ocbs : <<c, o>> \in Access}
ReaderServed ==
    \A c \in Clients : \A o \in UsedBy(c) :
      Arrives(o) /\ Reading(c, o) /\ Waits(c) /\ Private(c, o)
        ~> ~ Reading(c, o)
PollerWoken ==
    \A c \in Clients : \A o \in UsedBy(c) :
      Arrives(o) /\ waiting[c] = o /\ Private(c, o) ~> waiting[c] # o
=============================================================================
