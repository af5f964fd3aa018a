-------------------------- MODULE CanManagerProofs --------------------------
(***************************************************************************)
(* Theorems about CanManager, for every value of its constants.            *)
(***************************************************************************)
EXTENDS CanManager, RingLemmas, TLAPS

\* The dispatch thread holds the mutex only inside a handler that takes it.
DispatchBusy ==
    queueMutex = "dispatch" => request # None /\ request.op \in LockedOps

\* A frame is copied only while the bound on frames leaves room for it.
CopyBounded == pc = "copy" => received < MaxFrames

\* The receive thread walks the list exactly while it holds the mutex.
WalkLocks == pc = "walk" <=> queueMutex = "receive"

TypeInv == TypeOK /\ DispatchBusy /\ CopyBounded /\ WalkLocks

-----------------------------------------------------------------------------
\* The slot an index selects holds a frame or garbage.
LEMMA SlotTyped ==
    ASSUME TypeOK, NEW i \in Int
    PROVE  Slot(i) \in Frames \cup {Garbage} /\ Slot(i).n \in Never .. MaxFrames - 1
<1>1. i % N \in 0 .. N - 1
  BY ModInRange, CanManagerAssumption
<1>2. Slot(i) \in Frames \cup {Garbage}
  BY <1>1 DEF Slot, TypeOK
<1> QED
  BY <1>2, CanManagerAssumption DEF Frames, Garbage, Never

\* A reply keeps the clients' states typed.
LEMMA ReplyTyped ==
    ASSUME TypeOK, NEW c \in Clients, NEW o \in Ocbs, MsgReply(c, o)
    PROVE  blocked' \in [Clients -> Sends \cup {None}]
  BY DEF MsgReply, TypeOK

\* A reply with a frame leaves well formed what it changes.
LEMMA ReplyFrameTyped ==
    ASSUME TypeOK, NEW c \in Clients, NEW o \in Ocbs, NEW i \in Int,
           ReplyFrame(c, o, Slot(i))
    PROVE  /\ blocked' \in [Clients -> Sends \cup {None}]
           /\ expected' \in [Ocbs -> Never .. MaxFrames]
           /\ lost' \in [Ocbs -> Nat]
<1>1. blocked' \in [Clients -> Sends \cup {None}]
  BY ReplyTyped DEF ReplyFrame
<1>2. Slot(i).n \in Never .. MaxFrames - 1
  BY SlotTyped
<1>3. AfterFrame(o, Slot(i)) \in Never .. MaxFrames
  BY <1>2, CanManagerAssumption DEF AfterFrame, TypeOK, Never
<1>4. CASE Reading(c, o)
  BY <1>1, <1>3, <1>4 DEF ReplyFrame, TypeOK
<1>5. CASE ~ Reading(c, o)
  <2>1. lost' = [lost EXCEPT ![o] = @ + 1] /\ expected' = expected
    BY <1>5 DEF ReplyFrame
  <2> QED
    BY <1>1, <2>1 DEF TypeOK
<1> QED
  BY <1>4, <1>5

\* The driver starts well formed.
LEMMA TypeInit == Init => TypeInv
<1> SUFFICES ASSUME Init PROVE TypeInv
  OBVIOUS
<1> USE CanManagerAssumption
<1>1. TypeOK
  BY DEF Init, TypeOK
<1>2. DispatchBusy /\ CopyBounded /\ WalkLocks
  BY DEF Init, DispatchBusy, CopyBounded, WalkLocks
<1> QED
  BY <1>1, <1>2 DEF TypeInv

\* Moving on past an element the walk keeps leaves both parts of the queue typed.
LEMMA KeepTyped ==
    ASSUME delayedQueue \in Seq(Elements), delayedQueue # <<>>,
           passed \in Seq(Elements), Keep
    PROVE  passed' \in Seq(Elements) /\ delayedQueue' \in Seq(Elements)
  BY HeadTail DEF Keep

\* The steps of the receive thread keep the state well formed.
LEMMA TypeReceiveThread == TypeInv /\ ReceiveThread => TypeInv'
<1> SUFFICES ASSUME TypeInv, ReceiveThread PROVE TypeInv'
  OBVIOUS
<1> USE CanManagerAssumption DEF TypeInv, TypeOK, DispatchBusy, CopyBounded, WalkLocks,
        ring, queue, ocbs, clients, history
<1>1. CASE ReadMessage
  BY <1>1 DEF ReadMessage, Garbage
<1>2. ASSUME NEW id \in Ids, ReadMessageDone(id) PROVE TypeInv'
  BY <1>2 DEF ReadMessageDone, Frames
<1>3. CASE LockForWalk
  BY <1>3 DEF LockForWalk
<1>4. CASE WalkSkip
  <2>1. passed' \in Seq(Elements) /\ delayedQueue' \in Seq(Elements)
    BY <1>4, KeepTyped DEF WalkSkip
  <2>2. UNCHANGED <<ring, queueMutex, pc, ocbs, request, clients, history>>
    BY <1>4 DEF WalkSkip
  <2> QED
    BY <2>1, <2>2
<1>5. CASE WalkReject
  <2> DEFINE e == Head(delayedQueue)
  <2>1. e \in Elements /\ Tail(delayedQueue) \in Seq(Elements)
    BY <1>5, HeadTail DEF WalkReject
  <2>2. e.ocb \in Ocbs
    BY <2>1 DEF Elements
  <2>3. offset' \in [Ocbs -> Nat]
    BY <1>5, <2>2 DEF WalkReject, Advance
  <2>4. passed' \in Seq(Elements) /\ delayedQueue' \in Seq(Elements)
    BY <1>5, KeepTyped DEF WalkReject
  <2>5. UNCHANGED <<ring, queueMutex, pc, live, filter, notifyEvent, request,
                    clients, history>>
    BY <1>5 DEF WalkReject
  <2> QED
    BY <2>3, <2>4, <2>5
<1>6. CASE WalkReply
  <2> DEFINE e == Head(delayedQueue)
  <2>1. e \in Elements /\ Tail(delayedQueue) \in Seq(Elements)
    BY <1>6, HeadTail DEF WalkReply
  <2>2. e.client \in Clients /\ e.ocb \in Ocbs
    BY <2>1 DEF Elements
  <2>3. /\ blocked' \in [Clients -> Sends \cup {None}]
        /\ expected' \in [Ocbs -> Never .. MaxFrames]
        /\ lost' \in [Ocbs -> Nat]
    <3>1. TypeOK /\ queueHead \in Int
      OBVIOUS
    <3>2. ReplyFrame(e.client, e.ocb, Slot(queueHead))
      BY <1>6 DEF WalkReply
    <3> HIDE DEF TypeOK, e
    <3> QED
      BY <3>1, <3>2, <2>2, ReplyFrameTyped
  <2>4. offset' \in [Ocbs -> Nat]
    BY <1>6, <2>2 DEF WalkReply, Advance
  <2> QED
    BY <1>6, <2>1, <2>3, <2>4 DEF WalkReply, Erase
<1>7. CASE WalkNotify
  <2> DEFINE e == Head(delayedQueue)
  <2>1. e \in Elements /\ Tail(delayedQueue) \in Seq(Elements)
    BY <1>7, HeadTail DEF WalkNotify
  <2>2. e.client \in Clients /\ e.ocb \in Ocbs
    BY <2>1 DEF Elements
  <2>3. notifyEvent' \in [Ocbs -> Clients \cup {None}]
    BY <1>7, <2>2 DEF WalkNotify
  <2>4. waiting' \in [Clients -> Ocbs \cup {None}]
    <3>1. CASE waiting' = waiting
      BY <3>1
    <3>2. ASSUME NEW c \in {e.client, notifyEvent[e.ocb]},
                 waiting' = [waiting EXCEPT ![c] = IF @ = e.ocb THEN None ELSE @]
          PROVE  waiting' \in [Clients -> Ocbs \cup {None}]
      BY <3>2
    <3> QED
      BY <1>7, <3>1, <3>2 DEF WalkNotify
  <2> QED
    BY <1>7, <2>1, <2>3, <2>4 DEF WalkNotify, Erase
<1>8. CASE Publish
  <2>1. NextIndex(queueHead) \in 0 .. HeadMod - 1
    BY ModInRange DEF NextIndex
  <2>2. NextIndex(queueBottom) \in 0 .. HeadMod - 1
    BY ModInRange DEF NextIndex
  <2>3. delayedQueue' \in Seq(Elements) /\ passed' \in Seq(Elements)
    BY <1>8 DEF Publish
  <2>4. filling' \in BOOLEAN
    BY <1>8 DEF Publish
  <2> QED
    BY <1>8, <2>1, <2>2, <2>3, <2>4 DEF Publish
<1> QED
  BY <1>1, <1>2, <1>3, <1>4, <1>5, <1>6, <1>7, <1>8 DEF ReceiveThread

\* The request in hand is one a client may send.
LEMMA RequestTyped ==
    ASSUME TypeOK, request # None
    PROVE  /\ request.client \in Clients
           /\ request.ocb \in Ocbs
           /\ request.op \in Ops \cup {"memcpy"}
           /\ request.arg \in Filters \cup {None}
  BY DEF TypeOK, Requests

\* The steps of the handlers keep the state well formed.
LEMMA TypeDispatch == TypeInv /\ Dispatch => TypeInv'
<1> SUFFICES ASSUME TypeInv, Dispatch PROVE TypeInv'
  OBVIOUS
<1> DEFINE c == request.client
           o == request.ocb
<1>a. TypeOK /\ DispatchBusy /\ CopyBounded /\ WalkLocks
  BY DEF TypeInv
<1>b. request # None
  BY <1>a DEF Dispatch, DispatchBusy, Refuse, LockForRequest, ReadFound, ReadEmpty,
     ReadDelayed, NotifyFound, NotifyNone, NotifyArm, io_open, OpenAt, CloseErase,
     CloseKeep, CloseFree, io_devctl, io_devctl_return, Handling
<1>c. c \in Clients /\ o \in Ocbs
  BY <1>a, <1>b, RequestTyped
<1>d. request.arg \in (SUBSET Ids) \cup {Torn}
  BY <1>a, <1>b, RequestTyped, CanManagerAssumption DEF Torn
<1>e. MsgReply(c, o) => blocked' \in [Clients -> Sends \cup {None}]
  BY <1>a, <1>c, ReplyTyped
<1>f. ASSUME NEW p \in Clients \cup {None} PROVE
        [notifyEvent EXCEPT ![o] = p] \in [Ocbs -> Clients \cup {None}]
  BY <1>a, <1>c DEF TypeOK
<1>g. ASSUME NEW i \in Nat PROVE [offset EXCEPT ![o] = i] \in [Ocbs -> Nat]
  BY <1>a, <1>c DEF TypeOK
<1>h. ASSUME Zeroed(o)
      PROVE  /\ filter' \in [Ocbs -> (SUBSET Ids) \cup {Torn}]
             /\ notifyEvent' \in [Ocbs -> Clients \cup {None}]
             /\ expected' \in [Ocbs -> Never .. MaxFrames]
             /\ lost' \in [Ocbs -> Nat]
             /\ interrupts' \in [Ocbs -> Nat]
  BY <1>a, <1>c, <1>h, CanManagerAssumption DEF Zeroed, TypeOK, Never
<1>i. queueHead \in Nat /\ queueBottom \in Nat
  BY <1>a, CanManagerAssumption DEF TypeOK
<1> HIDE DEF c, o
<1> USE DEF TypeInv, TypeOK, DispatchBusy, CopyBounded, WalkLocks, ring, queue, ocbs, clients,
        history
<1>1. CASE Refuse
  BY <1>1, <1>e DEF Refuse, c, o
<1>2. CASE LockForRequest
  BY <1>2 DEF LockForRequest
<1>3. CASE ReadFound
  <2>1. PICK i \in Unread(o) : /\ ReplyFrame(c, o, Slot(i))
                               /\ offset' = [offset EXCEPT ![o] = i + 1]
    BY <1>3 DEF ReadFound, c, o
  <2>2. i \in Nat /\ i + 1 \in Nat
    BY <1>i, <1>c, CanManagerAssumption DEF Unread, Start
  <2>3. /\ blocked' \in [Clients -> Sends \cup {None}]
        /\ expected' \in [Ocbs -> Never .. MaxFrames]
        /\ lost' \in [Ocbs -> Nat]
    <3> HIDE DEF TypeOK
    <3> QED
      BY <1>a, <1>c, <2>1, <2>2, ReplyFrameTyped
  <2>4. offset' \in [Ocbs -> Nat]
    BY <2>1, <2>2, <1>g
  <2> QED
    BY <1>3, <2>3, <2>4 DEF ReadFound, Handling, Return
<1>4. CASE ReadEmpty
  BY <1>4, <1>e, <1>g, <1>i DEF ReadEmpty, Handling, Return, c, o
<1>5. CASE ReadDelayed
  <2>1. [type |-> "ET_REPLY", client |-> c, ocb |-> o] \in Elements
    BY <1>c DEF Elements
  <2>2. delayedQueue' \in Seq(Elements)
    BY <1>5, <2>1 DEF ReadDelayed, c, o
  <2> QED
    BY <1>5, <2>2, <1>g, <1>i DEF ReadDelayed, Handling, Return, o
<1>6. CASE NotifyFound
  <2>1. PICK i \in Unread(o) : offset' = [offset EXCEPT ![o] = i]
    BY <1>6 DEF NotifyFound, o
  <2>2. i \in Nat
    BY <1>i, <1>c, CanManagerAssumption DEF Unread, Start
  <2>3. offset' \in [Ocbs -> Nat]
    BY <2>1, <2>2, <1>g
  <2> QED
    BY <1>6, <1>e, <2>3 DEF NotifyFound, Handling, Return, c, o
<1>7. CASE NotifyArm
  <2>1. [type |-> "ET_NOTIFY", client |-> c, ocb |-> o] \in Elements
    BY <1>c DEF Elements
  <2>2. delayedQueue' \in Seq(Elements)
    BY <1>7, <2>1 DEF NotifyArm, c, o
  <2>3. notifyEvent' \in [Ocbs -> Clients \cup {None}]
    BY <1>7, <1>c, <1>f DEF NotifyArm, c, o
  <2>4. waiting' \in [Clients -> Ocbs \cup {None}]
    BY <1>7, <1>c DEF NotifyArm, c, o
  <2>5. offset' \in [Ocbs -> Nat]
    BY <1>7, <1>g, <1>i DEF NotifyArm, o
  <2> QED
    BY <1>7, <1>e, <2>2, <2>3, <2>4, <2>5 DEF NotifyArm, Handling, Return, c, o
<1>8. CASE io_open
  <2>1. offset' \in [Ocbs -> Nat] /\ live' \subseteq Ocbs
    BY <1>8, <1>c, <1>g, <1>i DEF io_open, OpenAt, o
  <2> QED
    BY <1>8, <1>e, <1>h, <2>1 DEF io_open, OpenAt, Handling, Return, c, o
<1>9. CASE CloseErase
  <2> DEFINE e == Head(delayedQueue)
  <2>1. e \in Elements /\ Tail(delayedQueue) \in Seq(Elements)
    BY <1>9, HeadTail DEF CloseErase
  <2>2. e.client \in Clients
    BY <2>1 DEF Elements
  <2>3. MsgReply(e.client, o) => blocked' \in [Clients -> Sends \cup {None}]
    BY <1>a, <1>c, <2>2, ReplyTyped
  <2> QED
    BY <1>9, <2>1, <2>3 DEF CloseErase, Erase, o
<1>13. CASE CloseKeep
  <2>1. passed' \in Seq(Elements) /\ delayedQueue' \in Seq(Elements)
    BY <1>13, HeadTail DEF CloseKeep, Keep
  <2> QED
    BY <1>13, <2>1 DEF CloseKeep
<1>14. CASE NotifyNone
  BY <1>14, <1>e, <1>g, <1>i DEF NotifyNone, Handling, Return, c, o
<1>10. CASE CloseFree
  <2>1. offset' \in [Ocbs -> Nat] /\ live' \subseteq Ocbs
    BY <1>10, <1>g DEF CloseFree, o
  <2>2. waiting' \in [Clients -> Ocbs \cup {None}]
    BY <1>10 DEF CloseFree
  <2>3. delayedQueue' \in Seq(Elements) /\ passed' \in Seq(Elements)
    BY <1>10 DEF CloseFree
  <2> QED
    BY <1>10, <1>e, <1>h, <2>1, <2>2, <2>3 DEF CloseFree, Handling, Return, c, o
<1>11. CASE io_devctl
  <2>1. request' \in Requests /\ queueMutex # "dispatch"
    BY <1>11, <1>b DEF io_devctl, Requests, LockedOps, ReadOps, PollOps
  <2>2. filter' \in [Ocbs -> (SUBSET Ids) \cup {Torn}]
    BY <1>11, <1>c DEF io_devctl, o
  <2> QED
    BY <1>11, <2>1, <2>2 DEF io_devctl
<1>12. CASE io_devctl_return
  <2>1. queueMutex # "dispatch"
    BY <1>12 DEF io_devctl_return, LockedOps, ReadOps, PollOps
  <2>2. filter' \in [Ocbs -> (SUBSET Ids) \cup {Torn}]
    BY <1>12, <1>c, <1>d DEF io_devctl_return, o
  <2> QED
    BY <1>12, <1>e, <2>1, <2>2 DEF io_devctl_return, c, o
<1> QED
  BY <1>1, <1>2, <1>3, <1>4, <1>5, <1>6, <1>7, <1>8, <1>9, <1>10, <1>11, <1>12,
     <1>13, <1>14
  DEF Dispatch

\* So do the messages of the clients and the frames that arrive.
LEMMA TypeEnvironment == TypeInv /\ Environment => TypeInv'
<1> SUFFICES ASSUME TypeInv, Environment PROVE TypeInv'
  OBVIOUS
<1>1. ASSUME NEW c \in Clients, NEW o \in Ocbs, NEW op \in Ops,
             NEW arg \in Filters \cup {None}, Receive(c, o, op, arg)
      PROVE  TypeInv'
  <2>1. request' \in Requests /\ queueMutex # "dispatch"
    BY <1>1 DEF Receive, Requests, TypeInv, DispatchBusy
  <2>2. blocked' \in [Clients -> Sends \cup {None}]
    BY <1>1 DEF Receive, Sends, TypeInv, TypeOK
  <2>3. waiting' \in [Clients -> Ocbs \cup {None}]
    BY <1>1 DEF Receive, TypeInv, TypeOK
  <2> QED
    BY <1>1, <2>1, <2>2, <2>3
    DEF Receive, TypeInv, TypeOK, DispatchBusy, CopyBounded, WalkLocks, ring, queue, ocbs, history
<1>2. ASSUME NEW c \in Clients, io_unblock(c) PROVE TypeInv'
  <2> DEFINE o == blocked[c].ocb
  <2>1. o \in Ocbs
    BY <1>2 DEF io_unblock, TypeInv, TypeOK, Sends
  <2>2. blocked' \in [Clients -> Sends \cup {None}]
    BY <1>2, <2>1, ReplyTyped DEF io_unblock, TypeInv
  <2>3. interrupts' \in [Ocbs -> Nat]
    BY <1>2, <2>1 DEF io_unblock, TypeInv, TypeOK
  <2> QED
    BY <1>2, <2>2, <2>3
    DEF io_unblock, TypeInv, TypeOK, DispatchBusy, CopyBounded, WalkLocks, ring, queue, ocbs
<1> QED
  BY <1>1, <1>2 DEF Environment

\* A step that changes nothing does too.
LEMMA TypeStutter == TypeInv /\ UNCHANGED vars => TypeInv'
BY DEF TypeInv, TypeOK, DispatchBusy, CopyBounded, WalkLocks, vars, ring, queue, ocbs,
       clients, history

\* Every step keeps the state well formed.
LEMMA TypeStep == TypeInv /\ [Next]_vars => TypeInv'
  BY TypeReceiveThread, TypeDispatch, TypeEnvironment, TypeStutter DEF Next

\* Every variable keeps its type, the mutex is the dispatch thread's only while
\* it handles a request that takes it, and no more than MaxFrames frames are
\* ever copied: whatever the wrap of the 32-bit indices does.
THEOREM TypeCorrect == Spec => []TypeOK
<1>1. Init => TypeInv
  BY TypeInit
<1>2. TypeInv /\ [Next]_vars => TypeInv'
  BY TypeStep
<1>3. TypeInv => TypeOK
  BY DEF TypeInv
<1> QED
  BY <1>1, <1>2, <1>3, PTL DEF Spec

-----------------------------------------------------------------------------
(***************************************************************************)
(* The inductive invariant behind the safety properties, as long as the    *)
(* indices do not wrap (fewer than 2^32 frames).                           *)
(***************************************************************************)

\* The readable frames, and the one being published, are in their slots.  The
\* window is one slot short of the ring, so the slot at the head is outside.
RingInv ==
    /\ queueHead = IF pc \in {"lock", "walk"} THEN received - 1 ELSE received
    /\ filling <=> queueHead < N
    /\ queueBottom = IF filling THEN 0 ELSE queueHead - N + 1
    /\ \A i \in queueBottom .. received - 1 : Slot(i).n = i

\* Elements belong to open descriptors, also while one is being closed.
ListInv ==
    /\ \A e \in Pending : e.ocb \in live
    /\ request # None =>
         (request.op \in {"open", "append"} <=> request.ocb \notin live)
    /\ queueMutex = "free" => passed = <<>>
    /\ queueMutex = "dispatch" /\ request.op # "close" => passed = <<>>
    /\ queueMutex = "dispatch" /\ request.op = "close" =>
         \A e \in Members(passed) : e.ocb # request.ocb

\* A walk takes the elements it leaves in the list from the head to the frame
\* after it; the clients of a descriptor are never ahead of its pointer.
PointerInv ==
    /\ \A o \in Ocbs : expected[o] \in 0 .. offset[o]
    /\ \A o \in Ocbs : offset[o] <= IF pc = "walk" THEN queueHead + 1 ELSE queueHead
    /\ pc # "walk" => \A e \in Pending : AtHead(e)
    /\ pc = "walk" =>
         /\ \A e \in Members(passed) : offset[e.ocb] = queueHead + 1
         /\ \A e \in Members(delayedQueue) :
              offset[e.ocb] \in {queueHead, queueHead + 1}

SafetyInv == RingInv /\ ListInv /\ PointerInv

-----------------------------------------------------------------------------
\* What a write to the slot at the head leaves alone.
LEMMA SlotKept ==
    ASSUME TypeOK, NEW i \in Nat, NEW h \in Nat, i < h, h < i + N, NEW frame,
           canMessageQueue' = [canMessageQueue EXCEPT ![h % N] = frame]
    PROVE  Slot(i)' = Slot(i)
<1>1. i % N # h % N
  BY ModDistinct, CanManagerAssumption
<1>2. i % N \in 0 .. N - 1
  BY ModInRange, CanManagerAssumption
<1> QED
  BY <1>1, <1>2 DEF Slot, TypeOK

\* The empty ring satisfies the invariant of the ring.
LEMMA RingInit == Init => RingInv
  BY CanManagerAssumption DEF Init, RingInv

\* Every step keeps it, until the head wraps.
LEMMA RingStep ==
    ASSUME MaxFrames < HeadMod, TypeInv, RingInv, [Next]_vars
    PROVE  RingInv'
<1> USE CanManagerAssumption
<1>0. /\ queueHead \in Nat /\ queueBottom \in Nat /\ received \in 0 .. MaxFrames
      /\ TypeOK
  BY DEF TypeInv, TypeOK
<1>1. ASSUME UNCHANGED <<ring, pc>> PROVE RingInv'
  BY <1>1 DEF RingInv, ring, Slot
<1>2. CASE UNCHANGED vars
  BY <1>1, <1>2 DEF vars
<1>3. CASE Environment
  BY <1>1, <1>3 DEF Environment, Receive, io_unblock
<1>4. CASE Dispatch
  BY <1>1, <1>4 DEF Dispatch, Refuse, LockForRequest, ReadFound, ReadEmpty, ReadDelayed,
     NotifyFound, NotifyNone, NotifyArm, io_open, OpenAt, CloseErase, CloseKeep, CloseFree,
     io_devctl, io_devctl_return, Handling, Return, ring
<1>5. CASE ReadMessage
  <2>1. received = queueHead /\ received' = received /\ queueHead' = queueHead
    BY <1>5 DEF ReadMessage, RingInv
  <2>2. ASSUME NEW i \in queueBottom .. received - 1 PROVE Slot(i)' = Slot(i)
    <3>1. i \in Nat /\ i < queueHead /\ queueHead < i + N
      BY <1>0, <2>1, <2>2 DEF RingInv
    <3> QED
      BY <1>0, <1>5, <3>1, SlotKept DEF ReadMessage
  <2> QED
    BY <1>5, <2>1, <2>2 DEF ReadMessage, RingInv
<1>6. ASSUME NEW id \in Ids, ReadMessageDone(id) PROVE RingInv'
  <2>1. received = queueHead /\ received' = received + 1 /\ queueHead' = queueHead
    BY <1>6 DEF ReadMessageDone, RingInv
  <2>2. ASSUME NEW i \in queueBottom .. received - 1 PROVE Slot(i)' = Slot(i)
    <3>1. i \in Nat /\ i < queueHead /\ queueHead < i + N
      BY <1>0, <2>1, <2>2 DEF RingInv
    <3> QED
      BY <1>0, <1>6, <3>1, SlotKept DEF ReadMessageDone
  <2>3. Slot(queueHead)'.n = received
    <3>1. queueHead % N \in 0 .. N - 1
      BY <1>0, ModInRange
    <3> QED
      BY <1>0, <1>6, <2>1, <3>1 DEF ReadMessageDone, Slot, TypeOK
  <2>4. \A i \in queueBottom .. received' - 1 : Slot(i)'.n = i
    BY <1>0, <2>1, <2>2, <2>3 DEF RingInv
  <2> QED
    BY <1>0, <1>6, <2>1, <2>4 DEF ReadMessageDone, RingInv
<1>7. CASE LockForWalk
  BY <1>7 DEF LockForWalk, RingInv, ring, Slot
<1>8. CASE WalkSkip \/ WalkReject \/ WalkReply \/ WalkNotify
  BY <1>1, <1>8 DEF WalkSkip, WalkReject, WalkReply, WalkNotify
<1>9. CASE Publish
  <2>1. queueHead = received - 1 /\ received' = received /\ pc' = "read"
    BY <1>9 DEF Publish, RingInv
  <2>2. queueHead' = queueHead + 1
    BY <1>0, <1>9, <2>1, ModSmall DEF Publish, NextIndex
  <2>3. filling' <=> queueHead' < N
    <3>1. filling' = (filling /\ ~ (N - 1 < queueHead'))
      BY <1>9 DEF Publish, RingFull
    <3>2. filling <=> queueHead < N
      BY DEF RingInv
    <3>3. ~ (N - 1 < queueHead') <=> queueHead' < N
      BY <1>0, <2>2
    <3>4. queueHead' < N => queueHead < N
      BY <1>0, <2>2
    <3> QED
      BY <3>1, <3>2, <3>3, <3>4, Zenon
  <2>4. queueBottom' = IF filling' THEN 0 ELSE queueHead' - N + 1
    <3>1. CASE filling'
      BY <1>9, <3>1 DEF Publish, RingInv
    <3>2. CASE ~ filling'
      <4>1. queueBottom' = NextIndex(queueBottom)
        BY <1>9, <3>2 DEF Publish
      <4>2. queueBottom + 1 = queueHead' - N + 1
        BY <1>0, <2>2, <2>3, <3>2 DEF RingInv
      <4>3. queueBottom + 1 \in 0 .. HeadMod - 1
        BY <1>0, <2>1, <2>2, <4>2
      <4>4. NextIndex(queueBottom) = queueBottom + 1
        BY <4>3, ModSmall DEF NextIndex
      <4> QED
        BY <3>2, <4>1, <4>2, <4>4
    <3> QED
      BY <3>1, <3>2
  <2>5. queueBottom' >= queueBottom
    BY <1>0, <2>2, <2>3, <2>4 DEF RingInv
  <2>6. \A i \in queueBottom' .. received' - 1 : Slot(i)'.n = i
    <3>1. canMessageQueue' = canMessageQueue
      BY <1>9 DEF Publish
    <3>2. queueBottom' \in Nat
      BY <1>0, <2>2, <2>3, <2>4
    <3> QED
      BY <1>0, <2>1, <2>5, <3>1, <3>2 DEF RingInv, Slot
  <2>7. pc' \notin {"lock", "walk"}
    BY <1>9 DEF Publish
  <2>8. filling' \in BOOLEAN
    BY <1>9 DEF Publish
  <2>9. queueHead' = IF pc' \in {"lock", "walk"} THEN received' - 1 ELSE received'
    BY <1>0, <2>1, <2>2, <2>7
  <2> QED
    BY <2>3, <2>4, <2>6, <2>8, <2>9, Zenon DEF RingInv
<1> QED
  BY <1>2, <1>3, <1>4, <1>5, <1>6, <1>7, <1>8, <1>9 DEF Next, ReceiveThread

\* A slot that a handler can reach is whole: it is not the one being written.
LEMMA RingReadable ==
    ASSUME TypeOK, RingInv
    PROVE  ReadableIntact
<1>1. queueHead \in Nat /\ queueBottom \in Nat /\ received >= queueHead
      /\ received \in Nat
  BY CanManagerAssumption DEF TypeOK, RingInv
<1>2. queueHead - queueBottom <= N - 1
  BY <1>1, CanManagerAssumption DEF RingInv
<1>3. \A i \in queueBottom .. queueHead - 1 : Slot(i).n = i
  BY <1>1 DEF RingInv
<1>4. ASSUME NEW i \in queueBottom .. queueHead - 1 PROVE Slot(i) # Garbage
  BY <1>1, <1>3, <1>4 DEF Garbage
<1> QED
  BY <1>2, <1>3, <1>4 DEF ReadableIntact

-----------------------------------------------------------------------------
\* What a queue holds, when it is empty, taken from or appended to.
LEMMA MembersEmpty == Members(<<>>) = {}
  BY DEF Members

\* The first element and the others.
LEMMA MembersHeadTail ==
    ASSUME NEW S, NEW s \in Seq(S), s # <<>>
    PROVE  /\ Head(s) \in Members(s)
           /\ Members(Tail(s)) \subseteq Members(s)
<1>1. Len(s) \in Nat \ {0} /\ Head(s) = s[1]
  BY HeadTail
<1>2. ASSUME NEW i \in 1 .. Len(Tail(s)) PROVE Tail(s)[i] \in Members(s)
  <2>1. i \in 1 .. Len(s) - 1 /\ i + 1 \in 1 .. Len(s)
    BY <1>1, HeadTail
  <2>2. Tail(s)[i] = s[i + 1]
    BY <2>1, HeadTail
  <2> QED
    BY <2>1, <2>2 DEF Members
<1> QED
  BY <1>1, <1>2 DEF Members

\* An appended element and those there were.
LEMMA MembersAppend ==
    ASSUME NEW S, NEW s \in Seq(S), NEW e \in S
    PROVE  Members(Append(s, e)) = Members(s) \cup {e}
<1>1. /\ Len(s) \in Nat
      /\ Len(Append(s, e)) = Len(s) + 1
      /\ \A i \in 1 .. Len(s) : Append(s, e)[i] = s[i]
      /\ Append(s, e)[Len(s) + 1] = e
  OBVIOUS
<1>2. ASSUME NEW x \in Members(Append(s, e)) PROVE x \in Members(s) \cup {e}
  <2>1. PICK i \in 1 .. Len(Append(s, e)) : x = Append(s, e)[i]
    BY DEF Members
  <2>2. i \in 1 .. Len(s) \/ i = Len(s) + 1
    BY <1>1
  <2> QED
    BY <1>1, <2>1, <2>2 DEF Members
<1>3. Members(s) \subseteq Members(Append(s, e))
  BY <1>1 DEF Members
<1>4. e \in Members(Append(s, e))
  BY <1>1 DEF Members
<1> QED
  BY <1>2, <1>3, <1>4

\* How a walk moves the members of the list.
LEMMA KeepMembers ==
    ASSUME TypeOK, delayedQueue # <<>>, Keep
    PROVE  /\ Head(delayedQueue) \in Members(delayedQueue)
           /\ Members(passed)' = Members(passed) \cup {Head(delayedQueue)}
           /\ Members(delayedQueue)' \subseteq Members(delayedQueue)
<1>1. delayedQueue \in Seq(Elements) /\ passed \in Seq(Elements)
  BY DEF TypeOK
<1>2. Head(delayedQueue) \in Elements
  BY <1>1, HeadTail
<1> QED
  BY <1>1, <1>2, MembersHeadTail, MembersAppend DEF Keep

\* An erase leaves alone what the walk has passed.
LEMMA EraseMembers ==
    ASSUME TypeOK, delayedQueue # <<>>, Erase
    PROVE  /\ Head(delayedQueue) \in Members(delayedQueue)
           /\ Members(passed)' = Members(passed)
           /\ Members(delayedQueue)' \subseteq Members(delayedQueue)
<1>1. delayedQueue \in Seq(Elements)
  BY DEF TypeOK
<1> QED
  BY <1>1, MembersHeadTail DEF Erase, Members

\* The empty list refers to no descriptor.
LEMMA ListInit == Init => ListInv
  BY MembersEmpty DEF Init, ListInv, Pending

\* No step leaves a request of a closed descriptor in the list.
LEMMA ListStep ==
    ASSUME TypeInv, ListInv, [Next]_vars
    PROVE  ListInv'
<1>0. TypeOK /\ DispatchBusy
  BY DEF TypeInv
<1>1. ASSUME UNCHANGED <<queue, live, queueMutex, request>> PROVE ListInv'
  BY <1>1 DEF ListInv, queue, Pending, Members
<1>2. CASE UNCHANGED vars
  BY <1>1, <1>2 DEF vars, ocbs
<1>3. CASE ReadMessage \/ \E id \in Ids : ReadMessageDone(id)
  BY <1>1, <1>3 DEF ReadMessage, ReadMessageDone, ocbs
<1>4. CASE LockForWalk
  BY <1>4 DEF LockForWalk, ListInv, queue, ocbs, Pending, Members
<1>5. ASSUME pc = "walk", delayedQueue # <<>>, Keep \/ Erase,
             UNCHANGED <<live, queueMutex, request>>
      PROVE  ListInv'
  <2>1. queueMutex = "receive"
    BY <1>5 DEF TypeInv, WalkLocks
  <2>2. Pending' \subseteq Pending
    BY <1>0, <1>5, KeepMembers, EraseMembers DEF Pending
  <2> QED
    BY <1>5, <2>1, <2>2 DEF ListInv
<1>6. CASE WalkSkip \/ WalkReject \/ WalkReply \/ WalkNotify
  BY <1>5, <1>6 DEF WalkSkip, WalkReject, WalkReply, WalkNotify, ocbs
<1>7. CASE Publish
  <2>1. Pending' \subseteq Pending
    BY <1>7, MembersEmpty DEF Publish, Pending, Members
  <2> QED
    BY <1>7, <2>1 DEF Publish, ListInv, ocbs
<1>8. CASE Refuse
  BY <1>8 DEF Refuse, ListInv, queue, ocbs, Pending, Members
<1>9. CASE LockForRequest
  BY <1>9, MembersEmpty DEF LockForRequest, ListInv, queue, ocbs, Pending, Members
<1>10. ASSUME Handling(LockedOps \ {"close"}), Return, passed' = passed
       PROVE  passed' = <<>> /\ request' = None /\ queueMutex' = "free"
  BY <1>10 DEF Handling, Return, ListInv
<1>11. CASE ReadFound \/ ReadEmpty \/ NotifyFound \/ NotifyNone
  <2>1. Handling(LockedOps \ {"close"}) /\ Return /\ UNCHANGED <<queue, live>>
    BY <1>11 DEF ReadFound, ReadEmpty, NotifyFound, NotifyNone, Handling, LockedOps,
       ReadOps, PollOps
  <2> QED
    BY <1>10, <2>1 DEF ListInv, queue, Pending, Members
<1>12. ASSUME NEW e \in Elements, e.ocb = request.ocb, Handling({"read", "notify"}),
              delayedQueue' = Append(delayedQueue, e), Return,
              UNCHANGED <<passed, live>>
       PROVE  ListInv'
  <2>1. Handling(LockedOps \ {"close"})
    BY <1>12 DEF Handling, LockedOps, ReadOps, PollOps
  <2>2. request.ocb \in live
    BY <1>0, <1>12 DEF Handling, DispatchBusy, ListInv
  <2>3. Pending' = Pending \cup {e}
    <3>1. delayedQueue \in Seq(Elements)
      BY <1>0 DEF TypeOK
    <3>2. Members(delayedQueue') = Members(delayedQueue) \cup {e}
      BY <1>12, <3>1, MembersAppend
    <3>3. Members(passed') = Members(passed)
      BY <1>12
    <3> QED
      BY <3>2, <3>3 DEF Pending
  <2>4. passed' = <<>> /\ request' = None /\ queueMutex' = "free"
    BY <1>10, <1>12, <2>1
  <2>5. \A f \in Pending' : f.ocb \in live'
    BY <1>12, <2>2, <2>3 DEF ListInv
  <2> QED
    BY <2>4, <2>5 DEF ListInv
<1>13. CASE ReadDelayed
  <2> DEFINE e == [type |-> "ET_REPLY", client |-> request.client, ocb |-> request.ocb]
  <2>1. e \in Elements /\ e.ocb = request.ocb
    BY <1>0, <1>13, RequestTyped DEF ReadDelayed, Handling, DispatchBusy, Elements
  <2> QED
    BY <1>12, <1>13, <2>1 DEF ReadDelayed, Handling
<1>14. CASE NotifyArm
  <2> DEFINE e == [type |-> "ET_NOTIFY", client |-> request.client, ocb |-> request.ocb]
  <2>1. e \in Elements /\ e.ocb = request.ocb
    BY <1>0, <1>14, RequestTyped DEF NotifyArm, Handling, DispatchBusy, Elements
  <2> QED
    BY <1>12, <1>14, <2>1 DEF NotifyArm, Handling
<1>15. CASE io_open
  <2>1. Handling(LockedOps \ {"close"}) /\ Return /\ UNCHANGED queue
        /\ live \subseteq live'
    BY <1>15 DEF io_open, OpenAt, Handling, LockedOps
  <2> QED
    BY <1>10, <2>1 DEF ListInv, queue, Pending, Members
<1>16. CASE CloseErase
  <2>1. Pending' \subseteq Pending /\ Members(passed)' = Members(passed)
    BY <1>0, <1>16, EraseMembers DEF CloseErase, Pending
  <2> QED
    BY <1>16, <2>1 DEF CloseErase, Handling, ListInv, ocbs
<1>17. CASE CloseKeep
  <2>1. /\ Pending' \subseteq Pending
        /\ Members(passed)' = Members(passed) \cup {Head(delayedQueue)}
    BY <1>0, <1>17, KeepMembers DEF CloseKeep, Pending
  <2> QED
    BY <1>17, <2>1 DEF CloseKeep, Handling, ListInv, ocbs
<1>18. CASE CloseFree
  <2>1. Pending' = Members(passed)
    BY <1>18, MembersEmpty DEF CloseFree, Pending, Members
  <2>2. \A e \in Members(passed) : e.ocb # request.ocb /\ e.ocb \in live
    BY <1>18 DEF CloseFree, Handling, ListInv, Pending
  <2> QED
    BY <1>18, <2>1, <2>2 DEF CloseFree, Return, ListInv
<1>19. CASE io_devctl
  <2>1. request'.op = "memcpy" /\ request'.ocb = request.ocb
    BY <1>0, <1>19 DEF io_devctl, TypeOK, Requests
  <2>2. queueMutex # "dispatch"
    BY <1>0, <1>19 DEF io_devctl, DispatchBusy, LockedOps, ReadOps, PollOps
  <2>3. request.ocb \in live
    BY <1>19 DEF io_devctl, ListInv
  <2> QED
    BY <1>19, <2>1, <2>2, <2>3 DEF io_devctl, ListInv, queue, Pending, Members
<1>20. CASE io_devctl_return
  <2>1. queueMutex # "dispatch"
    BY <1>0, <1>20 DEF io_devctl_return, DispatchBusy, LockedOps, ReadOps, PollOps
  <2> QED
    BY <1>20, <2>1 DEF io_devctl_return, ListInv, queue, Pending, Members
<1>21. ASSUME NEW c \in Clients, NEW o \in Ocbs, NEW op \in Ops,
              NEW arg \in Filters \cup {None}, Receive(c, o, op, arg)
       PROVE  ListInv'
  BY <1>0, <1>21 DEF Receive, DispatchBusy, ListInv, queue, ocbs, Pending, Members
<1>22. ASSUME NEW c \in Clients, io_unblock(c) PROVE ListInv'
  BY <1>1, <1>22 DEF io_unblock, ocbs
<1> QED
  BY <1>2, <1>3, <1>4, <1>6, <1>7, <1>8, <1>9, <1>11, <1>13, <1>14, <1>15, <1>16,
     <1>17, <1>18, <1>19, <1>20, <1>21, <1>22
  DEF Next, ReceiveThread, Dispatch, Environment

-----------------------------------------------------------------------------
\* What the ring invariant says of a handler's search: it starts at or after
\* the pointer and finds frame i in slot i.
LEMMA Search ==
    ASSUME TypeOK, RingInv, NEW o \in Ocbs, offset[o] <= queueHead
    PROVE  /\ Start(o) \in Nat /\ Start(o) >= offset[o] /\ Start(o) <= queueHead
           /\ \A i \in Unread(o) :
                /\ i \in Nat /\ i >= offset[o] /\ i < queueHead
                /\ Slot(i).n = i
           /\ offset[o] = queueHead => Unread(o) = {}
<1>1. /\ queueHead \in Nat /\ queueBottom \in Nat /\ queueBottom <= queueHead
      /\ received \in Nat /\ received >= queueHead /\ offset[o] \in Nat
  BY CanManagerAssumption DEF TypeOK, RingInv
<1>2. /\ Start(o) \in Nat /\ Start(o) >= offset[o] /\ Start(o) <= queueHead
      /\ Start(o) >= queueBottom
      /\ offset[o] = queueHead => Start(o) = queueHead
  BY <1>1 DEF Start
<1>3. Unread(o) = Start(o) .. queueHead - 1
  BY <1>1, <1>2 DEF Unread
<1>4. ASSUME NEW i \in Unread(o)
      PROVE  i \in Nat /\ i >= offset[o] /\ i < queueHead /\ Slot(i).n = i
  <2>1. i \in queueBottom .. received - 1
    BY <1>1, <1>2, <1>3
  <2> QED
    BY <1>1, <1>2, <1>3, <2>1 DEF RingInv
<1> QED
  BY <1>1, <1>2, <1>3, <1>4

\* A reply with frame i, at or after the pointer, which then moves past it.
LEMMA ReplyInOrder ==
    ASSUME TypeOK, NEW c \in Clients, NEW o \in Ocbs, NEW i \in Nat,
           Slot(i).n = i, offset[o] <= i,
           \A p \in Ocbs : expected[p] \in 0 .. offset[p],
           ReplyFrame(c, o, Slot(i)),
           offset' = [offset EXCEPT ![o] = i + 1]
    PROVE  \A p \in Ocbs : expected'[p] \in 0 .. offset'[p]
<1>1. offset[o] \in Nat /\ expected[o] \in 0 .. offset[o]
  BY DEF TypeOK
<1>2. AfterFrame(o, Slot(i)) = i + 1
  BY <1>1 DEF AfterFrame, Never
<1>3. expected' = expected \/ expected' = [expected EXCEPT ![o] = i + 1]
  BY <1>2 DEF ReplyFrame
<1>4. ASSUME NEW p \in Ocbs PROVE expected'[p] \in 0 .. offset'[p]
  <2>1. CASE p = o
    <3>1. offset'[p] = i + 1 /\ expected'[p] \in {expected[o], i + 1}
      BY <1>3, <2>1 DEF TypeOK
    <3> QED
      BY <1>1, <3>1
  <2>2. CASE p # o
    BY <1>3, <2>2 DEF TypeOK
  <2> QED
    BY <2>1, <2>2
<1> QED
  BY <1>4

\* There is no pointer at the start.
LEMMA PointerInit == Init => PointerInv
  BY MembersEmpty, CanManagerAssumption DEF Init, PointerInv, Pending

\* One step of a walk that leaves the pointers of the other descriptors alone.
LEMMA PointerWalk ==
    ASSUME TypeInv, RingInv, ListInv, PointerInv,
           WalkSkip \/ WalkReject \/ WalkReply \/ WalkNotify
    PROVE  PointerInv'
<1> DEFINE e == Head(delayedQueue)
<1>0. /\ TypeOK /\ pc = "walk" /\ pc' = "walk" /\ delayedQueue # <<>>
      /\ queueHead' = queueHead /\ queueHead \in Nat
  BY CanManagerAssumption
  DEF WalkSkip, WalkReject, WalkReply, WalkNotify, ring, TypeInv, TypeOK
<1>1. /\ e \in Members(delayedQueue)
      /\ e \in Elements /\ e.ocb \in Ocbs /\ e.client \in Clients
  <2>1. delayedQueue \in Seq(Elements)
    BY <1>0 DEF TypeOK
  <2>2. e \in Members(delayedQueue) /\ e \in Elements
    BY <1>0, <2>1, MembersHeadTail, HeadTail
  <2> QED
    BY <2>2 DEF Elements
<1>2. /\ Members(delayedQueue)' \subseteq Members(delayedQueue)
      /\ Members(passed)' \subseteq Members(passed) \cup {e}
      /\ Erase => Members(passed)' = Members(passed)
  BY <1>0, KeepMembers, EraseMembers DEF WalkSkip, WalkReject, WalkReply, WalkNotify
<1>3. \A f \in Members(passed) \cup Members(delayedQueue) : f.ocb \in Ocbs
  BY <1>0 DEF ListInv, Pending, TypeOK
<1> HIDE DEF e
<1>4. CASE WalkSkip
  <2>1. offset' = offset /\ expected' = expected
    BY <1>4 DEF WalkSkip, ocbs, history
  <2>2. offset[e.ocb] = queueHead + 1
    BY <1>0, <1>1, <1>4 DEF WalkSkip, AtHead, PointerInv, e
  <2>3. \A f \in Members(passed)' : offset[f.ocb] = queueHead + 1
    BY <1>0, <1>2, <2>2 DEF PointerInv
  <2> QED
    BY <1>0, <1>2, <2>1, <2>3 DEF PointerInv
<1>5. CASE WalkNotify
  <2>1. offset' = offset /\ expected' = expected /\ Erase
    BY <1>5 DEF WalkNotify, history
  <2> QED
    BY <1>0, <1>2, <2>1 DEF PointerInv
<1>6. ASSUME offset[e.ocb] = queueHead,
             offset' = [offset EXCEPT ![e.ocb] = queueHead + 1],
             \A o \in Ocbs : expected'[o] \in 0 .. offset'[o]
      PROVE  PointerInv'
  <2>1. \A o \in Ocbs : offset'[o] = IF o = e.ocb THEN queueHead + 1 ELSE offset[o]
    BY <1>0, <1>1, <1>6 DEF TypeOK
  <2>2. \A o \in Ocbs : offset'[o] <= queueHead + 1
    <3>1. \A o \in Ocbs : offset[o] <= queueHead + 1
      BY <1>0 DEF PointerInv
    <3> QED
      BY <1>0, <2>1, <3>1
  <2>3. \A f \in Members(passed)' : offset'[f.ocb] = queueHead + 1
    BY <1>0, <1>1, <1>2, <1>3, <2>1 DEF PointerInv
  <2>4. \A f \in Members(delayedQueue)' :
          offset'[f.ocb] \in {queueHead, queueHead + 1}
    BY <1>0, <1>2, <1>3, <2>1 DEF PointerInv
  <2> QED
    BY <1>0, <1>6, <2>2, <2>3, <2>4 DEF PointerInv
<1>7. CASE WalkReject
  <2>1. offset[e.ocb] = queueHead /\ expected' = expected
        /\ offset' = [offset EXCEPT ![e.ocb] = queueHead + 1]
    BY <1>7 DEF WalkReject, AtHead, Advance, history, e
  <2>2. \A o \in Ocbs : expected'[o] \in 0 .. offset'[o]
    BY <1>0, <1>1, <2>1 DEF PointerInv, TypeOK
  <2> QED
    BY <1>6, <2>1, <2>2
<1>8. CASE WalkReply
  <2>1. offset[e.ocb] = queueHead
        /\ offset' = [offset EXCEPT ![e.ocb] = queueHead + 1]
        /\ ReplyFrame(e.client, e.ocb, Slot(queueHead))
    BY <1>8 DEF WalkReply, AtHead, Advance, e
  <2>2. Slot(queueHead).n = queueHead
    BY <1>0, CanManagerAssumption DEF RingInv, TypeOK
  <2>3. \A o \in Ocbs : expected[o] \in 0 .. offset[o]
    BY DEF PointerInv
  <2>4. \A o \in Ocbs : expected'[o] \in 0 .. offset'[o]
    <3>1. queueHead \in Nat /\ offset[e.ocb] <= queueHead
      BY <1>0, <2>1
    <3> QED
      BY <1>0, <1>1, <2>1, <2>2, <2>3, <3>1, ReplyInOrder
  <2> QED
    BY <1>6, <2>1, <2>4
<1> QED
  BY <1>4, <1>5, <1>7, <1>8

\* Steps outside a walk that touch no pointer: the list may lose elements.
LEMMA PointerQuiet ==
    ASSUME PointerInv, pc # "walk", pc' # "walk",
           queueHead' = queueHead, offset' = offset, expected' = expected,
           Pending' \subseteq Pending
    PROVE  PointerInv'
  BY DEF PointerInv, AtHead

\* A handler that moves the pointer of its descriptor to the head.
LEMMA PointerToHead ==
    ASSUME TypeOK, PointerInv, pc # "walk", pc' = pc, NEW o \in Ocbs,
           queueHead' = queueHead, expected' = expected,
           offset' = [offset EXCEPT ![o] = queueHead],
           \A e \in Pending' : e \in Pending \/ e.ocb = o,
           \A e \in Pending : e.ocb \in Ocbs
    PROVE  PointerInv'
<1>1. queueHead \in Nat /\ offset \in [Ocbs -> Nat]
  BY CanManagerAssumption DEF TypeOK
<1>2. \A p \in Ocbs : offset[p] <= queueHead /\ expected[p] \in 0 .. offset[p]
  BY DEF PointerInv
<1>3. \A p \in Ocbs : offset'[p] = IF p = o THEN queueHead ELSE offset[p]
  BY <1>1
<1>4. \A p \in Ocbs : offset'[p] <= queueHead /\ expected[p] \in 0 .. offset'[p]
  BY <1>1, <1>2, <1>3
<1>5. \A e \in Pending' : offset'[e.ocb] = queueHead
  BY <1>3 DEF PointerInv, AtHead
<1> QED
  BY <1>4, <1>5 DEF PointerInv, AtHead

\* Every step keeps the pointers of delayed requests at the head, until it wraps.
LEMMA PointerStep ==
    ASSUME MaxFrames < HeadMod, TypeInv, RingInv, ListInv, PointerInv, [Next]_vars
    PROVE  PointerInv'
<1>0. /\ TypeOK /\ DispatchBusy /\ WalkLocks
      /\ queueHead \in Nat /\ received \in 0 .. MaxFrames /\ queueBottom \in Nat
      /\ offset \in [Ocbs -> Nat] /\ queueBottom <= queueHead
  BY CanManagerAssumption DEF TypeInv, TypeOK, RingInv
<1>1. ASSUME UNCHANGED <<queue, offset, expected, queueHead, pc>> PROVE PointerInv'
  BY <1>1 DEF PointerInv, Pending, Members, AtHead, queue
<1>2. CASE UNCHANGED vars
  BY <1>1, <1>2 DEF vars, ring, ocbs, history
<1>3. CASE Environment
  <2>1. ASSUME NEW c \in Clients, NEW o \in Ocbs, NEW op \in Ops,
               NEW arg \in Filters \cup {None}, Receive(c, o, op, arg)
        PROVE  UNCHANGED <<queue, offset, expected, queueHead, pc>>
    BY <2>1 DEF Receive, ring, ocbs, history
  <2>2. ASSUME NEW c \in Clients, io_unblock(c)
        PROVE  UNCHANGED <<queue, offset, expected, queueHead, pc>>
    BY <2>2 DEF io_unblock, ring, ocbs
  <2>3. UNCHANGED <<queue, offset, expected, queueHead, pc>>
    BY <1>3, <2>1, <2>2 DEF Environment
  <2> QED
    BY <1>1, <2>3
<1>4. CASE Refuse \/ LockForRequest \/ io_devctl \/ io_devctl_return
  BY <1>1, <1>4 DEF Refuse, LockForRequest, io_devctl, io_devctl_return, ring, ocbs,
     history
<1>5. CASE ReadMessage \/ \E id \in Ids : ReadMessageDone(id)
  <2>1. /\ pc # "walk" /\ pc' # "walk" /\ UNCHANGED <<queueHead, queue, offset, expected>>
    BY <1>5 DEF ReadMessage, ReadMessageDone, ocbs, history
  <2>2. Pending' = Pending
    BY <2>1 DEF Pending, Members, queue
  <2> QED
    BY <2>1, <2>2, PointerQuiet
<1>6. CASE LockForWalk
  <2>1. /\ pc # "walk" /\ pc' = "walk" /\ queueMutex = "free"
        /\ UNCHANGED <<queueHead, queue, offset, expected>>
    BY <1>6 DEF LockForWalk, ring, ocbs, history
  <2>2. passed' = <<>> /\ Members(delayedQueue)' = Members(delayedQueue)
    BY <2>1 DEF ListInv, Members, queue
  <2>3. \A e \in Members(delayedQueue) : offset[e.ocb] = queueHead
    BY <2>1 DEF PointerInv, Pending, AtHead
  <2>4. Members(passed)' = {}
    BY <2>2, MembersEmpty
  <2>5. \A o \in Ocbs : offset[o] <= queueHead + 1
    BY <1>0, <2>1 DEF PointerInv
  <2> QED
    BY <2>1, <2>2, <2>3, <2>4, <2>5 DEF PointerInv
<1>7. CASE WalkSkip \/ WalkReject \/ WalkReply \/ WalkNotify
  BY <1>7, PointerWalk
<1>8. CASE Publish
  <2>1. /\ pc = "walk" /\ pc' = "read" /\ UNCHANGED <<offset, expected>>
    BY <1>8 DEF Publish, ocbs, history
  <2>2. queueHead' = queueHead + 1
    <3>1. queueHead + 1 \in 0 .. HeadMod - 1
      BY <1>0, <2>1, CanManagerAssumption DEF RingInv
    <3> QED
      BY <1>8, <3>1, ModSmall, CanManagerAssumption DEF Publish, NextIndex
  <2>3. Pending' = Members(passed)
    BY <1>8, MembersEmpty DEF Publish, Pending, Members
  <2> QED
    BY <1>0, <2>1, <2>2, <2>3 DEF PointerInv, AtHead
<1>9. ASSUME queueMutex = "dispatch"
      PROVE  /\ pc # "walk" /\ request.ocb \in Ocbs /\ request.client \in Clients
             /\ offset[request.ocb] <= queueHead
             /\ \A e \in Pending : e.ocb \in Ocbs
  <2>1. pc # "walk" /\ request.ocb \in Ocbs /\ request.client \in Clients
    BY <1>0, <1>9, RequestTyped DEF WalkLocks, DispatchBusy
  <2>2. \A e \in Pending : e.ocb \in Ocbs
    BY <1>0 DEF ListInv, TypeOK
  <2> QED
    BY <2>1, <2>2 DEF PointerInv
<1>10. CASE ReadEmpty \/ NotifyNone
  <2>1. /\ queueMutex = "dispatch" /\ pc' = pc
        /\ UNCHANGED <<queueHead, queue, expected>>
        /\ offset' = [offset EXCEPT ![request.ocb] = queueHead]
    BY <1>10 DEF ReadEmpty, NotifyNone, Handling, ring, history
  <2>2. Pending' = Pending
    BY <2>1 DEF Pending, Members, queue
  <2> QED
    BY <1>0, <1>9, <2>1, <2>2, PointerToHead
<1>11. CASE ReadDelayed \/ NotifyArm
  <2>1. /\ queueMutex = "dispatch" /\ pc' = pc
        /\ UNCHANGED <<queueHead, passed, expected>>
        /\ offset' = [offset EXCEPT ![request.ocb] = queueHead]
    BY <1>11 DEF ReadDelayed, NotifyArm, Handling, ring, history
  <2>2. PICK t \in {"ET_REPLY", "ET_NOTIFY"} : delayedQueue' = Append(delayedQueue,
          [type |-> t, client |-> request.client, ocb |-> request.ocb])
    BY <1>11 DEF ReadDelayed, NotifyArm
  <2> DEFINE e == [type |-> t, client |-> request.client, ocb |-> request.ocb]
  <2>3. e \in Elements /\ e.ocb = request.ocb
    BY <1>9, <2>1 DEF Elements
  <2>4. Pending' = Pending \cup {e}
    <3>1. delayedQueue \in Seq(Elements)
      BY <1>0 DEF TypeOK
    <3>2. Members(delayedQueue') = Members(delayedQueue) \cup {e}
      BY <2>2, <2>3, <3>1, MembersAppend
    <3>3. Members(passed') = Members(passed)
      BY <2>1
    <3> QED
      BY <3>2, <3>3 DEF Pending
  <2>5. \A f \in Pending' : f \in Pending \/ f.ocb = request.ocb
    BY <2>3, <2>4
  <2> QED
    BY <1>0, <1>9, <2>1, <2>5, PointerToHead
<1>12. ASSUME queueMutex = "dispatch", NEW i \in Unread(request.ocb)
       PROVE  /\ i \in Nat /\ i >= offset[request.ocb] /\ i < queueHead
              /\ Slot(i).n = i
              /\ \A e \in Pending : e.ocb # request.ocb
  <2>1. /\ i \in Nat /\ i >= offset[request.ocb] /\ i < queueHead
        /\ Slot(i).n = i /\ offset[request.ocb] # queueHead
    BY <1>0, <1>9, <1>12, Search
  <2>2. \A e \in Pending : offset[e.ocb] = queueHead
    BY <1>9, <1>12 DEF PointerInv, AtHead
  <2> QED
    BY <2>1, <2>2
<1>13. ASSUME queueMutex = "dispatch", NEW j \in Nat, j <= queueHead,
              offset' = [offset EXCEPT ![request.ocb] = j],
              \A e \in Pending : e.ocb # request.ocb,
              \A p \in Ocbs : expected'[p] \in 0 .. offset'[p],
              UNCHANGED <<queueHead, queue, pc>>
       PROVE  PointerInv'
  <2>1. \A p \in Ocbs : offset'[p] = IF p = request.ocb THEN j ELSE offset[p]
    BY <1>0, <1>13
  <2>2. \A p \in Ocbs : offset'[p] <= queueHead
    BY <1>0, <1>9, <1>13, <2>1 DEF PointerInv
  <2>3. Pending' = Pending
    BY <1>13 DEF Pending, Members, queue
  <2>4. \A e \in Pending' : offset'[e.ocb] = queueHead
    BY <1>9, <1>13, <2>1, <2>3 DEF PointerInv, AtHead
  <2> QED
    BY <1>9, <1>13, <2>2, <2>4 DEF PointerInv, AtHead
<1>14. CASE ReadFound
  <2>1. queueMutex = "dispatch" /\ UNCHANGED <<queueHead, queue, pc>>
    BY <1>14 DEF ReadFound, Handling, ring
  <2>2. PICK i \in Unread(request.ocb) :
          /\ ReplyFrame(request.client, request.ocb, Slot(i))
          /\ offset' = [offset EXCEPT ![request.ocb] = i + 1]
    BY <1>14 DEF ReadFound
  <2>3. /\ i \in Nat /\ i >= offset[request.ocb] /\ i < queueHead
        /\ Slot(i).n = i
        /\ \A e \in Pending : e.ocb # request.ocb
    BY <1>12, <2>1, <2>2
  <2>4. \A p \in Ocbs : expected[p] \in 0 .. offset[p]
    BY DEF PointerInv
  <2>5. offset[request.ocb] <= i
    BY <1>0, <1>9, <2>1, <2>3
  <2>6. \A p \in Ocbs : expected'[p] \in 0 .. offset'[p]
    BY <1>0, <1>9, <2>1, <2>2, <2>3, <2>4, <2>5, ReplyInOrder
  <2>7. i + 1 \in Nat /\ i + 1 <= queueHead
    BY <1>0, <2>3
  <2> QED
    BY <1>13, <2>1, <2>2, <2>3, <2>6, <2>7
<1>15. CASE NotifyFound
  <2>1. queueMutex = "dispatch" /\ UNCHANGED <<queueHead, queue, pc, expected>>
    BY <1>15 DEF NotifyFound, Handling, ring, history
  <2>2. PICK i \in Unread(request.ocb) : offset' = [offset EXCEPT ![request.ocb] = i]
    BY <1>15 DEF NotifyFound
  <2>3. /\ i \in Nat /\ i >= offset[request.ocb] /\ i < queueHead
        /\ \A e \in Pending : e.ocb # request.ocb
    BY <1>12, <2>1, <2>2
  <2>4. \A p \in Ocbs : expected'[p] \in 0 .. offset'[p]
    BY <1>0, <1>9, <2>1, <2>2, <2>3 DEF PointerInv
  <2>5. i <= queueHead
    BY <1>0, <2>3
  <2> QED
    BY <1>13, <2>1, <2>2, <2>3, <2>4, <2>5
<1>16. ASSUME queueMutex = "dispatch", NEW j \in {queueBottom, queueHead, 0},
              offset' = [offset EXCEPT ![request.ocb] = j],
              \A e \in Pending' : e \in Pending /\ e.ocb # request.ocb,
              expected' = [expected EXCEPT ![request.ocb] = 0],
              UNCHANGED <<queueHead, pc>>
       PROVE  PointerInv'
  <2>1. \A p \in Ocbs : offset'[p] = IF p = request.ocb THEN j ELSE offset[p]
    BY <1>0, <1>16
  <2>2. j \in Nat /\ j <= queueHead
    BY <1>0, <1>16
  <2>3. \A p \in Ocbs : offset'[p] <= queueHead
    BY <1>0, <1>9, <1>16, <2>1, <2>2 DEF PointerInv
  <2>4. \A p \in Ocbs : expected'[p] \in 0 .. offset'[p]
    <3>1. \A p \in Ocbs : expected'[p] = IF p = request.ocb THEN 0 ELSE expected[p]
      BY <1>0, <1>16 DEF TypeOK
    <3>2. \A p \in Ocbs : expected[p] \in 0 .. offset[p]
      BY DEF PointerInv
    <3> QED
      BY <2>1, <2>2, <3>1, <3>2
  <2>5. \A e \in Pending' : offset'[e.ocb] = queueHead
    BY <1>9, <1>16, <2>1 DEF PointerInv, AtHead
  <2> QED
    BY <1>9, <1>16, <2>3, <2>4, <2>5 DEF PointerInv, AtHead
<1>17. CASE io_open
  <2>1. /\ queueMutex = "dispatch" /\ UNCHANGED <<queueHead, queue, pc>>
        /\ expected' = [expected EXCEPT ![request.ocb] = 0]
        /\ offset' = [offset EXCEPT ![request.ocb] =
                        IF request.op = "append" THEN queueHead ELSE queueBottom]
    BY <1>17 DEF io_open, OpenAt, Handling, ring, Zeroed
  <2>2. Pending' = Pending
    BY <2>1 DEF Pending, Members, queue
  <2>3. request.ocb \notin live
    BY <1>0, <1>17 DEF io_open, OpenAt, Handling, DispatchBusy, ListInv
  <2>4. \A e \in Pending : e.ocb # request.ocb
    BY <2>3 DEF ListInv
  <2> QED
    BY <1>16, <2>1, <2>2, <2>4
<1>18. CASE CloseFree
  <2>1. /\ queueMutex = "dispatch" /\ UNCHANGED <<queueHead, pc>>
        /\ expected' = [expected EXCEPT ![request.ocb] = 0]
        /\ offset' = [offset EXCEPT ![request.ocb] = 0]
    BY <1>18 DEF CloseFree, Handling, ring, Zeroed
  <2>2. Pending' = Members(passed)
    BY <1>18, MembersEmpty DEF CloseFree, Pending, Members
  <2>3. \A e \in Members(passed) : e.ocb # request.ocb
    BY <1>18 DEF CloseFree, Handling, ListInv
  <2>4. \A e \in Pending' : e \in Pending /\ e.ocb # request.ocb
    BY <2>2, <2>3 DEF Pending
  <2> QED
    BY <1>16, <2>1, <2>4
<1>19. CASE CloseErase \/ CloseKeep
  <2>1. /\ queueMutex = "dispatch" /\ UNCHANGED <<queueHead, offset, expected, pc>>
        /\ delayedQueue # <<>> /\ (Erase \/ Keep)
    BY <1>19 DEF CloseErase, CloseKeep, Handling, ring, ocbs, history
  <2>2. Pending' \subseteq Pending
    BY <1>0, <2>1, KeepMembers, EraseMembers DEF Pending
  <2> QED
    BY <1>9, <2>1, <2>2, PointerQuiet
<1> QED
  BY <1>2, <1>3, <1>4, <1>5, <1>6, <1>7, <1>8, <1>10, <1>11, <1>14, <1>15, <1>17,
     <1>18, <1>19
  DEF Next, ReceiveThread, Dispatch

-----------------------------------------------------------------------------
\* Before the head wraps, every reachable state satisfies the invariant of the ring,
\* of the list of delayed requests and of the pointers that the properties need.
THEOREM SafetyInvariant ==
    ASSUME MaxFrames < HeadMod
    PROVE  Spec => [](TypeInv /\ SafetyInv)
<1>1. Init => TypeInv /\ SafetyInv
  BY TypeInit, RingInit, ListInit, PointerInit DEF SafetyInv
<1>2. TypeInv /\ SafetyInv /\ [Next]_vars => (TypeInv /\ SafetyInv)'
  <2> SUFFICES ASSUME TypeInv, SafetyInv, [Next]_vars PROVE (TypeInv /\ SafetyInv)'
    OBVIOUS
  <2>1. TypeInv'
    BY TypeStep
  <2>2. RingInv' /\ ListInv' /\ PointerInv'
    BY RingStep, ListStep, PointerStep DEF SafetyInv
  <2> QED
    BY <2>1, <2>2 DEF SafetyInv
<1> QED
  BY <1>1, <1>2, PTL DEF Spec

\* No handler ever reads the slot the receive thread writes without the mutex,
\* nor one that was overwritten.
THEOREM FramesIntact ==
    ASSUME MaxFrames < HeadMod
    PROVE  Spec => []ReadableIntact
<1>1. TypeInv /\ SafetyInv => ReadableIntact
  BY RingReadable DEF TypeInv, SafetyInv
<1> QED
  BY <1>1, SafetyInvariant, PTL

\* Whenever the mutex is free every delayed request stands at the head, where
\* the next walk compares it.
THEOREM DelayedAtHead ==
    ASSUME MaxFrames < HeadMod
    PROVE  Spec => []PendingAtHead
<1>1. TypeInv /\ SafetyInv => PendingAtHead
  BY DEF TypeInv, WalkLocks, SafetyInv, ListInv, PointerInv, PendingAtHead
<1> QED
  BY <1>1, SafetyInvariant, PTL

\* The receive thread never looks at an OCB that ocb_free has freed, however the
\* indices wrap.
THEOREM NoUseAfterClose == Spec => []NoDanglingOcb
<1>1. Init => TypeInv /\ ListInv
  BY TypeInit, ListInit
<1>2. TypeInv /\ ListInv /\ [Next]_vars => (TypeInv /\ ListInv)'
  BY TypeStep, ListStep
<1>3. ListInv => NoDanglingOcb
  BY DEF ListInv, NoDanglingOcb
<1> QED
  BY <1>1, <1>2, <1>3, PTL DEF Spec

\* Clients of a descriptor get whole frames, each once, in arrival order.
THEOREM DeliveredInOrder ==
    ASSUME MaxFrames < HeadMod
    PROVE  Spec => []InOrder
<1>1. TypeInv /\ SafetyInv => InOrder
  <2> SUFFICES ASSUME TypeInv, SafetyInv, NEW o \in live PROVE expected[o] # Never
    BY DEF InOrder
  <2>1. o \in Ocbs /\ offset[o] \in Nat
    BY DEF TypeInv, TypeOK
  <2>2. expected[o] \in 0 .. offset[o]
    BY <2>1 DEF SafetyInv, PointerInv
  <2> QED
    BY <2>1, <2>2 DEF Never
<1> QED
  BY <1>1, SafetyInvariant, PTL

-----------------------------------------------------------------------------
\* A verdict of the filter on an intact frame depends on no luck.
LEMMA Rejected ==
    ASSUME NEW i, NEW o, NEW luck, Slot(i).n \in Nat,
           ~ CheckFilter(Slot(i), filter[o], luck)
    PROVE  filter[o] = Torn \/ Slot(i).id \notin filter[o]
<1>1. Slot(i) # Garbage
  BY DEF Garbage
<1> QED
  BY <1>1 DEF CheckFilter

\* A search passes over what was overwritten and what the filter rejects.
LEMMA SearchSkips ==
    ASSUME TypeOK, RingInv, NEW o \in Ocbs, offset[o] <= queueHead, NEW luck,
           NEW i \in Nat, i >= offset[o], i < queueHead,
           i \in Unread(o) => ~ CheckFilter(Slot(i), filter[o], luck)
    PROVE  i < queueBottom \/ filter[o] = Torn \/ Slot(i).id \notin filter[o]
<1>1. /\ queueHead \in Nat /\ queueBottom \in Nat /\ offset[o] \in Nat
  BY CanManagerAssumption DEF TypeOK
<1>2. CASE i < Start(o)
  BY <1>1, <1>2 DEF Start
<1>3. CASE i >= Start(o)
  <2>1. Start(o) \in Nat /\ Start(o) <= queueHead
    BY Search
  <2>2. i \in Unread(o)
    BY <1>1, <1>3, <2>1 DEF Unread
  <2>3. Slot(i).n \in Nat
    BY <2>2, Search
  <2> QED
    BY <2>2, <2>3, Rejected
<1>4. Start(o) \in Nat
  BY Search
<1> QED
  BY <1>1, <1>2, <1>3, <1>4

\* What a reply with frame i leaves for the frame.
LEMMA ReplyAccounts ==
    ASSUME TypeOK, NEW c \in Clients, NEW o \in Ocbs, NEW i \in Nat,
           Slot(i).n = i, expected[o] \in 0 .. i, ReplyFrame(c, o, Slot(i))
    PROVE  expected'[o] = i + 1 \/ lost'[o] > lost[o]
<1>1. AfterFrame(o, Slot(i)) = i + 1
  BY DEF AfterFrame, Never
<1> QED
  BY <1>1 DEF ReplyFrame, TypeOK

\* A step that leaves every pointer alone skips nothing.
LEMMA PointerKeptSkipsNothing ==
    ASSUME TypeOK, offset' = offset
    PROVE  NothingSkipped
<1>1. \A o \in Ocbs : offset[o] .. offset'[o] - 1 = {}
  BY DEF TypeOK
<1>2. live \subseteq Ocbs
  BY DEF TypeOK
<1> QED
  BY <1>1, <1>2 DEF NothingSkipped

\* A step that moves the pointer of one descriptor skips nothing if it accounts
\* for the frames that pointer leaves behind.
LEMMA OnePointerMoved ==
    ASSUME TypeOK, NEW o \in Ocbs, NEW j \in Nat,
           offset' = [offset EXCEPT ![o] = j],
           o \notin live \/ o \notin live' \/
             \A i \in offset[o] .. j - 1 : PassedOver(o, i)
    PROVE  NothingSkipped
<1> SUFFICES ASSUME NEW p \in live \cap live', NEW i \in offset[p] .. offset'[p] - 1
             PROVE  PassedOver(p, i)
  BY DEF NothingSkipped
<1>1. p \in Ocbs /\ offset \in [Ocbs -> Nat]
  BY DEF TypeOK
<1>2. CASE p = o
  BY <1>1, <1>2
<1>3. CASE p # o
  <2>1. offset'[p] = offset[p] /\ offset[p] \in Nat
    BY <1>1, <1>3
  <2> QED
    BY <2>1
<1> QED
  BY <1>2, <1>3

\* A step moves a pointer only past frames that have a reason to be passed.
LEMMA NothingSkippedStep ==
    ASSUME MaxFrames < HeadMod, TypeInv, SafetyInv, [Next]_vars
    PROVE  [NothingSkipped]_vars
<1>0. /\ TypeOK /\ DispatchBusy /\ WalkLocks /\ RingInv /\ ListInv /\ PointerInv
      /\ queueHead \in Nat /\ queueBottom \in Nat /\ queueBottom <= queueHead
      /\ received \in Nat /\ offset \in [Ocbs -> Nat]
  BY CanManagerAssumption DEF TypeInv, SafetyInv, TypeOK, RingInv
<1>1. CASE offset' = offset
  BY <1>0, <1>1, PointerKeptSkipsNothing
<1>2. CASE UNCHANGED vars
  BY <1>2
<1>3. CASE Environment \/ Refuse \/ LockForRequest \/ NotifyFound \/ CloseErase
           \/ CloseKeep \/ io_devctl \/ io_devctl_return
  <2>1. CASE ~ NotifyFound
    BY <1>1, <1>3, <2>1 DEF Environment, Receive, io_unblock, Refuse, LockForRequest,
       CloseErase, CloseKeep, io_devctl, io_devctl_return, ocbs
  <2>2. CASE NotifyFound
    <3> DEFINE o == request.ocb
    <3>1. queueMutex = "dispatch" /\ o \in Ocbs /\ offset[o] <= queueHead
      BY <1>0, <2>2, RequestTyped
      DEF NotifyFound, Handling, DispatchBusy, WalkLocks, PointerInv
    <3>2. PICK luck \in BOOLEAN, i \in Unread(o) :
            FirstAccepted(o, i, luck) /\ offset' = [offset EXCEPT ![o] = i]
      BY <2>2 DEF NotifyFound
    <3>3. i \in Nat /\ i < queueHead
      BY <1>0, <3>1, <3>2, Search
    <3>4. ASSUME NEW j \in offset[o] .. i - 1 PROVE PassedOver(o, j)
      <4>1. j \in Nat /\ j >= offset[o] /\ j < queueHead /\ j < i
        BY <1>0, <3>1, <3>3, <3>4
      <4>2. j \in Unread(o) => ~ CheckFilter(Slot(j), filter[o], luck)
        BY <1>0, <3>1, <3>2, <4>1, Search DEF FirstAccepted, Unread
      <4> QED
        BY <1>0, <3>1, <4>1, <4>2, SearchSkips DEF PassedOver
    <3> QED
      BY <1>0, <3>1, <3>2, <3>3, <3>4, OnePointerMoved
  <2> QED
    BY <2>1, <2>2
<1>4. CASE ReadMessage \/ (\E id \in Ids : ReadMessageDone(id)) \/ LockForWalk
           \/ WalkSkip \/ WalkNotify \/ Publish
  BY <1>1, <1>4 DEF ReadMessage, ReadMessageDone, LockForWalk, WalkSkip, WalkNotify,
     Publish, ocbs
<1>5. ASSUME pc = "walk", NEW o \in Ocbs, offset[o] = queueHead, Advance(o),
             PassedOver(o, queueHead)
      PROVE  NothingSkipped
  <2>1. offset' = [offset EXCEPT ![o] = queueHead + 1]
    BY <1>5 DEF Advance
  <2>2. \A i \in offset[o] .. (queueHead + 1) - 1 : i = queueHead
    BY <1>0, <1>5
  <2>3. \A i \in offset[o] .. (queueHead + 1) - 1 : PassedOver(o, i)
    BY <1>5, <2>2, Zenon
  <2>4. queueHead + 1 \in Nat
    BY <1>0
  <2> QED
    BY <1>0, <2>1, <2>3, <2>4, OnePointerMoved
<1>6. ASSUME pc = "walk"
      PROVE  Slot(queueHead).n = queueHead
  BY <1>0, <1>6, CanManagerAssumption DEF RingInv
<1>7. CASE WalkReject \/ WalkReply
  <2> DEFINE e == Head(delayedQueue)
  <2>1. /\ pc = "walk" /\ delayedQueue # <<>>
        /\ offset[e.ocb] = queueHead /\ Advance(e.ocb)
    BY <1>7 DEF WalkReject, WalkReply, AtHead
  <2>2. e.ocb \in Ocbs /\ e.client \in Clients
    <3>1. delayedQueue \in Seq(Elements)
      BY <1>0 DEF TypeOK
    <3>2. e \in Elements
      BY <2>1, <3>1, HeadTail
    <3> QED
      BY <3>2 DEF Elements
  <2>3. CASE WalkReject
    <3>1. filter[e.ocb] = Torn \/ Slot(queueHead).id \notin filter[e.ocb]
      BY <1>0, <1>6, <2>1, <2>3, Rejected DEF WalkReject
    <3> QED
      BY <1>5, <2>1, <2>2, <3>1 DEF PassedOver
  <2>4. CASE WalkReply
    <3>1. expected[e.ocb] \in 0 .. queueHead
      BY <1>0, <2>1, <2>2 DEF PointerInv
    <3>2. expected'[e.ocb] = queueHead + 1 \/ lost'[e.ocb] > lost[e.ocb]
      BY <1>0, <1>6, <2>1, <2>2, <2>4, <3>1, ReplyAccounts DEF WalkReply
    <3> QED
      BY <1>5, <2>1, <2>2, <3>2 DEF PassedOver
  <2> QED
    BY <1>7, <2>3, <2>4
<1>8. ASSUME queueMutex = "dispatch"
      PROVE  /\ request.ocb \in Ocbs /\ request.client \in Clients
             /\ offset[request.ocb] <= queueHead
  BY <1>0, <1>8, RequestTyped DEF DispatchBusy, WalkLocks, PointerInv
<1>9. CASE ReadEmpty \/ ReadDelayed \/ NotifyNone \/ NotifyArm
  <2> DEFINE o == request.ocb
  <2>1. queueMutex = "dispatch" /\ offset' = [offset EXCEPT ![o] = queueHead]
    BY <1>9 DEF ReadEmpty, ReadDelayed, NotifyNone, NotifyArm, Handling
  <2>2. PICK luck \in BOOLEAN : NoneAccepted(o, luck)
    BY <1>9 DEF ReadEmpty, ReadDelayed, NotifyNone, NotifyArm
  <2>3. ASSUME NEW i \in offset[o] .. queueHead - 1 PROVE PassedOver(o, i)
    <3>1. i \in Nat /\ i >= offset[o] /\ i < queueHead
      BY <1>0, <1>8, <2>1, <2>3
    <3> QED
      BY <1>0, <1>8, <2>1, <2>2, <3>1, SearchSkips DEF PassedOver, NoneAccepted
  <2> QED
    BY <1>0, <1>8, <2>1, <2>3, OnePointerMoved
<1>10. CASE ReadFound
  <2> DEFINE o == request.ocb
             c == request.client
  <2>1. queueMutex = "dispatch" /\ o \in Ocbs /\ c \in Clients /\ offset[o] <= queueHead
    BY <1>8, <1>10 DEF ReadFound, Handling
  <2>2. PICK luck \in BOOLEAN, i \in Unread(o) :
          /\ FirstAccepted(o, i, luck)
          /\ ReplyFrame(c, o, Slot(i))
          /\ offset' = [offset EXCEPT ![o] = i + 1]
    BY <1>10 DEF ReadFound
  <2>3. i \in Nat /\ i >= offset[o] /\ i < queueHead /\ Slot(i).n = i
    BY <1>0, <2>1, <2>2, Search
  <2>4. expected[o] \in 0 .. i
    BY <1>0, <2>1, <2>3 DEF PointerInv
  <2>5. ASSUME NEW j \in offset[o] .. (i + 1) - 1 PROVE PassedOver(o, j)
    <3>1. CASE j = i
      <4>1. expected'[o] = i + 1 \/ lost'[o] > lost[o]
        BY <1>0, <2>1, <2>2, <2>3, <2>4, ReplyAccounts
      <4> QED
        BY <3>1, <4>1 DEF PassedOver
    <3>2. CASE j # i
      <4>1. j \in Nat /\ j >= offset[o] /\ j < queueHead /\ j < i
        BY <1>0, <2>1, <2>3, <2>5, <3>2
      <4>2. j \in Unread(o) => ~ CheckFilter(Slot(j), filter[o], luck)
        BY <1>0, <2>1, <2>2, <4>1, Search DEF FirstAccepted, Unread
      <4> QED
        BY <1>0, <2>1, <4>1, <4>2, SearchSkips DEF PassedOver
    <3> QED
      BY <3>1, <3>2
  <2>6. i + 1 \in Nat
    BY <2>3
  <2> QED
    BY <1>0, <2>1, <2>2, <2>5, <2>6, OnePointerMoved
<1>11. CASE io_open \/ CloseFree
  <2> DEFINE o == request.ocb
  <2>1. queueMutex = "dispatch" /\ (o \notin live \/ o \notin live')
    BY <1>0, <1>11 DEF io_open, OpenAt, CloseFree, Handling, DispatchBusy, ListInv
  <2>2. PICK j \in {queueHead, queueBottom, 0} : offset' = [offset EXCEPT ![o] = j]
    BY <1>11 DEF io_open, OpenAt, CloseFree
  <2>3. j \in Nat
    BY <1>0, <2>2
  <2> QED
    BY <1>0, <1>8, <2>1, <2>2, <2>3, OnePointerMoved
<1> QED
  BY <1>2, <1>3, <1>4, <1>7, <1>9, <1>10, <1>11 DEF Next, ReceiveThread, Dispatch

\* No step passes a readable frame that the filter of a descriptor accepts,
\* except by replying with it.
THEOREM NoFrameSkipped ==
    ASSUME MaxFrames < HeadMod
    PROVE  Spec => NoSilentSkip
<1>1. TypeInv /\ SafetyInv /\ [Next]_vars => [NothingSkipped]_vars
  BY NothingSkippedStep
<1> QED
  BY <1>1, SafetyInvariant, PTL DEF Spec, NoSilentSkip

-----------------------------------------------------------------------------
(***************************************************************************)
(* Pointers, before the head wraps.                                        *)
(***************************************************************************)
PointersAdvance == \A o \in live \cap live' : offset'[o] >= offset[o]

\* Pointers advance if the only one that is moved does, or was not open.
LEMMA OnePointerAdvances ==
    ASSUME TypeOK, NEW o \in Ocbs, NEW j \in Nat,
           offset' = [offset EXCEPT ![o] = j],
           o \notin live \/ o \notin live' \/ j >= offset[o]
    PROVE  PointersAdvance
<1> SUFFICES ASSUME NEW p \in live \cap live' PROVE offset'[p] >= offset[p]
  BY DEF PointersAdvance
<1>1. p \in Ocbs /\ offset \in [Ocbs -> Nat]
  BY DEF TypeOK
<1>2. offset[p] \in Nat
  BY <1>1
<1>3. CASE p = o
  BY <1>1, <1>3
<1>4. CASE p # o
  BY <1>1, <1>2, <1>4
<1> QED
  BY <1>3, <1>4

\* No step moves a pointer back: a search begins at it, and ends at the head.
LEMMA AdvanceStep ==
    ASSUME MaxFrames < HeadMod, TypeInv, SafetyInv, [Next]_vars
    PROVE  [PointersAdvance]_vars
<1>0. /\ TypeOK /\ DispatchBusy /\ WalkLocks /\ RingInv /\ ListInv /\ PointerInv
      /\ queueHead \in Nat /\ queueBottom \in Nat /\ queueBottom <= queueHead
      /\ offset \in [Ocbs -> Nat] /\ live \subseteq Ocbs
  BY CanManagerAssumption DEF TypeInv, SafetyInv, TypeOK, RingInv
<1>1. CASE offset' = offset
  <2>1. \A o \in live : offset[o] \in Nat
    BY <1>0
  <2> QED
    BY <1>1, <2>1 DEF PointersAdvance
<1>2. CASE UNCHANGED vars
  BY <1>2
<1>3. CASE Environment \/ Refuse \/ LockForRequest \/ CloseErase
           \/ CloseKeep \/ io_devctl \/ io_devctl_return
  BY <1>1, <1>3 DEF Environment, Receive, io_unblock, Refuse, LockForRequest,
     CloseErase, CloseKeep, io_devctl, io_devctl_return, ocbs
<1>4. CASE ReadMessage \/ (\E id \in Ids : ReadMessageDone(id)) \/ LockForWalk
           \/ WalkSkip \/ WalkNotify \/ Publish
  BY <1>1, <1>4 DEF ReadMessage, ReadMessageDone, LockForWalk, WalkSkip, WalkNotify,
     Publish, ocbs
<1>5. CASE WalkReject \/ WalkReply
  <2> DEFINE e == Head(delayedQueue)
  <2>1. delayedQueue # <<>> /\ Advance(e.ocb)
    BY <1>5 DEF WalkReject, WalkReply
  <2>2. delayedQueue \in Seq(Elements)
    BY <1>0 DEF TypeOK
  <2>3. e \in Elements
    BY <2>1, <2>2, HeadTail
  <2>4. e.ocb \in Ocbs
    BY <2>3 DEF Elements
  <2> HIDE DEF e
  <2>5. offset' = [offset EXCEPT ![e.ocb] = offset[e.ocb] + 1]
    BY <2>1 DEF Advance
  <2>6. offset[e.ocb] + 1 \in Nat /\ offset[e.ocb] + 1 >= offset[e.ocb]
    BY <1>0, <2>4
  <2> QED
    BY <1>0, <2>4, <2>5, <2>6, OnePointerAdvances
<1>6. ASSUME queueMutex = "dispatch"
      PROVE  /\ request.ocb \in Ocbs
             /\ offset[request.ocb] <= queueHead
  BY <1>0, <1>6, RequestTyped DEF DispatchBusy, WalkLocks, PointerInv
<1>7. CASE ReadEmpty \/ ReadDelayed \/ NotifyNone \/ NotifyArm
  <2>1. queueMutex = "dispatch" /\ offset' = [offset EXCEPT ![request.ocb] = queueHead]
    BY <1>7 DEF ReadEmpty, ReadDelayed, NotifyNone, NotifyArm, Handling
  <2>2. queueHead >= offset[request.ocb]
    BY <1>0, <1>6, <2>1
  <2> QED
    BY <1>0, <1>6, <2>1, <2>2, OnePointerAdvances
<1>8. CASE ReadFound \/ NotifyFound
  <2>1. queueMutex = "dispatch"
    BY <1>8 DEF ReadFound, NotifyFound, Handling
  <2>2. PICK luck \in BOOLEAN, i \in Unread(request.ocb) :
          /\ FirstAccepted(request.ocb, i, luck)
          /\ \/ offset' = [offset EXCEPT ![request.ocb] = i]
             \/ offset' = [offset EXCEPT ![request.ocb] = i + 1]
    BY <1>8 DEF ReadFound, NotifyFound
  <2>3. i \in Nat /\ i >= offset[request.ocb]
    BY <1>0, <1>6, <2>1, <2>2, Search
  <2>4. i + 1 \in Nat /\ i + 1 >= offset[request.ocb]
    BY <1>0, <1>6, <2>1, <2>3
  <2> QED
    BY <1>0, <1>6, <2>1, <2>2, <2>3, <2>4, OnePointerAdvances
<1>9. CASE io_open \/ CloseFree
  <2>1. /\ queueMutex = "dispatch"
        /\ request.ocb \notin live \/ request.ocb \notin live'
    BY <1>0, <1>9 DEF io_open, OpenAt, CloseFree, Handling, DispatchBusy, ListInv
  <2>2. PICK j \in {queueHead, queueBottom, 0} :
          offset' = [offset EXCEPT ![request.ocb] = j]
    BY <1>9 DEF io_open, OpenAt, CloseFree
  <2>3. j \in Nat
    BY <1>0, <2>2
  <2> QED
    BY <1>0, <1>6, <2>1, <2>2, <2>3, OnePointerAdvances
<1> QED
  BY <1>2, <1>3, <1>4, <1>5, <1>7, <1>8, <1>9 DEF Next, ReceiveThread, Dispatch

\* No pointer of an open descriptor goes back: that it does is a matter of the
\* head's 32 bits alone.
THEOREM PointersNeverGoBack ==
    ASSUME MaxFrames < HeadMod
    PROVE  Spec => PointerOnlyAdvances
<1>1. TypeInv /\ SafetyInv /\ [Next]_vars => [PointersAdvance]_vars
  BY AdvanceStep
<1>2. [PointersAdvance]_vars => [\A o \in live \cap live' : offset'[o] >= offset[o]]_vars
  BY DEF PointersAdvance
<1> QED
  BY <1>1, <1>2, SafetyInvariant, PTL DEF Spec, PointerOnlyAdvances

-----------------------------------------------------------------------------
(***************************************************************************)
(* No reader is stranded: the invariant also says what the client of the   *)
(* request in the dispatch thread is blocked on, if it still is.           *)
(***************************************************************************)
ReaderInv ==
    /\ ReaderHasElement
    /\ request # None /\ blocked[request.client] # None =>
         /\ blocked[request.client].ocb = request.ocb
         /\ request.op # "memcpy" => blocked[request.client].op = request.op

\* A reply unblocks its client, if blocked on that descriptor, and no other.
LEMMA ReplyUnblocks ==
    ASSUME TypeOK, NEW c \in Clients, NEW o, MsgReply(c, o)
    PROVE  /\ \A d \in Clients : d # c => blocked'[d] = blocked[d]
           /\ blocked'[c] # None => blocked'[c] = blocked[c] /\ blocked[c].ocb # o
  BY DEF MsgReply, BlockedOn, TypeOK

\* Erasing an element leaves all others in the list.
LEMMA EraseLosesOne ==
    ASSUME TypeOK, delayedQueue # <<>>, Erase
    PROVE  \A e \in Pending : e = Head(delayedQueue) \/ e \in Pending'
<1>1. /\ Len(delayedQueue) \in Nat \ {0}
      /\ Head(delayedQueue) = delayedQueue[1]
      /\ Len(Tail(delayedQueue)) = Len(delayedQueue) - 1
      /\ \A i \in 1 .. Len(delayedQueue) - 1 :
           Tail(delayedQueue)[i] = delayedQueue[i + 1]
  <2>1. delayedQueue \in Seq(Elements)
    BY DEF TypeOK
  <2> QED
    BY <2>1, HeadTail
<1>2. ASSUME NEW e \in Members(delayedQueue), e # Head(delayedQueue)
      PROVE  e \in Members(Tail(delayedQueue))
  <2>1. PICK i \in 1 .. Len(delayedQueue) : e = delayedQueue[i]
    BY <1>2 DEF Members
  <2>2. i - 1 \in 1 .. Len(delayedQueue) - 1 /\ (i - 1) + 1 = i
    BY <1>1, <1>2, <2>1
  <2>3. Tail(delayedQueue)[i - 1] = e
    BY <1>1, <2>1, <2>2
  <2> QED
    BY <1>1, <2>2, <2>3 DEF Members
<1>3. Members(passed)' = Members(passed) /\ delayedQueue' = Tail(delayedQueue)
  BY DEF Erase, Members
<1> QED
  BY <1>2, <1>3 DEF Pending, Members

\* Keeping an element in the walk loses none.
LEMMA KeepLosesNone ==
    ASSUME TypeOK, delayedQueue # <<>>, Keep
    PROVE  Pending \subseteq Pending'
<1>1. \A e \in Members(delayedQueue) : e = Head(delayedQueue) \/
                                        e \in Members(Tail(delayedQueue))
  <2>1. CASE Len(delayedQueue) \in Nat
    <3>1. delayedQueue \in Seq(Elements)
      BY DEF TypeOK
    <3>2. ASSUME NEW i \in 2 .. Len(delayedQueue)
          PROVE  delayedQueue[i] \in Members(Tail(delayedQueue))
      <4>1. i - 1 \in 1 .. Len(Tail(delayedQueue)) /\ (i - 1) + 1 = i
            /\ i - 1 \in 1 .. Len(delayedQueue) - 1
        BY <3>1, HeadTail
      <4>2. Tail(delayedQueue)[i - 1] = delayedQueue[i]
        BY <3>1, <4>1, HeadTail
      <4> QED
        BY <4>1, <4>2 DEF Members
    <3>3. \A i \in 1 .. Len(delayedQueue) : i = 1 \/ i \in 2 .. Len(delayedQueue)
      BY <2>1
    <3> QED
      BY <3>1, <3>2, <3>3, HeadTail DEF Members
  <2>2. Len(delayedQueue) \in Nat
    BY DEF TypeOK
  <2> QED
    BY <2>1, <2>2
<1>2. Members(passed)' = Members(passed) \cup {Head(delayedQueue)}
  BY KeepMembers
<1>3. delayedQueue' = Tail(delayedQueue)
  BY DEF Keep
<1> QED
  BY <1>1, <1>2, <1>3 DEF Pending, Members

\* Nobody reads at the start.
LEMMA ReaderInit == Init => ReaderInv
  BY DEF Init, ReaderInv, ReaderHasElement

\* Every step leaves a blocked reader its element, or answers it.
LEMMA ReaderStep ==
    ASSUME TypeInv, ReaderInv, [Next]_vars
    PROVE  ReaderInv'
<1>0. TypeOK /\ DispatchBusy
  BY DEF TypeInv
<1>1. ASSUME UNCHANGED <<blocked, request>>, Pending \subseteq Pending'
      PROVE  ReaderInv'
  BY <1>1 DEF ReaderInv, ReaderHasElement
<1>2. ASSUME UNCHANGED queue PROVE Pending' = Pending
  BY <1>2 DEF queue, Pending, Members
<1>3. CASE UNCHANGED vars
  BY <1>1, <1>2, <1>3 DEF vars, clients
<1>4. CASE ReadMessage \/ (\E id \in Ids : ReadMessageDone(id)) \/ LockForWalk
           \/ LockForRequest
  BY <1>1, <1>2, <1>4 DEF ReadMessage, ReadMessageDone, LockForWalk, LockForRequest,
     clients
<1>5. CASE WalkSkip \/ WalkReject \/ CloseKeep
  <2>1. delayedQueue # <<>> /\ Keep /\ UNCHANGED <<blocked, request>>
    BY <1>5 DEF WalkSkip, WalkReject, CloseKeep, clients
  <2> QED
    BY <1>0, <1>1, <2>1, KeepLosesNone
<1>6. CASE Publish
  <2>1. UNCHANGED <<blocked, request>> /\ delayedQueue = <<>> /\ delayedQueue' = passed
    BY <1>6 DEF Publish, clients
  <2>2. Pending \subseteq Pending'
    BY <2>1, MembersEmpty DEF Pending, Members
  <2> QED
    BY <1>1, <2>1, <2>2
<1>7. CASE WalkReply \/ CloseErase
  <2> DEFINE e == Head(delayedQueue)
  <2>1. /\ delayedQueue # <<>> /\ Erase /\ request' = request
        /\ MsgReply(e.client, e.ocb)
    BY <1>7 DEF WalkReply, CloseErase, ReplyFrame
  <2>2. e.client \in Clients
    <3>1. delayedQueue \in Seq(Elements)
      BY <1>0 DEF TypeOK
    <3>2. e \in Elements
      BY <2>1, <3>1, HeadTail
    <3> QED
      BY <3>2 DEF Elements
  <2>3. ASSUME NEW c \in Clients, blocked'[c] # None
        PROVE  blocked'[c] = blocked[c] /\ (c = e.client => blocked[c].ocb # e.ocb)
    BY <1>0, <2>1, <2>2, <2>3, ReplyUnblocks
  <2>4. ASSUME NEW c \in Clients, blocked'[c] # None,
               request = None \/ request.client # c
        PROVE  /\ blocked'[c].op = "read"
               /\ [type |-> "ET_REPLY", client |-> c, ocb |-> blocked'[c].ocb] \in Pending'
    <3> DEFINE r == [type |-> "ET_REPLY", client |-> c, ocb |-> blocked[c].ocb]
    <3>1. blocked[c].op = "read" /\ r \in Pending /\ blocked'[c] = blocked[c]
      BY <2>3, <2>4 DEF ReaderInv, ReaderHasElement
    <3>2. r # e
      BY <2>3, <2>4
    <3>3. r \in Pending'
      BY <1>0, <2>1, <3>1, <3>2, EraseLosesOne
    <3> QED
      BY <3>1, <3>3
  <2>5. request # None => request.client \in Clients
    BY <1>0, RequestTyped
  <2> QED
    BY <2>1, <2>3, <2>4, <2>5 DEF ReaderInv, ReaderHasElement
<1>8. CASE WalkNotify
  <2> DEFINE e == Head(delayedQueue)
  <2>1. /\ delayedQueue # <<>> /\ Erase /\ UNCHANGED <<request, blocked>>
        /\ e.type = "ET_NOTIFY"
    BY <1>8 DEF WalkNotify
  <2>2. \A f \in Pending : f.type = "ET_REPLY" => f \in Pending'
    BY <1>0, <2>1, EraseLosesOne
  <2> QED
    BY <2>1, <2>2 DEF ReaderInv, ReaderHasElement
<1>9. ASSUME request # None, request' = None, Pending \subseteq Pending',
             MsgReply(request.client, request.ocb)
      PROVE  ReaderInv'
  <2>1. request.client \in Clients
    BY <1>0, <1>9, RequestTyped
  <2>2. \A c \in Clients : blocked'[c] # None =>
          c # request.client /\ blocked'[c] = blocked[c]
    BY <1>0, <1>9, <2>1, ReplyUnblocks DEF ReaderInv
  <2> QED
    BY <1>9, <2>2 DEF ReaderInv, ReaderHasElement
<1>10. CASE Refuse \/ io_devctl_return \/ ReadFound \/ ReadEmpty \/ NotifyFound
            \/ NotifyNone \/ io_open
  <2>1. /\ request # None /\ request' = None /\ UNCHANGED queue
        /\ MsgReply(request.client, request.ocb)
    BY <1>0, <1>10 DEF Refuse, io_devctl_return, ReadFound, ReadEmpty, NotifyFound,
       NotifyNone, io_open, OpenAt, Handling, DispatchBusy, Return, ReplyFrame
  <2> QED
    BY <1>2, <1>9, <2>1
<1>11. ASSUME NEW e \in Elements, delayedQueue' = Append(delayedQueue, e),
              passed' = passed
       PROVE  Pending' = Pending \cup {e}
  <2>1. delayedQueue \in Seq(Elements)
    BY <1>0 DEF TypeOK
  <2>2. Members(delayedQueue') = Members(delayedQueue) \cup {e}
    BY <1>11, <2>1, MembersAppend
  <2>3. Members(passed') = Members(passed)
    BY <1>11
  <2> QED
    BY <2>2, <2>3 DEF Pending
<1>12. CASE NotifyArm
  <2> DEFINE e == [type |-> "ET_NOTIFY", client |-> request.client, ocb |-> request.ocb]
  <2>1. /\ request # None /\ request' = None /\ passed' = passed
        /\ MsgReply(request.client, request.ocb)
        /\ delayedQueue' = Append(delayedQueue, e)
    BY <1>0, <1>12 DEF NotifyArm, Handling, DispatchBusy, Return
  <2>2. e \in Elements
    BY <1>0, <2>1, RequestTyped DEF Elements
  <2> QED
    BY <1>9, <1>11, <2>1, <2>2
<1>13. CASE ReadDelayed
  <2> DEFINE e == [type |-> "ET_REPLY", client |-> request.client, ocb |-> request.ocb]
  <2>1. /\ request # None /\ request' = None /\ passed' = passed /\ blocked' = blocked
        /\ delayedQueue' = Append(delayedQueue, e) /\ request.op = "read"
    BY <1>0, <1>13 DEF ReadDelayed, Handling, DispatchBusy, Return, clients
  <2>2. e \in Elements
    BY <1>0, <2>1, RequestTyped DEF Elements
  <2>3. Pending' = Pending \cup {e}
    BY <1>11, <2>1, <2>2
  <2> QED
    BY <2>1, <2>3 DEF ReaderInv, ReaderHasElement
<1>14. CASE CloseFree
  <2>1. /\ request # None /\ request' = None /\ delayedQueue = <<>>
        /\ delayedQueue' = passed /\ MsgReply(request.client, request.ocb)
    BY <1>0, <1>14 DEF CloseFree, Handling, DispatchBusy, Return
  <2>2. Pending \subseteq Pending'
    BY <2>1, MembersEmpty DEF Pending, Members
  <2> QED
    BY <1>9, <2>1, <2>2
<1>15. CASE io_devctl
  <2>1. request \in Requests /\ request # None
    BY <1>0, <1>15 DEF io_devctl, TypeOK
  <2>2. /\ request'.client = request.client /\ request'.ocb = request.ocb
        /\ request'.op = "memcpy" /\ blocked' = blocked /\ Pending' = Pending
    BY <1>2, <1>15, <2>1 DEF io_devctl, clients, Requests
  <2>3. request' # None
    BY <1>0, <1>15, <2>1, NoneAssumption DEF io_devctl, Requests
  <2> QED
    BY <2>1, <2>2, <2>3 DEF ReaderInv, ReaderHasElement
<1>16. ASSUME NEW c \in Clients, NEW o \in Ocbs, NEW op \in Ops,
              NEW arg \in Filters \cup {None}, Receive(c, o, op, arg)
       PROVE  ReaderInv'
  <2>1. /\ request = None /\ Pending' = Pending
        /\ request' = [client |-> c, ocb |-> o, op |-> op, arg |-> arg]
        /\ blocked' = [blocked EXCEPT ![c] = [ocb |-> o, op |-> op]]
    BY <1>2, <1>16 DEF Receive
  <2>2. \A d \in Clients : d # c => blocked'[d] = blocked[d]
    BY <1>0, <2>1 DEF TypeOK
  <2>3. blocked'[c] = [ocb |-> o, op |-> op]
    BY <1>0, <2>1 DEF TypeOK
  <2>4. request' # None
    BY <2>1, NoneAssumption DEF Requests
  <2> QED
    BY <2>1, <2>2, <2>3, <2>4 DEF ReaderInv, ReaderHasElement
<1>17. ASSUME NEW c \in Clients, io_unblock(c) PROVE ReaderInv'
  <2>1. /\ request = None /\ request' = None /\ Pending' = Pending
        /\ MsgReply(c, blocked[c].ocb)
    BY <1>2, <1>17 DEF io_unblock
  <2>2. \A d \in Clients : blocked'[d] # None => blocked'[d] = blocked[d]
    BY <1>0, <2>1, ReplyUnblocks
  <2> QED
    BY <2>1, <2>2 DEF ReaderInv, ReaderHasElement
<1> QED
  BY <1>3, <1>4, <1>5, <1>6, <1>7, <1>8, <1>10, <1>12, <1>13, <1>14, <1>15, <1>16,
     <1>17
  DEF Next, ReceiveThread, Dispatch, Environment

\* A client blocked in a read is in the list, or being served: none is forgotten.
THEOREM NoReaderForgotten == Spec => []ReaderHasElement
<1>1. Init => TypeInv /\ ReaderInv
  BY TypeInit, ReaderInit
<1>2. TypeInv /\ ReaderInv /\ [Next]_vars => (TypeInv /\ ReaderInv)'
  BY TypeStep, ReaderStep
<1>3. ReaderInv => ReaderHasElement
  BY DEF ReaderInv
<1> QED
  BY <1>1, <1>2, <1>3, PTL DEF Spec
=============================================================================
