----------------------- MODULE CanManagerClientsProofs -----------------------
(***************************************************************************)
(* What becomes of the clients of CanManager: who armed a descriptor of    *)
(* his own has an event coming, and frames that reach nobody are paid for  *)
(* by interrupted reads.  The second part has the refinement: CanManager   *)
(* implements FrameLog, the initial state maps to the initial state and    *)
(* every step to a step of the log or to none.                             *)
(***************************************************************************)
EXTENDS CanManagerLog, CanManagerProofs, FiniteSetTheorems, SequenceTheorems

\* An event only goes to a client of the descriptor, and nobody awaits one of a
\* descriptor that is closed.
PollerInv ==
    /\ PollerHasEvent
    /\ \A c \in Clients : waiting[c] # None => waiting[c] \in live
    /\ \A e \in Pending : <<e.client, e.ocb>> \in Access
    /\ request # None => <<request.client, request.ocb>> \in Access

\* Clients of o that wait for a frame, their request being in the list.
WaitingReaders(o) ==
    {c \in Clients : Reading(c, o) /\ (request = None \/ request.client # c)}

\* The read in hand was answered already, with the frame of an older element of
\* its client, so its own frame will reach nobody.
Orphan(o) ==
    IF request # None /\ request.ocb = o /\ request.op \in ReadOps
         /\ ~ Reading(request.client, o)
    THEN 1 ELSE 0

Owed(o) == lost[o] + Reads(o) + Orphan(o)
Paid(o) == interrupts[o] + Cardinality(WaitingReaders(o))

BlockedClients == {c \in Clients : blocked[c] # None}

BudgetInv ==
    /\ IsFiniteSet(BlockedClients)
    /\ \A o \in live : Closing(o) \/ Owed(o) <= Paid(o)

-----------------------------------------------------------------------------
(***************************************************************************)
(* Clients that armed a descriptor.                                        *)
(***************************************************************************)

\* Nobody starts to wait, and whoever still does keeps its event and its element.
LEMMA PollerKept ==
    ASSUME PollerInv,
           \A c \in Clients : waiting'[c] \in {None, waiting[c]},
           \A c \in Clients : waiting'[c] # None => waiting'[c] \in live',
           \A c \in Clients, o \in Ocbs :
             waiting'[c] = o /\ Private(c, o) /\ ~ Closing(o)' =>
               /\ ~ Closing(o)
               /\ notifyEvent'[o] = notifyEvent[o]
               /\ LET e == [type |-> "ET_NOTIFY", client |-> c, ocb |-> o]
                  IN  e \in Pending => e \in Pending',
           \A e \in Pending' : <<e.client, e.ocb>> \in Access,
           request' # None => <<request'.client, request'.ocb>> \in Access
    PROVE  PollerInv'
<1>1. ASSUME NEW c \in Clients, NEW o \in Ocbs,
             waiting'[c] = o, Private(c, o), ~ Closing(o)'
      PROVE  /\ notifyEvent'[o] = c
             /\ [type |-> "ET_NOTIFY", client |-> c, ocb |-> o] \in Pending'
  <2>1. waiting[c] = o
    BY <1>1, CanManagerAssumption
  <2> QED
    BY <1>1, <2>1 DEF PollerInv, PollerHasEvent
<1>2. PollerHasEvent'
  BY <1>1 DEF PollerHasEvent, Private
<1> QED
  BY <1>2 DEF PollerInv

\* Nobody waits at the start.
LEMMA PollerInit == Init => PollerInv
  BY CanManagerAssumption, MembersEmpty DEF Init, PollerInv, PollerHasEvent, Pending

\* The element at the iterator belongs to a client of its descriptor.
LEMMA ListHead ==
    ASSUME TypeOK, delayedQueue # <<>>
    PROVE  /\ Head(delayedQueue) \in Elements
           /\ Head(delayedQueue) \in Pending
           /\ Head(delayedQueue).client \in Clients
           /\ Head(delayedQueue).ocb \in Ocbs
<1>1. delayedQueue \in Seq(Elements)
  BY DEF TypeOK
<1>2. Head(delayedQueue) \in Elements
  BY <1>1, HeadTail
<1>3. Head(delayedQueue) \in Members(delayedQueue)
  BY <1>1, MembersHeadTail
<1> QED
  BY <1>2, <1>3 DEF Elements, Pending

\* A new request in the list.
LEMMA PendingAppend ==
    ASSUME TypeOK, NEW e \in Elements, passed' = passed,
           delayedQueue' = Append(delayedQueue, e)
    PROVE  Pending' = Pending \cup {e}
<1>1. delayedQueue \in Seq(Elements)
  BY DEF TypeOK
<1>2. Members(delayedQueue') = Members(delayedQueue) \cup {e}
  BY <1>1, MembersAppend
<1>3. Members(passed') = Members(passed)
  OBVIOUS
<1> QED
  BY <1>2, <1>3 DEF Pending

\* Every step leaves a waiting client its event and its element, or wakes it.
LEMMA PollerStep ==
    ASSUME TypeInv, ListInv, PollerInv, [Next]_vars
    PROVE  PollerInv'
<1>0. TypeOK /\ DispatchBusy /\ WalkLocks
  BY DEF TypeInv
<1>1. ASSUME UNCHANGED queue PROVE Pending' = Pending
  BY <1>1 DEF queue, Pending, Members
<1>2. ASSUME UNCHANGED <<waiting, live, notifyEvent>>, Pending' = Pending,
             request' # None => <<request'.client, request'.ocb>> \in Access,
             \A o \in Ocbs : Closing(o) => Closing(o)'
      PROVE  PollerInv'
  <2>1. \A e \in Pending' : <<e.client, e.ocb>> \in Access
    BY <1>2 DEF PollerInv
  <2>2. \A c \in Clients : waiting'[c] = waiting[c] /\ (waiting'[c] # None => waiting'[c] \in live')
    BY <1>2 DEF PollerInv
  <2>3. \A o \in Ocbs : notifyEvent'[o] = notifyEvent[o]
    BY <1>2
  <2> QED
    BY <1>2, <2>1, <2>2, <2>3, PollerKept
<1>3. CASE UNCHANGED vars
  BY <1>1, <1>2, <1>3 DEF vars, clients, ocbs, PollerInv, Closing
<1>4. CASE ReadMessage \/ (\E id \in Ids : ReadMessageDone(id)) \/ LockForWalk
           \/ LockForRequest
  <2>1. UNCHANGED <<waiting, live, notifyEvent, request, queue>>
    BY <1>4 DEF ReadMessage, ReadMessageDone, LockForWalk, LockForRequest, clients, ocbs
  <2>2. \A o \in Ocbs : Closing(o) => Closing(o)'
    BY <1>4, <2>1 DEF ReadMessage, ReadMessageDone, LockForWalk, LockForRequest, Closing
  <2> QED
    BY <1>1, <1>2, <2>1, <2>2 DEF PollerInv
<1>5. CASE WalkSkip \/ WalkReject \/ CloseKeep
  <2>1. /\ delayedQueue # <<>> /\ Keep
        /\ UNCHANGED <<waiting, live, notifyEvent, request, queueMutex>>
    BY <1>5 DEF WalkSkip, WalkReject, CloseKeep, clients, ocbs
  <2>2. Pending' = Pending
    BY <1>0, <2>1, KeepLosesNone, KeepMembers DEF Pending
  <2>3. \A o \in Ocbs : Closing(o) => Closing(o)'
    BY <2>1 DEF Closing
  <2> QED
    BY <1>2, <2>1, <2>2, <2>3 DEF PollerInv
<1>6. CASE Publish
  <2>1. UNCHANGED <<waiting, live, notifyEvent, request>> /\ Pending' = Pending
    BY <1>6, MembersEmpty DEF Publish, clients, ocbs, Pending, Members
  <2>2. \A o \in Ocbs : ~ Closing(o)
    BY <1>0, <1>6 DEF Publish, WalkLocks, Closing
  <2> QED
    BY <1>2, <2>1, <2>2 DEF PollerInv
<1>7. CASE WalkReply \/ CloseErase
  <2> DEFINE e == Head(delayedQueue)
  <2>1. /\ delayedQueue # <<>> /\ Erase
        /\ UNCHANGED <<waiting, live, notifyEvent, request, queueMutex>>
        /\ e.type = "ET_NOTIFY" => Closing(e.ocb)
    BY <1>7 DEF WalkReply, CloseErase, Handling, Closing, ocbs
  <2>2. \A f \in Pending : f = e \/ f \in Pending'
    BY <1>0, <2>1, EraseLosesOne
  <2>3. Pending' \subseteq Pending
    BY <1>0, <2>1, EraseMembers DEF Pending
  <2>4. \A o \in Ocbs : Closing(o)' = Closing(o)
    BY <2>1 DEF Closing
  <2>5. ASSUME NEW c \in Clients, NEW o \in Ocbs, waiting'[c] = o, ~ Closing(o)'
        PROVE  /\ ~ Closing(o)
               /\ notifyEvent'[o] = notifyEvent[o]
               /\ LET f == [type |-> "ET_NOTIFY", client |-> c, ocb |-> o]
                  IN  f \in Pending => f \in Pending'
    BY <2>1, <2>2, <2>4, <2>5
  <2> QED
    BY <2>1, <2>3, <2>5, PollerKept DEF PollerInv
<1>8. CASE WalkNotify
  <2> DEFINE e == Head(delayedQueue)
  <2>1. /\ delayedQueue # <<>> /\ Erase
        /\ UNCHANGED <<live, request, queueMutex>>
        /\ notifyEvent' = [notifyEvent EXCEPT ![e.ocb] = None]
    BY <1>8 DEF WalkNotify
  <2>2. \A f \in Pending : f = e \/ f \in Pending'
    BY <1>0, <2>1, EraseLosesOne
  <2>3. Pending' \subseteq Pending
    BY <1>0, <2>1, EraseMembers DEF Pending
  <2>4. \A o \in Ocbs : Closing(o)' = Closing(o)
    BY <2>1 DEF Closing
  <2>5. e.client \in Clients /\ e.ocb \in Ocbs /\ <<e.client, e.ocb>> \in Access
    BY <1>0, <2>1, ListHead DEF PollerInv
  <2>6. \A c \in Clients : waiting'[c] \in {None, waiting[c]}
    BY <1>0, <1>8 DEF WalkNotify, TypeOK
  <2>7. ASSUME NEW c \in Clients, NEW o \in Ocbs, waiting'[c] = o, Private(c, o),
               ~ Closing(o)'
        PROVE  o # e.ocb
    <3>1. SUFFICES ASSUME o = e.ocb PROVE FALSE
      OBVIOUS
    <3>2. waiting[c] = o
      BY <2>6, <2>7, CanManagerAssumption
    <3>3. notifyEvent[o] = c
      BY <2>4, <2>7, <3>2 DEF PollerInv, PollerHasEvent
    <3>4. e.client = c
      BY <2>5, <2>7, <3>1 DEF Private
    <3>5. waiting' = [waiting EXCEPT ![c] = IF @ = o THEN None ELSE @]
      BY <1>8, <3>1, <3>3, <3>4, CanManagerAssumption DEF WalkNotify
    <3>6. waiting'[c] = None
      BY <1>0, <3>2, <3>5 DEF TypeOK
    <3> QED
      BY <2>7, <3>6, CanManagerAssumption
  <2>8. ASSUME NEW c \in Clients, NEW o \in Ocbs, waiting'[c] = o, Private(c, o),
               ~ Closing(o)'
        PROVE  /\ ~ Closing(o)
               /\ notifyEvent'[o] = notifyEvent[o]
               /\ LET f == [type |-> "ET_NOTIFY", client |-> c, ocb |-> o]
                  IN  f \in Pending => f \in Pending'
    <3>1. o # e.ocb
      BY <2>7, <2>8
    <3>2. [type |-> "ET_NOTIFY", client |-> c, ocb |-> o] # e
      BY <3>1
    <3>3. notifyEvent'[o] = notifyEvent[o]
      BY <1>0, <2>1, <3>1 DEF TypeOK
    <3> QED
      BY <2>2, <2>4, <2>8, <3>2, <3>3
  <2>9. \A c \in Clients : waiting'[c] # None => waiting'[c] \in live'
    BY <2>1, <2>6 DEF PollerInv
  <2>10. \A f \in Pending' : <<f.client, f.ocb>> \in Access
    BY <2>3 DEF PollerInv
  <2>11. request' # None => <<request'.client, request'.ocb>> \in Access
    BY <2>1 DEF PollerInv
  <2> QED
    BY <2>6, <2>8, <2>9, <2>10, <2>11, PollerKept
<1>9. CASE Refuse \/ io_devctl_return \/ ReadFound \/ ReadEmpty \/ NotifyFound
           \/ NotifyNone
  <2>1. UNCHANGED <<waiting, live, notifyEvent, queue>> /\ request' = None
    BY <1>9 DEF Refuse, io_devctl_return, ReadFound, ReadEmpty, NotifyFound, NotifyNone,
       Return, ocbs
  <2>2. \A o \in Ocbs : ~ Closing(o)
    BY <1>9 DEF Refuse, io_devctl_return, ReadFound, ReadEmpty, NotifyFound, NotifyNone,
       Handling, Closing, ReadOps, PollOps
  <2> QED
    BY <1>1, <1>2, <2>1, <2>2
<1>10. CASE ReadDelayed
  <2> DEFINE e == [type |-> "ET_REPLY", client |-> request.client, ocb |-> request.ocb]
  <2>1. /\ request # None /\ request' = None
        /\ UNCHANGED <<waiting, live, notifyEvent, passed>>
        /\ delayedQueue' = Append(delayedQueue, e)
        /\ \A o \in Ocbs : ~ Closing(o)
    BY <1>0, <1>10 DEF ReadDelayed, Handling, DispatchBusy, Return, clients, Closing
  <2>2. e \in Elements /\ <<e.client, e.ocb>> \in Access
    BY <1>0, <2>1, RequestTyped DEF Elements, PollerInv
  <2>3. Pending' = Pending \cup {e}
    BY <1>0, <2>1, <2>2, PendingAppend
  <2>4. \A f \in Pending' : <<f.client, f.ocb>> \in Access
    BY <2>2, <2>3 DEF PollerInv
  <2>5. \A c \in Clients : waiting'[c] = waiting[c] /\ (waiting'[c] # None => waiting'[c] \in live')
    BY <2>1 DEF PollerInv
  <2>6. \A o \in Ocbs : notifyEvent'[o] = notifyEvent[o]
    BY <2>1
  <2> QED
    BY <2>1, <2>3, <2>4, <2>5, <2>6, PollerKept
<1>11. CASE NotifyArm
  <2> DEFINE r == request.client
             q == request.ocb
             e == [type |-> "ET_NOTIFY", client |-> r, ocb |-> q]
  <2>1. /\ request # None /\ request' = None
        /\ UNCHANGED <<live, passed>>
        /\ delayedQueue' = Append(delayedQueue, e)
        /\ \A o \in Ocbs : ~ Closing(o)
        /\ request.op = "notify"
    BY <1>0, <1>11 DEF NotifyArm, Handling, DispatchBusy, Return, Closing
  <2>2. /\ e \in Elements /\ <<e.client, e.ocb>> \in Access /\ <<r, q>> \in Access
        /\ r \in Clients /\ q \in Ocbs /\ q \in live
    BY <1>0, <2>1, RequestTyped DEF Elements, PollerInv, ListInv
  <2>3. Pending' = Pending \cup {e}
    BY <1>0, <2>1, <2>2, PendingAppend
  <2>4. \A f \in Pending' : <<f.client, f.ocb>> \in Access
    BY <2>2, <2>3 DEF PollerInv
  <2>5. /\ notifyEvent'[q] = r
        /\ \A o \in Ocbs \ {q} : notifyEvent'[o] = notifyEvent[o]
    BY <1>0, <1>11, <2>2 DEF NotifyArm, TypeOK
  <2>6. /\ waiting'[r] \in {waiting[r], q}
        /\ \A c \in Clients \ {r} : waiting'[c] = waiting[c]
    BY <1>0, <1>11, <2>2 DEF NotifyArm, TypeOK
  <2>7. ASSUME NEW c \in Clients, NEW o \in Ocbs, waiting'[c] = o, Private(c, o)
        PROVE  /\ notifyEvent'[o] = c
               /\ [type |-> "ET_NOTIFY", client |-> c, ocb |-> o] \in Pending'
    <3>1. CASE o = q
      <4>1. c = r
        BY <2>2, <2>7, <3>1 DEF Private
      <4> QED
        BY <2>3, <2>5, <3>1, <4>1
    <3>2. CASE o # q
      <4>1. waiting[c] = o
        BY <2>2, <2>6, <2>7, <3>2
      <4> QED
        BY <2>1, <2>3, <2>5, <2>7, <3>2, <4>1 DEF PollerInv, PollerHasEvent
    <3> QED
      BY <3>1, <3>2
  <2>8. PollerHasEvent'
    BY <2>7 DEF PollerHasEvent, Private
  <2>9. \A c \in Clients : waiting'[c] # None => waiting'[c] \in live'
    BY <2>1, <2>2, <2>6 DEF PollerInv
  <2> QED
    BY <2>1, <2>4, <2>8, <2>9 DEF PollerInv
<1>12. CASE io_open
  <2> DEFINE q == request.ocb
  <2>1. /\ request # None /\ request' = None /\ queue' = queue
        /\ waiting' = waiting /\ live' = live \cup {q}
        /\ \A o \in Ocbs : ~ Closing(o)
        /\ request.op \in {"open", "append"}
    BY <1>0, <1>12 DEF io_open, Handling, DispatchBusy, Return, Closing
  <2>2. q \notin live /\ q \in Ocbs
    BY <1>0, <2>1, RequestTyped DEF ListInv
  <2>3. \A o \in Ocbs \ {q} : notifyEvent'[o] = notifyEvent[o]
    BY <1>0, <1>12, <2>2 DEF io_open, Zeroed, TypeOK
  <2>4. \A c \in Clients : waiting'[c] = waiting[c] /\ (waiting'[c] # None => waiting'[c] \in live)
    BY <2>1 DEF PollerInv
  <2>5. \A o \in Ocbs, c \in Clients : waiting'[c] = o => o # q
    BY <2>2, <2>4, CanManagerAssumption
  <2>6. Pending' = Pending
    BY <1>1, <2>1
  <2>7. \A f \in Pending' : <<f.client, f.ocb>> \in Access
    BY <2>6 DEF PollerInv
  <2> QED
    BY <2>1, <2>3, <2>4, <2>5, <2>6, <2>7, PollerKept
<1>13. CASE CloseFree
  <2> DEFINE q == request.ocb
  <2>1. /\ request # None /\ request' = None /\ delayedQueue = <<>>
        /\ delayedQueue' = passed /\ passed' = <<>>
        /\ live' = live \ {q}
        /\ request.op = "close" /\ queueMutex = "dispatch"
    BY <1>0, <1>13 DEF CloseFree, Handling, DispatchBusy, Return
  <2>2. \A c \in Clients : waiting'[c] = IF waiting[c] = q THEN None ELSE waiting[c]
    BY <1>13 DEF CloseFree
  <2>3. q \in Ocbs /\ \A o \in Ocbs \ {q} : notifyEvent'[o] = notifyEvent[o]
    BY <1>0, <1>13, <2>1, RequestTyped DEF CloseFree, Zeroed, TypeOK
  <2>4. Pending' = Pending
    BY <2>1, MembersEmpty DEF Pending, Members
  <2>5. \A c \in Clients : /\ waiting'[c] \in {None, waiting[c]}
                           /\ waiting'[c] # None => waiting'[c] \in live'
    BY <2>1, <2>2 DEF PollerInv
  <2>6. \A c \in Clients, o \in Ocbs : waiting'[c] = o => o # q
    BY <2>2, CanManagerAssumption
  <2>7. \A o \in Ocbs : o # q => ~ Closing(o)
    BY DEF Closing
  <2>8. \A f \in Pending' : <<f.client, f.ocb>> \in Access
    BY <2>4 DEF PollerInv
  <2> QED
    BY <2>1, <2>3, <2>4, <2>5, <2>6, <2>7, <2>8, PollerKept
<1>14. CASE io_devctl
  <2>1. request \in Requests /\ request # None
    BY <1>0, <1>14 DEF io_devctl, TypeOK
  <2>2. /\ request'.client = request.client /\ request'.ocb = request.ocb
        /\ UNCHANGED <<waiting, live, notifyEvent, queue>>
        /\ \A o \in Ocbs : ~ Closing(o)
    BY <1>14, <2>1 DEF io_devctl, clients, Requests, Closing
  <2> QED
    BY <1>1, <1>2, <2>1, <2>2 DEF PollerInv
<1>15. ASSUME NEW c \in Clients, NEW o \in Ocbs, NEW op \in Ops,
              NEW arg \in Filters \cup {None}, Receive(c, o, op, arg)
       PROVE  PollerInv'
  <2>1. /\ request = None /\ Pending' = Pending /\ <<c, o>> \in Access
        /\ request'.client = c /\ request'.ocb = o
        /\ UNCHANGED <<live, notifyEvent, queueMutex>>
        /\ waiting' = [waiting EXCEPT ![c] = None]
    BY <1>1, <1>15 DEF Receive, ocbs
  <2>2. \A d \in Clients : /\ waiting'[d] \in {None, waiting[d]}
                           /\ waiting'[d] # None => waiting'[d] \in live'
    BY <1>0, <2>1 DEF PollerInv, TypeOK
  <2>3. \A q \in Ocbs : ~ Closing(q) /\ notifyEvent'[q] = notifyEvent[q]
    BY <1>0, <2>1 DEF DispatchBusy, Closing
  <2>4. \A f \in Pending' : <<f.client, f.ocb>> \in Access
    BY <2>1 DEF PollerInv
  <2> QED
    BY <2>1, <2>2, <2>3, <2>4, PollerKept
<1>16. ASSUME NEW c \in Clients, io_unblock(c) PROVE PollerInv'
  <2>1. UNCHANGED <<waiting, live, notifyEvent, queue, request, queueMutex>>
    BY <1>16 DEF io_unblock, ocbs
  <2> QED
    BY <1>1, <1>2, <2>1 DEF PollerInv, Closing
<1> QED
  BY <1>3, <1>4, <1>5, <1>6, <1>7, <1>8, <1>9, <1>10, <1>11, <1>12, <1>13, <1>14,
     <1>15, <1>16
  DEF Next, ReceiveThread, Dispatch, Environment

\* A client that armed a descriptor of its own has its event in the descriptor
\* and an element in the list, so the next frame it accepts wakes it.
THEOREM PollerNotForgotten == Spec => []PollerHasEvent
<1>1. Init => TypeInv /\ ListInv /\ PollerInv
  BY TypeInit, ListInit, PollerInit
<1>2. TypeInv /\ ListInv /\ PollerInv /\ [Next]_vars => (TypeInv /\ ListInv /\ PollerInv)'
  BY TypeStep, ListStep, PollerStep
<1>3. PollerInv => PollerHasEvent
  BY DEF PollerInv
<1> QED
  BY <1>1, <1>2, <1>3, PTL DEF Spec

-----------------------------------------------------------------------------
(***************************************************************************)
(* The reads of a descriptor that are in the list.                         *)
(***************************************************************************)
ReplyPlaces(Q, o) ==
    {i \in 1 .. Len(Q) : Q[i].ocb = o /\ Q[i].type = "ET_REPLY"}

\* There are finitely many.
LEMMA PlacesFinite ==
    ASSUME NEW Q \in Seq(Elements), NEW o
    PROVE  IsFiniteSet(ReplyPlaces(Q, o)) /\ Cardinality(ReplyPlaces(Q, o)) \in Nat
<1>1. Len(Q) \in Nat
  OBVIOUS
<1>2. IsFiniteSet(1 .. Len(Q))
  BY <1>1, FS_Interval
<1>3. ReplyPlaces(Q, o) \in SUBSET (1 .. Len(Q))
  BY DEF ReplyPlaces
<1>4. IsFiniteSet(ReplyPlaces(Q, o))
  BY <1>2, <1>3, FS_Subset
<1> QED
  BY <1>4, FS_CardinalityType

\* To keep an element is to leave the list as it is.
LEMMA KeepPlaces ==
    ASSUME NEW p \in Seq(Elements), NEW d \in Seq(Elements), d # <<>>
    PROVE  Append(p, Head(d)) \o Tail(d) = p \o d
<1> DEFINE a == Append(p, Head(d))
           t == Tail(d)
<1>1. Head(d) \in Elements /\ Head(d) = d[1] /\ Len(d) \in Nat \ {0} /\ Len(p) \in Nat
  BY HeadTail
<1>2. /\ a \in Seq(Elements) /\ Len(a) = Len(p) + 1
      /\ \A i \in 1 .. Len(p) : a[i] = p[i]
      /\ a[Len(p) + 1] = d[1]
  BY <1>1
<1>3. /\ t \in Seq(Elements) /\ Len(t) = Len(d) - 1
      /\ \A i \in 1 .. Len(t) : t[i] = d[i + 1]
  BY HeadTailProperties
<1> HIDE DEF a, t
<1> DEFINE x == a \o t
           y == p \o d
<1>4. /\ x \in Seq(Elements) /\ Len(x) = Len(a) + Len(t)
      /\ \A i \in 1 .. Len(a) + Len(t) : x[i] = IF i <= Len(a) THEN a[i] ELSE t[i - Len(a)]
  BY <1>2, <1>3, ConcatProperties
<1>5. /\ y \in Seq(Elements) /\ Len(y) = Len(p) + Len(d)
      /\ \A i \in 1 .. Len(p) + Len(d) : y[i] = IF i <= Len(p) THEN p[i] ELSE d[i - Len(p)]
  BY ConcatProperties
<1> HIDE DEF x, y
<1>6. Len(x) = Len(y)
  BY <1>1, <1>2, <1>3, <1>4, <1>5
<1>7. ASSUME NEW i \in 1 .. Len(x) PROVE x[i] = y[i]
  <2>a. Len(x) = Len(a) + Len(t)
    BY <1>4
  <2>b. Len(x) = Len(p) + Len(d)
    BY <1>5, <1>6
  <2>0. i \in 1 .. Len(p) + Len(d) /\ i \in 1 .. Len(a) + Len(t) /\ i \in Nat
    <3>1. i \in 1 .. Len(p) + Len(d) /\ i \in 1 .. Len(a) + Len(t)
      BY <1>7, <2>a, <2>b
    <3>2. i \in Nat
      BY <1>7
    <3> QED
      BY <3>1, <3>2
  <2>1. CASE i <= Len(p)
    <3>1. i \in 1 .. Len(p) /\ i <= Len(a)
      BY <1>1, <1>2, <2>0, <2>1
    <3>2. x[i] = a[i] /\ y[i] = p[i]
      BY <1>4, <1>5, <2>0, <2>1, <3>1
    <3> QED
      BY <1>2, <3>1, <3>2
  <2>2. CASE i = Len(p) + 1
    <3>1. i <= Len(a) /\ ~ (i <= Len(p)) /\ i - Len(p) = 1
      BY <1>1, <1>2, <2>2
    <3>2. x[i] = a[i] /\ y[i] = d[1]
      BY <1>4, <1>5, <2>0, <3>1
    <3> QED
      BY <1>2, <2>2, <3>2
  <2>3. CASE i > Len(p) + 1
    <3>1. i - Len(a) \in 1 .. Len(t) /\ (i - Len(a)) + 1 = i - Len(p)
      BY <1>1, <1>2, <1>3, <2>0, <2>3
    <3>2. x[i] = t[i - Len(a)] /\ y[i] = d[i - Len(p)]
      BY <1>1, <1>2, <1>4, <1>5, <2>0, <2>3
    <3> QED
      BY <1>3, <3>1, <3>2
  <2> QED
    BY <1>1, <2>1, <2>2, <2>3
<1>8. x = y
  BY <1>4, <1>5, <1>6, <1>7, SeqEqual
<1> QED
  BY <1>8 DEF x, y, a, t

\* To erase a read is to have one less.
LEMMA ErasePlaces ==
    ASSUME NEW p \in Seq(Elements), NEW d \in Seq(Elements), d # <<>>, NEW o
    PROVE  Cardinality(ReplyPlaces(p \o Tail(d), o)) <=
             IF Head(d).ocb = o /\ Head(d).type = "ET_REPLY"
             THEN Cardinality(ReplyPlaces(p \o d, o)) - 1
             ELSE Cardinality(ReplyPlaces(p \o d, o))
<1> DEFINE t == Tail(d)
           k == Len(p) + 1
           x == p \o t
           y == p \o d
           X == ReplyPlaces(x, o)
           Y == ReplyPlaces(y, o)
           f == [i \in X |-> IF i < k THEN i ELSE i + 1]
<1>1. Head(d) = d[1] /\ Len(d) \in Nat \ {0} /\ Len(p) \in Nat
  BY HeadTail
<1>2. /\ t \in Seq(Elements) /\ Len(t) = Len(d) - 1
      /\ \A i \in 1 .. Len(t) : t[i] = d[i + 1]
  BY HeadTailProperties
<1> HIDE DEF t
<1>3. /\ x \in Seq(Elements) /\ Len(x) = Len(p) + Len(t)
      /\ \A i \in 1 .. Len(p) + Len(t) : x[i] = IF i <= Len(p) THEN p[i] ELSE t[i - Len(p)]
  BY <1>2, ConcatProperties
<1>4. /\ y \in Seq(Elements) /\ Len(y) = Len(p) + Len(d)
      /\ \A i \in 1 .. Len(p) + Len(d) : y[i] = IF i <= Len(p) THEN p[i] ELSE d[i - Len(p)]
  BY ConcatProperties
<1> HIDE DEF x, y
<1>5. Len(y) = Len(x) + 1 /\ k \in 1 .. Len(y)
  BY <1>1, <1>2, <1>3, <1>4
<1>6. y[k] = Head(d)
  <2>1. k \in 1 .. Len(p) + Len(d) /\ ~ (k <= Len(p)) /\ k - Len(p) = 1
    BY <1>1
  <2> QED
    BY <1>1, <1>4, <2>1
<1>7. ASSUME NEW i \in 1 .. Len(x) PROVE x[i] = IF i < k THEN y[i] ELSE y[i + 1]
  <2>0. i \in 1 .. Len(p) + Len(t) /\ i \in Nat
    BY <1>1, <1>2, <1>3, <1>7
  <2>1. CASE i < k
    <3>1. i \in 1 .. Len(p) + Len(d) /\ i <= Len(p)
      BY <1>1, <1>2, <2>0, <2>1
    <3> QED
      BY <1>3, <1>4, <2>0, <2>1, <3>1
  <2>2. CASE ~ (i < k)
    <3>1. /\ i + 1 \in 1 .. Len(p) + Len(d) /\ ~ (i + 1 <= Len(p)) /\ ~ (i <= Len(p))
          /\ i - Len(p) \in 1 .. Len(t)
          /\ (i + 1) - Len(p) = (i - Len(p)) + 1
      BY <1>1, <1>2, <2>0, <2>2
    <3>2. x[i] = t[i - Len(p)] /\ y[i + 1] = d[(i - Len(p)) + 1]
      BY <1>3, <1>4, <2>0, <3>1
    <3> QED
      BY <1>2, <2>2, <3>1, <3>2
  <2> QED
    BY <2>1, <2>2
<1>8. k \in Nat /\ Len(x) \in Nat
  BY <1>1, <1>2, <1>3
<1> HIDE DEF k
<1>9. X \subseteq 1 .. Len(x)
  BY DEF ReplyPlaces
<1>10. ASSUME NEW i \in X PROVE f[i] \in Y \ {k}
  <2>1. i \in 1 .. Len(x) /\ x[i].ocb = o /\ x[i].type = "ET_REPLY"
    BY DEF ReplyPlaces
  <2>2. CASE i < k
    <3>1. f[i] = i /\ i \in 1 .. Len(y) /\ i # k
      BY <1>5, <1>8, <2>1, <2>2
    <3> QED
      BY <1>7, <2>1, <2>2, <3>1 DEF ReplyPlaces
  <2>3. CASE ~ (i < k)
    <3>1. f[i] = i + 1 /\ i + 1 \in 1 .. Len(y) /\ i + 1 # k
      BY <1>5, <1>8, <2>1, <2>3
    <3> QED
      BY <1>7, <2>1, <2>3, <3>1 DEF ReplyPlaces
  <2> QED
    BY <2>2, <2>3
<1>11. ASSUME NEW i \in X, NEW j \in X, f[i] = f[j] PROVE i = j
  <2>1. i \in Nat /\ j \in Nat
    BY <1>8, <1>9
  <2>2. f[i] = (IF i < k THEN i ELSE i + 1) /\ f[j] = (IF j < k THEN j ELSE j + 1)
    OBVIOUS
  <2> QED
    BY <1>8, <1>11, <2>1, <2>2
<1>12. f \in Injection(X, Y \ {k})
  <2>1. f \in [X -> Y \ {k}] /\ DOMAIN f = X
    BY <1>10
  <2> HIDE DEF f
  <2> QED
    BY <1>11, <2>1 DEF Injection, IsInjective
<1>13. IsFiniteSet(Y) /\ Cardinality(Y) \in Nat /\ Cardinality(X) \in Nat
  BY <1>3, <1>4, PlacesFinite
<1>14. IsFiniteSet(Y \ {k})
       /\ Cardinality(Y \ {k}) = IF k \in Y THEN Cardinality(Y) - 1 ELSE Cardinality(Y)
  BY <1>13, FS_RemoveElement
<1>15. Cardinality(X) <= Cardinality(Y \ {k})
  <2> HIDE DEF f, X, Y
  <2> QED
    BY <1>12, <1>14, FS_Injection
<1>16. k \in Y <=> Head(d).ocb = o /\ Head(d).type = "ET_REPLY"
  BY <1>5, <1>6 DEF ReplyPlaces
<1>17. CASE k \in Y
  <2>1. Cardinality(X) <= Cardinality(Y) - 1
    BY <1>14, <1>15, <1>17
  <2>2. Head(d).ocb = o /\ Head(d).type = "ET_REPLY"
    BY <1>16, <1>17
  <2> QED
    BY <2>1, <2>2 DEF x, y, t
<1>18. CASE k \notin Y
  <2>1. Cardinality(X) <= Cardinality(Y)
    BY <1>14, <1>15, <1>18
  <2>2. ~ (Head(d).ocb = o /\ Head(d).type = "ET_REPLY")
    BY <1>16, <1>18
  <2> QED
    BY <2>1, <2>2 DEF x, y, t
<1> QED
  BY <1>17, <1>18

\* To append a read is to have at most one more.
LEMMA AppendPlaces ==
    ASSUME NEW p \in Seq(Elements), NEW d \in Seq(Elements), NEW e \in Elements, NEW o
    PROVE  Cardinality(ReplyPlaces(p \o Append(d, e), o)) <=
             IF e.ocb = o /\ e.type = "ET_REPLY"
             THEN Cardinality(ReplyPlaces(p \o d, o)) + 1
             ELSE Cardinality(ReplyPlaces(p \o d, o))
<1> DEFINE t == Append(d, e)
           x == p \o t
           y == p \o d
           X == ReplyPlaces(x, o)
           Y == ReplyPlaces(y, o)
           k == Len(y) + 1
<1>1. Len(d) \in Nat /\ Len(p) \in Nat
  OBVIOUS
<1>2. /\ t \in Seq(Elements) /\ Len(t) = Len(d) + 1
      /\ \A i \in 1 .. Len(d) : t[i] = d[i]
      /\ t[Len(d) + 1] = e
  BY <1>1
<1> HIDE DEF t
<1>3. /\ x \in Seq(Elements) /\ Len(x) = Len(p) + Len(t)
      /\ \A i \in 1 .. Len(p) + Len(t) : x[i] = IF i <= Len(p) THEN p[i] ELSE t[i - Len(p)]
  BY <1>2, ConcatProperties
<1>4. /\ y \in Seq(Elements) /\ Len(y) = Len(p) + Len(d)
      /\ \A i \in 1 .. Len(p) + Len(d) : y[i] = IF i <= Len(p) THEN p[i] ELSE d[i - Len(p)]
  BY ConcatProperties
<1> HIDE DEF x, y
<1>5. Len(x) = Len(y) + 1 /\ Len(y) \in Nat
  BY <1>1, <1>2, <1>3, <1>4
<1>6. ASSUME NEW i \in 1 .. Len(y) PROVE x[i] = y[i]
  <2>0. i \in 1 .. Len(p) + Len(t) /\ i \in 1 .. Len(p) + Len(d) /\ i \in Nat
    BY <1>1, <1>2, <1>3, <1>4, <1>5, <1>6
  <2>1. CASE i <= Len(p)
    BY <1>3, <1>4, <2>0, <2>1
  <2>2. CASE ~ (i <= Len(p))
    <3>1. i - Len(p) \in 1 .. Len(d)
      BY <1>1, <2>0, <2>2
    <3>2. x[i] = t[i - Len(p)] /\ y[i] = d[i - Len(p)]
      BY <1>3, <1>4, <2>0, <2>2
    <3> QED
      BY <1>2, <3>1, <3>2
  <2> QED
    BY <2>1, <2>2
<1>7. x[k] = e
  <2>1. k \in 1 .. Len(p) + Len(t) /\ ~ (k <= Len(p)) /\ k - Len(p) = Len(d) + 1
    BY <1>1, <1>2, <1>4
  <2> QED
    BY <1>2, <1>3, <2>1
<1>8. IsFiniteSet(Y) /\ Cardinality(Y) \in Nat /\ IsFiniteSet(X) /\ Cardinality(X) \in Nat
  BY <1>3, <1>4, PlacesFinite
<1>9. ASSUME NEW i \in X PROVE i \in Y \/ (i = k /\ e.ocb = o /\ e.type = "ET_REPLY")
  <2>1. i \in 1 .. Len(x) /\ x[i].ocb = o /\ x[i].type = "ET_REPLY"
    BY DEF ReplyPlaces
  <2>2. i \in 1 .. Len(y) \/ i = k
    BY <1>5, <2>1
  <2> QED
    BY <1>6, <1>7, <2>1, <2>2 DEF ReplyPlaces
<1> HIDE DEF X, Y, k
<1>10. CASE e.ocb = o /\ e.type = "ET_REPLY"
  <2>1. X \in SUBSET (Y \cup {k})
    BY <1>9
  <2> DEFINE m == Cardinality(Y)
             n == Cardinality(Y \cup {k})
  <2>5. IsFiniteSet(Y \cup {k}) /\ n = IF k \in Y THEN m ELSE m + 1
    BY <1>8, FS_AddElement
  <2>6. m \in Nat
    BY <1>8
  <2> HIDE DEF m, n
  <2>7. n \in Nat /\ n <= m + 1
    BY <2>5, <2>6
  <2>2. IsFiniteSet(Y \cup {k}) /\ Cardinality(Y \cup {k}) \in Nat
        /\ Cardinality(Y \cup {k}) <= Cardinality(Y) + 1
    BY <2>5, <2>7 DEF m, n
  <2>3. Cardinality(X) <= Cardinality(Y \cup {k})
    BY <2>1, <2>2, FS_Subset
  <2>4. Cardinality(X) <= Cardinality(Y) + 1
    BY <1>8, <2>2, <2>3
  <2> QED
    BY <1>10, <2>4 DEF X, Y, x, y, t
<1>11. CASE ~ (e.ocb = o /\ e.type = "ET_REPLY")
  <2>1. X \in SUBSET Y
    BY <1>9, <1>11
  <2>2. Cardinality(X) <= Cardinality(Y)
    BY <1>8, <2>1, FS_Subset
  <2> QED
    BY <1>11, <2>2 DEF X, Y, x, y, t
<1> QED
  BY <1>10, <1>11

-----------------------------------------------------------------------------
(***************************************************************************)
(* The budget of a descriptor.                                             *)
(***************************************************************************)

\* What the budget adds up are numbers.
LEMMA BudgetTyped ==
    ASSUME TypeOK, IsFiniteSet(BlockedClients), NEW o \in Ocbs
    PROVE  /\ lost[o] \in Nat /\ interrupts[o] \in Nat
           /\ Orphan(o) \in {0, 1}
           /\ Reads(o) \in Nat
           /\ Reads(o) = Cardinality(ReplyPlaces(passed \o delayedQueue, o))
           /\ IsFiniteSet(WaitingReaders(o))
           /\ Cardinality(WaitingReaders(o)) \in Nat
<1>1. passed \o delayedQueue \in Seq(Elements)
  BY DEF TypeOK
<1>2. Reads(o) = Cardinality(ReplyPlaces(passed \o delayedQueue, o))
  BY DEF Reads, ReplyPlaces
<1>3. Reads(o) \in Nat
  BY <1>1, <1>2, PlacesFinite
<1>4. WaitingReaders(o) \in SUBSET BlockedClients
  BY DEF WaitingReaders, BlockedClients, Reading, BlockedOn
<1>5. IsFiniteSet(WaitingReaders(o))
  BY <1>4, FS_Subset
<1>6. Cardinality(WaitingReaders(o)) \in Nat
  BY <1>5, FS_CardinalityType
<1> QED
  BY <1>2, <1>3, <1>5, <1>6 DEF TypeOK, Orphan

\* A step keeps the budget when it adds no more to the debt than to what pays.
LEMMA BudgetKept ==
    ASSUME TypeOK, BudgetInv, NEW o \in live, ~ Closing(o),
           lost'[o] \in Nat, interrupts'[o] \in Nat, Reads(o)' \in Nat,
           Orphan(o)' \in {0, 1}, Cardinality(WaitingReaders(o))' \in Nat,
           NEW x \in Int, NEW y \in Int, x <= y,
           lost'[o] + Reads(o)' + Orphan(o)' <= lost[o] + Reads(o) + Orphan(o) + x,
           interrupts'[o] + Cardinality(WaitingReaders(o))' >=
             interrupts[o] + Cardinality(WaitingReaders(o)) + y
    PROVE  Owed(o)' <= Paid(o)'
<1>1. o \in Ocbs
  BY DEF TypeOK
<1>2. /\ lost[o] \in Nat /\ interrupts[o] \in Nat /\ Orphan(o) \in {0, 1}
      /\ Reads(o) \in Nat /\ Cardinality(WaitingReaders(o)) \in Nat
  BY <1>1, BudgetTyped DEF BudgetInv
<1>3. lost[o] + Reads(o) + Orphan(o) <= interrupts[o] + Cardinality(WaitingReaders(o))
  BY DEF BudgetInv, Owed, Paid
<1>4. Owed(o)' = lost'[o] + Reads(o)' + Orphan(o)'
  BY DEF Owed
<1>5. Paid(o)' = interrupts'[o] + Cardinality(WaitingReaders(o))'
  BY DEF Paid
<1> QED
  BY <1>2, <1>3, <1>4, <1>5

\* At the start nothing is owed.
LEMMA BudgetInit == Init => BudgetInv
<1> SUFFICES ASSUME Init PROVE BudgetInv
  OBVIOUS
<1>1. BlockedClients = {}
  BY DEF Init, BlockedClients
<1> QED
  BY <1>1, FS_EmptySet DEF Init, BudgetInv

\* Only finitely many clients are blocked, since each step blocks one at most.
LEMMA BlockedStep ==
    ASSUME TypeInv, IsFiniteSet(BlockedClients), [Next]_vars
    PROVE  IsFiniteSet(BlockedClients)'
<1>0. TypeOK /\ DispatchBusy
  BY DEF TypeInv
<1>1. ASSUME BlockedClients' \subseteq BlockedClients PROVE IsFiniteSet(BlockedClients)'
  BY <1>1, FS_Subset
<1>2. ASSUME NEW c, NEW o, MsgReply(c, o) PROVE BlockedClients' \subseteq BlockedClients
  BY <1>0, <1>2 DEF MsgReply, BlockedClients, TypeOK
<1>3. ASSUME blocked' = blocked PROVE BlockedClients' \subseteq BlockedClients
  BY <1>3 DEF BlockedClients
<1>4. CASE UNCHANGED vars
  BY <1>1, <1>3, <1>4 DEF vars, clients
<1>5. CASE ReceiveThread
  BY <1>1, <1>2, <1>3, <1>5
  DEF ReceiveThread, ReadMessage, ReadMessageDone, LockForWalk, WalkSkip, WalkReject,
      WalkReply, ReplyFrame, WalkNotify, Publish, clients
<1>6. CASE Dispatch
  BY <1>1, <1>2, <1>3, <1>6
  DEF Dispatch, Refuse, LockForRequest, ReadFound, ReadEmpty, ReadDelayed, NotifyFound,
      NotifyNone, NotifyArm, io_open, CloseErase, CloseKeep, CloseFree, io_devctl,
      io_devctl_return, ReplyFrame, clients
<1>7. ASSUME NEW c \in Clients, NEW o \in Ocbs, NEW op \in Ops,
             NEW arg \in Filters \cup {None}, Receive(c, o, op, arg)
      PROVE  IsFiniteSet(BlockedClients)'
  <2>1. BlockedClients' \in SUBSET (BlockedClients \cup {c})
    BY <1>0, <1>7 DEF Receive, BlockedClients, TypeOK
  <2>2. IsFiniteSet(BlockedClients \cup {c})
    BY FS_AddElement
  <2> QED
    BY <2>1, <2>2, FS_Subset
<1>8. ASSUME NEW c \in Clients, io_unblock(c) PROVE IsFiniteSet(BlockedClients)'
  BY <1>1, <1>2, <1>8 DEF io_unblock
<1> QED
  BY <1>4, <1>5, <1>6, <1>7, <1>8 DEF Next, Environment

\* How the reads in the list change.
LEMMA ReadsSame ==
    ASSUME TypeOK, NEW o,
           \/ UNCHANGED queue
           \/ delayedQueue # <<>> /\ Keep
           \/ delayedQueue = <<>> /\ delayedQueue' = passed /\ passed' = <<>>
    PROVE  Reads(o)' = Reads(o)
<1>1. passed' \o delayedQueue' = passed \o delayedQueue
  BY KeepPlaces, ConcatEmptySeq DEF TypeOK, queue, Keep
<1> QED
  BY <1>1 DEF Reads

\* An erased read is one less.
LEMMA ReadsErase ==
    ASSUME TypeOK, TypeOK', NEW o, delayedQueue # <<>>, Erase
    PROVE  Reads(o)' <= IF Head(delayedQueue).ocb = o /\ Head(delayedQueue).type = "ET_REPLY"
                        THEN Reads(o) - 1 ELSE Reads(o)
<1>1. passed \in Seq(Elements) /\ delayedQueue \in Seq(Elements)
  BY DEF TypeOK
<1>2. Reads(o)' = Cardinality(ReplyPlaces(passed \o Tail(delayedQueue), o))
  BY DEF Reads, ReplyPlaces, Erase
<1>3. Reads(o) = Cardinality(ReplyPlaces(passed \o delayedQueue, o))
  BY DEF Reads, ReplyPlaces
<1> QED
  BY <1>1, <1>2, <1>3, ErasePlaces

\* An appended read is one more.
LEMMA ReadsAppend ==
    ASSUME TypeOK, NEW o, NEW e \in Elements, passed' = passed,
           delayedQueue' = Append(delayedQueue, e)
    PROVE  Reads(o)' <= IF e.ocb = o /\ e.type = "ET_REPLY" THEN Reads(o) + 1 ELSE Reads(o)
<1>1. passed \in Seq(Elements) /\ delayedQueue \in Seq(Elements)
  BY DEF TypeOK
<1>2. Reads(o)' = Cardinality(ReplyPlaces(passed \o Append(delayedQueue, e), o))
  BY DEF Reads, ReplyPlaces
<1>3. Reads(o) = Cardinality(ReplyPlaces(passed \o delayedQueue, o))
  BY DEF Reads, ReplyPlaces
<1> QED
  BY <1>1, <1>2, <1>3, AppendPlaces

\* How many there are is a number.
LEMMA ReadsTyped ==
    ASSUME TypeOK', NEW o
    PROVE  Reads(o)' \in Nat
<1>1. (passed \o delayedQueue)' \in Seq(Elements)
  BY DEF TypeOK
<1>2. Reads(o)' = Cardinality(ReplyPlaces((passed \o delayedQueue)', o))
  BY DEF Reads, ReplyPlaces
<1> QED
  BY <1>1, <1>2, PlacesFinite

\* A descriptor that is closed has no element.
LEMMA NoReads ==
    ASSUME TypeOK, ListInv, NEW o, o \notin live
    PROVE  Reads(o) = 0
<1> DEFINE Q == passed \o delayedQueue
<1>1. /\ passed \in Seq(Elements) /\ delayedQueue \in Seq(Elements)
      /\ Len(passed) \in Nat /\ Len(delayedQueue) \in Nat
  BY DEF TypeOK
<1>2. /\ Len(Q) = Len(passed) + Len(delayedQueue)
      /\ \A i \in 1 .. Len(passed) + Len(delayedQueue) :
           Q[i] = IF i <= Len(passed) THEN passed[i] ELSE delayedQueue[i - Len(passed)]
  BY <1>1, ConcatProperties
<1> HIDE DEF Q
<1>3. ASSUME NEW i \in 1 .. Len(Q) PROVE Q[i] \in Pending
  <2>0. i \in 1 .. Len(passed) + Len(delayedQueue)
    BY <1>2
  <2>1. CASE i <= Len(passed)
    <3>1. i \in 1 .. Len(passed) /\ Q[i] = passed[i]
      BY <1>1, <1>2, <2>0, <2>1
    <3> QED
      BY <3>1 DEF Pending, Members
  <2>2. CASE ~ (i <= Len(passed))
    <3>1. i - Len(passed) \in 1 .. Len(delayedQueue)
      BY <1>1, <2>0, <2>2
    <3>2. Q[i] = delayedQueue[i - Len(passed)]
      BY <1>2, <2>0, <2>2
    <3> QED
      BY <3>1, <3>2 DEF Pending, Members
  <2> QED
    BY <2>1, <2>2
<1>4. ReplyPlaces(Q, o) = {}
  BY <1>3 DEF ReplyPlaces, ListInv
<1>5. Reads(o) = Cardinality(ReplyPlaces(Q, o))
  BY DEF Reads, ReplyPlaces, Q
<1> QED
  BY <1>4, <1>5, FS_EmptySet

\* How the waiting readers change: a reply to an element, to an interrupted
\* client, to the request in hand.
LEMMA ReplyWaits ==
    ASSUME TypeOK, NEW c \in Clients, NEW o, MsgReply(c, o), request' = request, NEW q
    PROVE  /\ WaitingReaders(q)' = IF q = o THEN WaitingReaders(q) \ {c}
                                   ELSE WaitingReaders(q)
           /\ q # o \/ request = None \/ request.client # c \/ ~ Reading(c, o)
                => Orphan(q)' = Orphan(q)
<1>1. ASSUME NEW d \in Clients, q # o \/ d # c PROVE Reading(d, q)' <=> Reading(d, q)
  BY <1>1 DEF MsgReply, BlockedOn, Reading, TypeOK
<1>2. q = o => ~ Reading(c, q)'
  BY DEF MsgReply, BlockedOn, Reading, TypeOK
<1>3. WaitingReaders(q)' = IF q = o THEN WaitingReaders(q) \ {c} ELSE WaitingReaders(q)
  BY <1>1, <1>2 DEF WaitingReaders
<1>4. request # None => request.client \in Clients
  BY RequestTyped
<1>5. Reading(c, o)' => Reading(c, o)
  BY DEF MsgReply, BlockedOn, Reading, TypeOK
<1> QED
  BY <1>1, <1>3, <1>4, <1>5 DEF Orphan

\* An answered request is neither a waiting reader nor an orphan any more.
LEMMA ReplyEnds ==
    ASSUME TypeOK, ReaderInv, request # None, request' = None,
           MsgReply(request.client, request.ocb), NEW q
    PROVE  WaitingReaders(q)' = WaitingReaders(q) /\ Orphan(q)' = 0
<1> DEFINE c == request.client
<1>1. c \in Clients
  BY RequestTyped
<1>2. blocked'[c] = None
  BY <1>1 DEF MsgReply, BlockedOn, TypeOK, ReaderInv
<1>3. \A d \in Clients : d # c => blocked'[d] = blocked[d]
  BY <1>1, ReplyUnblocks
<1> QED
  BY <1>1, <1>2, <1>3 DEF WaitingReaders, Orphan, Reading, BlockedOn

\* No step owes a descriptor more than it pays.
LEMMA BudgetStep ==
    ASSUME TypeInv, TypeOK', ListInv, ReaderInv, BudgetInv, [Next]_vars
    PROVE  BudgetInv'
<1>0. TypeOK /\ DispatchBusy /\ WalkLocks
  BY DEF TypeInv
<1>1. IsFiniteSet(BlockedClients) /\ IsFiniteSet(BlockedClients)'
  BY BlockedStep DEF BudgetInv
<1> SUFFICES ASSUME NEW o \in live', ~ Closing(o)' PROVE Owed(o)' <= Paid(o)'
  BY <1>1 DEF BudgetInv
<1> DEFINE W == WaitingReaders(o)
           C == Cardinality(W)
<1>2. o \in Ocbs
  BY DEF TypeOK
<1>3. /\ lost[o] \in Nat /\ interrupts[o] \in Nat /\ Orphan(o) \in {0, 1}
      /\ Reads(o) \in Nat /\ IsFiniteSet(W) /\ C \in Nat
  BY <1>0, <1>1, <1>2, BudgetTyped
<1>4. /\ lost'[o] \in Nat /\ interrupts'[o] \in Nat /\ Orphan(o)' \in {0, 1}
      /\ Reads(o)' \in Nat /\ C' \in Nat
  <2>1. Reads(o)' \in Nat
    BY ReadsTyped
  <2>2. W' \in SUBSET BlockedClients'
    BY DEF WaitingReaders, BlockedClients, Reading, BlockedOn
  <2>3. IsFiniteSet(W') /\ Cardinality(W') \in Nat
    BY <1>1, <2>2, FS_Subset, FS_CardinalityType
  <2> QED
    BY <1>2, <2>1, <2>3 DEF TypeOK, Orphan
<1> HIDE DEF W
<1>5. ASSUME o \in live, ~ Closing(o), lost'[o] <= lost[o], interrupts'[o] >= interrupts[o],
             Reads(o)' <= Reads(o), Orphan(o)' <= Orphan(o), C' >= C
      PROVE  Owed(o)' <= Paid(o)'
  <2>1. lost'[o] + Reads(o)' + Orphan(o)' <= lost[o] + Reads(o) + Orphan(o) + 0
    BY <1>3, <1>4, <1>5
  <2>2. interrupts'[o] + C' >= interrupts[o] + C + 0
    BY <1>3, <1>4, <1>5
  <2> QED
    BY <1>0, <1>4, <1>5, <2>1, <2>2, BudgetKept DEF W
\* Neither the clients nor the request are touched.
<1>6. ASSUME UNCHANGED <<blocked, request>> PROVE W' = W /\ Orphan(o)' = Orphan(o)
  BY <1>6 DEF W, WaitingReaders, Orphan, Reading, BlockedOn
<1>7. ASSUME UNCHANGED <<blocked, request, lost, interrupts>>, Reads(o)' <= Reads(o),
             o \in live, ~ Closing(o)
      PROVE  Owed(o)' <= Paid(o)'
  BY <1>3, <1>5, <1>6, <1>7
<1>8. CASE UNCHANGED vars
  <2>1. UNCHANGED <<blocked, request, lost, interrupts, queue, live, queueMutex>>
    BY <1>8 DEF vars, clients, history, ocbs
  <2> QED
    BY <1>0, <1>3, <1>7, <2>1, ReadsSame DEF Closing
<1>9. CASE ReadMessage \/ (\E id \in Ids : ReadMessageDone(id)) \/ LockForWalk
           \/ LockForRequest
  <2>1. UNCHANGED <<blocked, request, lost, interrupts, queue, live>>
    BY <1>9 DEF ReadMessage, ReadMessageDone, LockForWalk, LockForRequest, clients, ocbs,
       history
  <2>2. ~ Closing(o)
    BY <1>9, <2>1 DEF ReadMessage, ReadMessageDone, LockForWalk, LockForRequest, Closing
  <2> QED
    BY <1>0, <1>3, <1>7, <2>1, <2>2, ReadsSame
<1>10. CASE WalkSkip \/ WalkReject \/ CloseKeep
  <2>1. /\ UNCHANGED <<blocked, request, lost, interrupts, live, queueMutex>>
        /\ delayedQueue # <<>> /\ Keep
    BY <1>10 DEF WalkSkip, WalkReject, CloseKeep, clients, ocbs, history
  <2> QED
    BY <1>0, <1>3, <1>7, <2>1, ReadsSame DEF Closing
<1>11. CASE Publish
  <2>1. /\ UNCHANGED <<blocked, request, lost, interrupts, live>>
        /\ delayedQueue = <<>> /\ delayedQueue' = passed /\ passed' = <<>>
        /\ pc = "walk"
    BY <1>11 DEF Publish, clients, ocbs, history
  <2>2. ~ Closing(o)
    BY <1>0, <2>1 DEF WalkLocks, Closing
  <2> QED
    BY <1>0, <1>3, <1>7, <2>1, <2>2, ReadsSame
<1>12. CASE WalkNotify
  <2>1. /\ UNCHANGED <<blocked, request, lost, interrupts, live, queueMutex>>
        /\ delayedQueue # <<>> /\ Erase
    BY <1>12 DEF WalkNotify, history
  <2>2. Reads(o)' <= Reads(o)
    BY <1>0, <1>3, <1>4, <2>1, ReadsErase
  <2> QED
    BY <1>7, <2>1, <2>2 DEF Closing
<1>13. ASSUME NEW e, e = Head(delayedQueue), delayedQueue # <<>>, Erase, e.ocb # o,
              MsgReply(e.client, e.ocb), UNCHANGED <<request, queueMutex, live>>,
              lost'[o] = lost[o], interrupts'[o] = interrupts[o]
       PROVE  Owed(o)' <= Paid(o)'
  <2>1. e.client \in Clients
    BY <1>0, <1>13, ListHead
  <2>2. W' = W /\ Orphan(o)' = Orphan(o)
    BY <1>0, <1>13, <2>1, ReplyWaits DEF W
  <2>3. Reads(o)' <= Reads(o)
    BY <1>0, <1>3, <1>4, <1>13, ReadsErase
  <2>4. o \in live /\ ~ Closing(o)
    BY <1>13 DEF Closing
  <2> QED
    BY <1>3, <1>5, <1>13, <2>2, <2>3, <2>4
<1>14. CASE WalkReply
  <2> DEFINE e == Head(delayedQueue)
  <2>1. /\ delayedQueue # <<>> /\ Erase /\ e.type = "ET_REPLY"
        /\ UNCHANGED <<request, queueMutex, live, interrupts>>
        /\ ReplyFrame(e.client, e.ocb, Slot(queueHead))
    BY <1>14 DEF WalkReply
  <2>2. e.client \in Clients /\ e.ocb \in Ocbs /\ MsgReply(e.client, e.ocb)
    BY <1>0, <2>1, ListHead DEF ReplyFrame
  <2>3. CASE e.ocb # o
    <3>1. lost'[o] = lost[o]
      BY <1>0, <1>2, <2>1, <2>3 DEF ReplyFrame, TypeOK
    <3> QED
      BY <1>13, <2>1, <2>2, <2>3, <3>1
  <2>4. CASE e.ocb = o
    <3>1. W' = W \ {e.client}
      BY <1>0, <2>1, <2>2, <2>4, ReplyWaits DEF W
    <3>2. Reads(o)' <= Reads(o) - 1
      BY <1>0, <2>1, <2>4, ReadsErase
    <3>3. o \in live /\ ~ Closing(o)
      BY <2>1 DEF Closing
    <3>4. request = None \/ request.client # e.client => Orphan(o)' = Orphan(o)
      BY <1>0, <2>1, <2>2, ReplyWaits
    <3>5. CASE ~ Reading(e.client, o)
      <4>1. lost'[o] = lost[o] + 1
        BY <1>0, <1>2, <2>1, <2>4, <3>5 DEF ReplyFrame, TypeOK
      <4>2. e.client \notin W
        BY <3>5 DEF W, WaitingReaders
      <4>3. W' = W
        BY <3>1, <4>2
      <4>4. Orphan(o)' = Orphan(o)
        BY <1>0, <2>1, <2>2, <2>4, <3>5, ReplyWaits
      <4>5. lost'[o] + Reads(o)' + Orphan(o)' <= lost[o] + Reads(o) + Orphan(o) + 0
        BY <1>3, <1>4, <3>2, <4>1, <4>4
      <4>6. interrupts'[o] + C' >= interrupts[o] + C + 0
        BY <1>3, <2>1, <4>3
      <4> QED
        BY <1>0, <1>4, <3>3, <4>5, <4>6, BudgetKept DEF W
    <3>6. CASE Reading(e.client, o)
      <4>1. lost' = lost
        BY <2>1, <2>4, <3>6 DEF ReplyFrame
      <4>2. CASE e.client \in W
        <5>1. request = None \/ request.client # e.client
          BY <4>2 DEF W, WaitingReaders
        <5>2. C' = C - 1
          BY <1>3, <3>1, <4>2, FS_RemoveElement
        <5>3. lost'[o] + Reads(o)' + Orphan(o)' <= lost[o] + Reads(o) + Orphan(o) + (-1)
          BY <1>3, <1>4, <3>2, <3>4, <4>1, <5>1
        <5>4. interrupts'[o] + C' >= interrupts[o] + C + (-1)
          BY <1>3, <2>1, <5>2
        <5> QED
          BY <1>0, <1>4, <3>3, <5>3, <5>4, BudgetKept DEF W
      <4>3. CASE e.client \notin W
        <5>1. request # None /\ request.client = e.client
          BY <2>2, <3>6, <4>3 DEF W, WaitingReaders
        <5>2. W' = W
          BY <3>1, <4>3
        <5>3. Orphan(o) = 0
          BY <3>6, <5>1 DEF Orphan
        <5>4. lost'[o] + Reads(o)' + Orphan(o)' <= lost[o] + Reads(o) + Orphan(o) + 0
          BY <1>3, <1>4, <3>2, <4>1, <5>3
        <5>5. interrupts'[o] + C' >= interrupts[o] + C + 0
          BY <1>3, <2>1, <5>2
        <5> QED
          BY <1>0, <1>4, <3>3, <5>4, <5>5, BudgetKept DEF W
      <4> QED
        BY <4>2, <4>3
    <3> QED
      BY <3>5, <3>6
  <2> QED
    BY <2>3, <2>4
<1>15. CASE CloseErase
  <2> DEFINE e == Head(delayedQueue)
  <2>1. /\ delayedQueue # <<>> /\ Erase /\ e.ocb = request.ocb
        /\ UNCHANGED <<request, queueMutex, live, lost, interrupts>>
        /\ MsgReply(e.client, e.ocb) /\ Closing(request.ocb)
    BY <1>15 DEF CloseErase, Handling, Closing, ocbs, history
  <2>2. o # e.ocb
    BY <2>1 DEF Closing
  <2> QED
    BY <1>13, <2>1, <2>2
\* The handler replies to its request and ends.
<1>16. ASSUME request # None, request' = None, MsgReply(request.client, request.ocb),
              lost'[o] <= lost[o], interrupts' = interrupts, Reads(o)' <= Reads(o),
              o \in live, ~ Closing(o)
       PROVE  Owed(o)' <= Paid(o)'
  <2>1. W' = W /\ Orphan(o)' = 0
    BY <1>0, <1>16, ReplyEnds DEF W
  <2> QED
    BY <1>3, <1>5, <1>16, <2>1
<1>17. CASE Refuse \/ io_devctl_return \/ ReadEmpty \/ NotifyFound \/ NotifyNone
  <2>1. /\ request # None /\ request' = None /\ MsgReply(request.client, request.ocb)
        /\ UNCHANGED <<lost, interrupts, queue, live>> /\ ~ Closing(o)
    BY <1>0, <1>17 DEF Refuse, io_devctl_return, ReadEmpty, NotifyFound, NotifyNone,
       Handling, DispatchBusy, Return, Closing, ReadOps, PollOps, ocbs, history
  <2>2. Reads(o)' = Reads(o)
    BY <1>0, <2>1, ReadsSame
  <2> QED
    BY <1>3, <1>16, <2>1, <2>2
<1>18. CASE NotifyArm
  <2> DEFINE e == [type |-> "ET_NOTIFY", client |-> request.client, ocb |-> request.ocb]
  <2>1. /\ request # None /\ request' = None /\ MsgReply(request.client, request.ocb)
        /\ UNCHANGED <<lost, interrupts, live, passed>> /\ ~ Closing(o)
        /\ delayedQueue' = Append(delayedQueue, e)
    BY <1>0, <1>18 DEF NotifyArm, Handling, DispatchBusy, Return, Closing, history
  <2>2. e \in Elements
    BY <1>0, <2>1, RequestTyped DEF Elements
  <2>3. Reads(o)' <= Reads(o)
    <3>1. e.type # "ET_REPLY"
      OBVIOUS
    <3> HIDE DEF e
    <3> QED
      BY <1>0, <2>1, <2>2, <3>1, ReadsAppend
  <2> QED
    BY <1>3, <1>16, <2>1, <2>3
<1>19. CASE CloseFree
  <2>1. /\ request # None /\ request' = None /\ MsgReply(request.client, request.ocb)
        /\ delayedQueue = <<>> /\ delayedQueue' = passed /\ passed' = <<>>
        /\ live' = live \ {request.ocb} /\ Zeroed(request.ocb)
    BY <1>0, <1>19 DEF CloseFree, Handling, DispatchBusy, Return
  <2>2. o # request.ocb /\ o \in live /\ ~ Closing(o)
    BY <2>1 DEF Closing
  <2>3. lost'[o] = lost[o] /\ interrupts'[o] = interrupts[o]
    BY <1>0, <1>2, <2>1, <2>2 DEF Zeroed, TypeOK
  <2>4. Reads(o)' = Reads(o)
    BY <1>0, <2>1, ReadsSame
  <2>5. W' = W /\ Orphan(o)' = 0
    BY <1>0, <2>1, ReplyEnds DEF W
  <2> QED
    BY <1>3, <1>5, <2>2, <2>3, <2>4, <2>5
<1>20. CASE io_open
  <2>1. /\ request # None /\ request' = None /\ MsgReply(request.client, request.ocb)
        /\ UNCHANGED queue /\ Zeroed(request.ocb) /\ live' = live \cup {request.ocb}
        /\ request.op \in {"open", "append"}
    BY <1>0, <1>20 DEF io_open, Handling, DispatchBusy, Return
  <2>2. W' = W /\ Orphan(o)' = 0
    BY <1>0, <2>1, ReplyEnds DEF W
  <2>3. Reads(o)' = Reads(o)
    BY <1>0, <2>1, ReadsSame
  <2>4. CASE o # request.ocb
    <3>1. lost'[o] = lost[o] /\ interrupts'[o] = interrupts[o] /\ o \in live /\ ~ Closing(o)
      BY <1>0, <1>2, <2>1, <2>4 DEF Zeroed, TypeOK, Closing
    <3> QED
      BY <1>3, <1>5, <2>2, <2>3, <3>1
  <2>5. CASE o = request.ocb
    <3>1. lost'[o] = 0 /\ interrupts'[o] = 0
      BY <1>0, <1>2, <2>1, <2>5 DEF Zeroed, TypeOK
    <3>2. o \notin live
      BY <2>1, <2>5 DEF ListInv
    <3>3. Reads(o) = 0
      BY <1>0, <3>2, NoReads
    <3>4. Owed(o)' = 0 + 0 + 0
      BY <2>2, <2>3, <3>1, <3>3 DEF Owed
    <3>5. Paid(o)' = 0 + C'
      BY <3>1 DEF Paid, W
    <3> QED
      BY <1>4, <3>4, <3>5
  <2> QED
    BY <2>4, <2>5
<1>21. CASE ReadFound
  <2>1. /\ request # None /\ request' = None /\ request.op \in ReadOps
        /\ UNCHANGED <<interrupts, queue, live>> /\ ~ Closing(o)
    BY <1>0, <1>21 DEF ReadFound, Handling, DispatchBusy, Return, Closing, ReadOps
  <2>2. PICK i : ReplyFrame(request.client, request.ocb, Slot(i))
    BY <1>21 DEF ReadFound
  <2>3. MsgReply(request.client, request.ocb)
    BY <2>2 DEF ReplyFrame
  <2>4. W' = W /\ Orphan(o)' = 0
    BY <1>0, <2>1, <2>3, ReplyEnds DEF W
  <2>5. Reads(o)' = Reads(o)
    BY <1>0, <2>1, ReadsSame
  <2>6. CASE request.ocb = o /\ ~ Reading(request.client, o)
    <3>1. lost'[o] = lost[o] + 1
      BY <1>0, <1>2, <2>2, <2>6 DEF ReplyFrame, TypeOK
    <3>2. Orphan(o) = 1
      BY <2>1, <2>6 DEF Orphan
    <3>3. lost'[o] + Reads(o)' + Orphan(o)' <= lost[o] + Reads(o) + Orphan(o) + 0
      BY <1>3, <2>4, <2>5, <3>1, <3>2
    <3>4. interrupts'[o] + C' >= interrupts[o] + C + 0
      BY <1>3, <2>1, <2>4
    <3> QED
      BY <1>0, <1>4, <2>1, <3>3, <3>4, BudgetKept DEF W
  <2>7. CASE request.ocb # o \/ Reading(request.client, o)
    <3>1. lost'[o] = lost[o]
      BY <1>0, <1>2, <2>2, <2>7 DEF ReplyFrame, TypeOK
    <3> QED
      BY <1>3, <1>16, <2>1, <2>3, <2>5, <3>1
  <2> QED
    BY <2>6, <2>7
<1>22. CASE ReadDelayed
  <2> DEFINE c == request.client
             e == [type |-> "ET_REPLY", client |-> c, ocb |-> request.ocb]
  <2>1. /\ request # None /\ request' = None /\ request.op = "read"
        /\ UNCHANGED <<lost, interrupts, live, passed, blocked>> /\ ~ Closing(o)
        /\ delayedQueue' = Append(delayedQueue, e)
    BY <1>0, <1>22 DEF ReadDelayed, Handling, DispatchBusy, Return, Closing, history, clients
  <2>2. e \in Elements /\ c \in Clients
    BY <1>0, <2>1, RequestTyped DEF Elements
  <2>3. Reads(o)' <= IF request.ocb = o THEN Reads(o) + 1 ELSE Reads(o)
    <3>1. e.type = "ET_REPLY" /\ e.ocb = request.ocb
      OBVIOUS
    <3> HIDE DEF e
    <3> QED
      BY <1>0, <2>1, <2>2, <3>1, ReadsAppend
  <2>4. Orphan(o)' = 0
    BY <2>1 DEF Orphan
  <2>5. W' = IF Reading(c, o) THEN W \cup {c} ELSE W
    BY <2>1, <2>2 DEF W, WaitingReaders, Reading, BlockedOn
  <2>6. c \notin W
    BY <2>1 DEF W, WaitingReaders
  <2>7. CASE request.ocb # o
    <3>1. ~ Reading(c, o)
      BY <2>1, <2>7 DEF ReaderInv, Reading, BlockedOn
    <3>2. Reads(o)' <= Reads(o) /\ W' = W
      BY <2>3, <2>5, <2>7, <3>1
    <3> QED
      BY <1>3, <1>5, <2>1, <2>4, <3>2
  <2>8. CASE request.ocb = o /\ Reading(c, o)
    <3>1. C' = C + 1
      BY <1>3, <2>5, <2>6, <2>8, FS_AddElement
    <3>2. Reads(o)' <= Reads(o) + 1
      BY <2>3, <2>8
    <3>3. lost'[o] + Reads(o)' + Orphan(o)' <= lost[o] + Reads(o) + Orphan(o) + 1
      BY <1>3, <1>4, <2>1, <2>4, <3>2
    <3>4. interrupts'[o] + C' >= interrupts[o] + C + 1
      BY <1>3, <2>1, <3>1
    <3> QED
      BY <1>0, <1>4, <2>1, <3>3, <3>4, BudgetKept DEF W
  <2>9. CASE request.ocb = o /\ ~ Reading(c, o)
    <3>1. Orphan(o) = 1
      BY <2>1, <2>9 DEF Orphan, ReadOps
    <3>2. Reads(o)' <= Reads(o) + 1 /\ W' = W
      BY <2>3, <2>5, <2>9
    <3>3. lost'[o] + Reads(o)' + Orphan(o)' <= lost[o] + Reads(o) + Orphan(o) + 0
      BY <1>3, <1>4, <2>1, <2>4, <3>1, <3>2
    <3>4. interrupts'[o] + C' >= interrupts[o] + C + 0
      BY <1>3, <2>1, <3>2
    <3> QED
      BY <1>0, <1>4, <2>1, <3>3, <3>4, BudgetKept DEF W
  <2> QED
    BY <2>7, <2>8, <2>9
<1>23. CASE io_devctl
  <2>1. request \in Requests /\ request # None /\ request.op = "devctl"
    BY <1>0, <1>23 DEF io_devctl, TypeOK
  <2>2. /\ request'.client = request.client /\ request'.op = "memcpy"
        /\ UNCHANGED <<blocked, lost, interrupts, queue, live>> /\ ~ Closing(o)
    BY <1>23, <2>1 DEF io_devctl, clients, history, Requests, Closing
  <2>3. request' # None
    BY <1>0, <1>23, <2>1, NoneAssumption DEF io_devctl, Requests
  <2>4. W' = W
    BY <2>1, <2>2, <2>3 DEF W, WaitingReaders, Reading, BlockedOn
  <2>5. Orphan(o)' = 0
    BY <2>2 DEF Orphan, ReadOps
  <2> QED
    BY <1>0, <1>3, <1>5, <2>2, <2>4, <2>5, ReadsSame
<1>24. ASSUME NEW c \in Clients, NEW q \in Ocbs, NEW op \in Ops,
              NEW arg \in Filters \cup {None}, Receive(c, q, op, arg)
       PROVE  Owed(o)' <= Paid(o)'
  <2>1. /\ request = None /\ blocked[c] = None
        /\ request' = [client |-> c, ocb |-> q, op |-> op, arg |-> arg]
        /\ blocked' = [blocked EXCEPT ![c] = [ocb |-> q, op |-> op]]
        /\ UNCHANGED <<lost, interrupts, queue, live, queueMutex>>
    BY <1>24 DEF Receive, ocbs, history
  <2>2. request' # None /\ request'.client = c
    BY <2>1, NoneAssumption DEF Requests
  <2>3. blocked'[c] = [ocb |-> q, op |-> op] /\ \A d \in Clients : d # c => blocked'[d] = blocked[d]
    BY <1>0, <2>1 DEF TypeOK
  <2>4. W' = W
    BY <2>1, <2>2, <2>3 DEF W, WaitingReaders, Reading, BlockedOn
  <2>5. blocked'[c] # None
    BY <2>3, NoneAssumption DEF Sends
  <2>6. Orphan(o)' = 0
    BY <2>1, <2>2, <2>3, <2>5 DEF Orphan, Reading, BlockedOn
  <2>7. ~ Closing(o)
    BY <1>0, <2>1 DEF Closing, DispatchBusy
  <2> QED
    BY <1>0, <1>3, <1>5, <2>1, <2>4, <2>6, <2>7, ReadsSame
<1>25. ASSUME NEW c \in Clients, io_unblock(c) PROVE Owed(o)' <= Paid(o)'
  <2> DEFINE q == blocked[c].ocb
  <2>1. /\ request = None /\ request' = request /\ MsgReply(c, q)
        /\ interrupts' = [interrupts EXCEPT ![q] = @ + 1]
        /\ UNCHANGED <<lost, queue, live, queueMutex>>
    BY <1>25 DEF io_unblock, ocbs
  <2>2. W' = (IF o = q THEN W \ {c} ELSE W) /\ Orphan(o)' = Orphan(o)
    BY <1>0, <2>1, ReplyWaits DEF W
  <2>3. Reads(o)' = Reads(o)
    BY <1>0, <2>1, ReadsSame
  <2>4. ~ Closing(o)
    BY <1>0, <2>1 DEF Closing, DispatchBusy
  <2>5. CASE o # q
    <3>1. interrupts'[o] = interrupts[o]
      BY <1>0, <1>2, <2>1, <2>5 DEF TypeOK
    <3> QED
      BY <1>3, <1>5, <2>1, <2>2, <2>3, <2>4, <2>5, <3>1
  <2>6. CASE o = q
    <3>1. interrupts'[o] = interrupts[o] + 1
      BY <1>0, <1>2, <2>1, <2>6 DEF TypeOK
    <3>2. C' = IF c \in W THEN C - 1 ELSE C
      BY <1>3, <2>2, <2>6, FS_RemoveElement
    <3>3. interrupts'[o] + C' >= interrupts[o] + C + 0
      BY <1>3, <3>1, <3>2
    <3>4. lost'[o] + Reads(o)' + Orphan(o)' <= lost[o] + Reads(o) + Orphan(o) + 0
      BY <1>3, <2>1, <2>2, <2>3
    <3> QED
      BY <1>0, <1>4, <2>1, <2>4, <3>3, <3>4, BudgetKept DEF W
  <2> QED
    BY <2>5, <2>6
<1> QED
  BY <1>8, <1>9, <1>10, <1>11, <1>12, <1>14, <1>15, <1>17, <1>18, <1>19, <1>20, <1>21,
     <1>22, <1>23, <1>24, <1>25
  DEF Next, ReceiveThread, Dispatch, Environment

\* The invariant is stronger than the budget: whom a request in hand still
\* blocks is a reader, or is not counted at all.
LEMMA BudgetIsEnough ==
    ASSUME TypeOK, BudgetInv
    PROVE  LossBudget
<1> SUFFICES ASSUME NEW o \in live, ~ Closing(o)
             PROVE  lost[o] + Reads(o) <=
                      interrupts[o] + Cardinality({c \in Clients : Reading(c, o)})
  BY DEF LossBudget
<1> DEFINE R == {c \in Clients : Reading(c, o)}
<1>1. o \in Ocbs
  BY DEF TypeOK
<1>2. /\ lost[o] \in Nat /\ interrupts[o] \in Nat /\ Orphan(o) \in {0, 1}
      /\ Reads(o) \in Nat /\ Cardinality(WaitingReaders(o)) \in Nat
  BY <1>1, BudgetTyped DEF BudgetInv
<1>3. R \in SUBSET BlockedClients /\ WaitingReaders(o) \in SUBSET R
  BY DEF BlockedClients, WaitingReaders, Reading, BlockedOn
<1>4. IsFiniteSet(R)
  BY <1>3, FS_Subset DEF BudgetInv
<1>5. Cardinality(R) \in Nat /\ Cardinality(WaitingReaders(o)) <= Cardinality(R)
  BY <1>3, <1>4, FS_Subset, FS_CardinalityType
<1>6. lost[o] + Reads(o) + Orphan(o) <= interrupts[o] + Cardinality(WaitingReaders(o))
  BY DEF BudgetInv, Owed, Paid
<1> QED
  BY <1>2, <1>5, <1>6

\* The frames that reached nobody, and the reads in the list that will reach
\* nobody, are no more than the reads the descriptor's clients gave up.
THEOREM LossesArePaid == Spec => []LossBudget
<1>1. Init => TypeInv /\ ListInv /\ ReaderInv /\ BudgetInv
  BY TypeInit, ListInit, ReaderInit, BudgetInit
<1>2. TypeInv /\ ListInv /\ ReaderInv /\ BudgetInv /\ [Next]_vars
        => (TypeInv /\ ListInv /\ ReaderInv /\ BudgetInv)'
  <2> SUFFICES ASSUME TypeInv, ListInv, ReaderInv, BudgetInv, [Next]_vars
               PROVE  (TypeInv /\ ListInv /\ ReaderInv /\ BudgetInv)'
    OBVIOUS
  <2>1. TypeInv' /\ TypeOK'
    BY TypeStep DEF TypeInv
  <2> QED
    BY <2>1, ListStep, ReaderStep, BudgetStep
<1>3. TypeInv /\ BudgetInv => LossBudget
  BY BudgetIsEnough DEF TypeInv
<1> QED
  BY <1>1, <1>2, <1>3, PTL DEF Spec

-----------------------------------------------------------------------------
(***************************************************************************)
(* Without interrupted reads nothing is lost.                              *)
(***************************************************************************)
PaidInv ==
    /\ \A o \in live : lost[o] <= interrupts[o]
    /\ \A o \in Ocbs : interrupts[o] <= MaxInterrupts

\* An element of the list is somewhere in it.
LEMMA PendingPlace ==
    ASSUME TypeOK, NEW e \in Pending
    PROVE  \E i \in 1 .. Len(passed \o delayedQueue) : (passed \o delayedQueue)[i] = e
<1> DEFINE Q == passed \o delayedQueue
<1>1. /\ passed \in Seq(Elements) /\ delayedQueue \in Seq(Elements)
      /\ Len(passed) \in Nat /\ Len(delayedQueue) \in Nat
  BY DEF TypeOK
<1>2. /\ Len(Q) = Len(passed) + Len(delayedQueue)
      /\ \A i \in 1 .. Len(passed) + Len(delayedQueue) :
           Q[i] = IF i <= Len(passed) THEN passed[i] ELSE delayedQueue[i - Len(passed)]
  BY <1>1, ConcatProperties
<1> HIDE DEF Q
<1>3. CASE e \in Members(passed)
  <2>1. PICK i \in 1 .. Len(passed) : e = passed[i]
    BY <1>3 DEF Members
  <2>2. i \in 1 .. Len(passed) + Len(delayedQueue) /\ i <= Len(passed)
    BY <1>1
  <2> QED
    BY <1>2, <2>1, <2>2 DEF Q
<1>4. CASE e \in Members(delayedQueue)
  <2>1. PICK i \in 1 .. Len(delayedQueue) : e = delayedQueue[i]
    BY <1>4 DEF Members
  <2> DEFINE j == i + Len(passed)
  <2>2. /\ j \in 1 .. Len(passed) + Len(delayedQueue) /\ ~ (j <= Len(passed))
        /\ j - Len(passed) = i
    BY <1>1
  <2> HIDE DEF j
  <2>3. Q[j] = e
    BY <1>2, <2>1, <2>2
  <2> QED
    BY <1>2, <2>2, <2>3 DEF Q
<1> QED
  BY <1>3, <1>4 DEF Pending

\* Every read in the list beyond the waiting clients' is owed.
LEMMA ReadsOfClients ==
    ASSUME TypeOK, NEW o, NEW T,
           \A c \in T : [type |-> "ET_REPLY", client |-> c, ocb |-> o] \in Pending
    PROVE  Cardinality(T) <= Reads(o)
<1> DEFINE Q == passed \o delayedQueue
           P == ReplyPlaces(Q, o)
           f == [c \in T |-> CHOOSE i \in P : Q[i].client = c]
<1>1. Q \in Seq(Elements) /\ Reads(o) = Cardinality(P)
  BY DEF TypeOK, Reads, ReplyPlaces
<1>2. ASSUME NEW c \in T PROVE f[c] \in P /\ Q[f[c]].client = c
  <2>1. PICK i \in 1 .. Len(Q) : Q[i] = [type |-> "ET_REPLY", client |-> c, ocb |-> o]
    BY PendingPlace
  <2>2. i \in P /\ Q[i].client = c
    BY <2>1 DEF ReplyPlaces
  <2> HIDE DEF P, Q
  <2> QED
    BY <2>2
<1>3. IsFiniteSet(P)
  BY <1>1, PlacesFinite
<1> HIDE DEF P, Q
<1>4. f \in Injection(T, P)
  <2>1. f \in [T -> P] /\ DOMAIN f = T
    BY <1>2
  <2> HIDE DEF f
  <2> QED
    BY <1>2, <2>1 DEF Injection, IsInjective
<1> HIDE DEF f
<1> QED
  BY <1>1, <1>3, <1>4, FS_Injection

\* The waiting clients have their reads in the list, which leaves no more losses
\* than interrupts.
LEMMA LostIsPaid ==
    ASSUME TypeOK, ReaderInv, BudgetInv, NEW o \in live, ~ Closing(o)
    PROVE  lost[o] <= interrupts[o]
<1> DEFINE W == WaitingReaders(o)
<1>1. o \in Ocbs
  BY DEF TypeOK
<1>2. /\ lost[o] \in Nat /\ interrupts[o] \in Nat /\ Orphan(o) \in {0, 1}
      /\ Reads(o) \in Nat /\ Cardinality(W) \in Nat
  BY <1>1, BudgetTyped DEF BudgetInv
<1>3. lost[o] + Reads(o) + Orphan(o) <= interrupts[o] + Cardinality(W)
  BY DEF BudgetInv, Owed, Paid
<1>4. \A c \in W : [type |-> "ET_REPLY", client |-> c, ocb |-> o] \in Pending
  BY DEF WaitingReaders, Reading, BlockedOn, ReaderInv, ReaderHasElement
<1>5. Cardinality(W) <= Reads(o)
  BY <1>4, ReadsOfClients
<1> QED
  BY <1>2, <1>3, <1>5

\* A step that ends inside a handler loses no frame and forgets no interrupt.
LEMMA HandlerKeepsAccounts ==
    ASSUME TypeInv, [Next]_vars, queueMutex' = "dispatch"
    PROVE  lost' = lost /\ live' = live /\ \A o \in Ocbs : interrupts'[o] >= interrupts[o]
<1>0. interrupts \in [Ocbs -> Nat] /\ \A o \in Ocbs : interrupts[o] \in Nat
  BY DEF TypeInv, TypeOK
<1>1. CASE \E c \in Clients : io_unblock(c)
  <2>1. PICK c \in Clients : io_unblock(c)
    BY <1>1
  <2> PICK q : q = blocked[c].ocb
    OBVIOUS
  <2>2. interrupts' = [interrupts EXCEPT ![q] = interrupts[q] + 1]
    BY <2>1 DEF io_unblock
  <2>3. \A o \in Ocbs : interrupts'[o] >= interrupts[o]
    BY <1>0, <2>2
  <2> QED
    BY <2>1, <2>3 DEF io_unblock, ocbs
<1>2. lost' = lost /\ live' = live /\ interrupts' = interrupts
        => lost' = lost /\ live' = live /\ \A o \in Ocbs : interrupts'[o] >= interrupts[o]
  BY <1>0
<1>3. CASE UNCHANGED vars
  BY <1>2, <1>3 DEF vars, ocbs, history
<1>4. CASE ReceiveThread
  <2>1. WalkLocks
    BY DEF TypeInv
  <2> QED
    BY <1>2, <1>4, <2>1 DEF ReceiveThread, WalkLocks, ReadMessage, ReadMessageDone, LockForWalk,
       WalkSkip, WalkReject, WalkReply, WalkNotify, Publish, ocbs, history
<1>5. CASE Dispatch
  BY <1>2, <1>5 DEF Dispatch, Refuse, LockForRequest, ReadFound, ReadEmpty, ReadDelayed,
     NotifyFound, NotifyNone, NotifyArm, io_open, CloseErase, CloseKeep, CloseFree,
     io_devctl, io_devctl_return, Return, ocbs, history
<1>6. CASE Environment /\ ~ \E c \in Clients : io_unblock(c)
  BY <1>2, <1>6 DEF Environment, Receive, ocbs, history
<1> QED
  BY <1>1, <1>3, <1>4, <1>5, <1>6 DEF Next

\* io_unblock ends at most MaxInterrupts reads of a descriptor.
LEMMA InterruptsBounded ==
    ASSUME TypeOK, \A o \in Ocbs : interrupts[o] <= MaxInterrupts, [Next]_vars
    PROVE  \A o \in Ocbs : interrupts'[o] <= MaxInterrupts
<1>0. interrupts \in [Ocbs -> Nat]
  BY DEF TypeOK
<1>1. CASE interrupts' = interrupts
  BY <1>1
<1>2. ASSUME NEW q, interrupts' = [interrupts EXCEPT ![q] = 0]
      PROVE  \A o \in Ocbs : interrupts'[o] <= MaxInterrupts
  BY <1>0, <1>2, CanManagerAssumption
<1>3. ASSUME NEW c \in Clients, io_unblock(c)
      PROVE  \A o \in Ocbs : interrupts'[o] <= MaxInterrupts
  <2> PICK q : q = blocked[c].ocb
    OBVIOUS
  <2>1. /\ interrupts[q] < MaxInterrupts
        /\ interrupts' = [interrupts EXCEPT ![q] = interrupts[q] + 1]
    BY <1>3 DEF io_unblock
  <2>2. q \in Ocbs => interrupts[q] + 1 <= MaxInterrupts
    BY <1>0, <2>1, CanManagerAssumption
  <2> QED
    BY <1>0, <2>1, <2>2
<1>4. CASE UNCHANGED vars
  BY <1>1, <1>4 DEF vars, history
<1>5. CASE ReceiveThread
  BY <1>1, <1>5 DEF ReceiveThread, ReadMessage, ReadMessageDone, LockForWalk,
     WalkSkip, WalkReject, WalkReply, WalkNotify, Publish, history
<1>6. CASE Dispatch
  BY <1>1, <1>2, <1>6 DEF Dispatch, Refuse, LockForRequest, ReadFound, ReadEmpty, ReadDelayed,
     NotifyFound, NotifyNone, NotifyArm, io_open, CloseErase, CloseKeep, CloseFree,
     io_devctl, io_devctl_return, Zeroed, history
<1>7. CASE Environment
  BY <1>1, <1>3, <1>7 DEF Environment, Receive, history
<1> QED
  BY <1>4, <1>5, <1>6, <1>7 DEF Next

\* When no read is interrupted, every frame the manager replies with reaches a
\* client: interrupted reads are the only way to lose one.
THEOREM OnlyInterruptsLose ==
    ASSUME MaxInterrupts = 0
    PROVE  Spec => []NothingLost
<1> DEFINE I == TypeInv /\ TypeOK /\ ListInv /\ ReaderInv /\ BudgetInv
           PaidOutside == \A o \in live : Closing(o) \/ lost[o] <= interrupts[o]
<1>1. Init => I /\ PaidInv
  <2>1. Init => PaidInv
    BY CanManagerAssumption DEF Init, PaidInv
  <2> QED
    BY <2>1, TypeInit, ListInit, ReaderInit, BudgetInit DEF TypeInv
<1>2. I /\ [Next]_vars => I'
  <2> SUFFICES ASSUME I, [Next]_vars PROVE I'
    OBVIOUS
  <2>1. TypeInv' /\ TypeOK'
    BY TypeStep DEF TypeInv
  <2> QED
    BY <2>1, ListStep, ReaderStep, BudgetStep
<1>3. I => PaidOutside
  BY LostIsPaid
<1>4. I /\ PaidInv /\ I' /\ PaidOutside' /\ [Next]_vars => PaidInv'
  <2> SUFFICES ASSUME I, PaidInv, I', PaidOutside', [Next]_vars PROVE PaidInv'
    OBVIOUS
  <2>1. ASSUME NEW o \in live' PROVE lost'[o] <= interrupts'[o]
    <3>1. CASE ~ Closing(o)'
      BY <2>1, <3>1
    <3>2. CASE Closing(o)'
      <4>1. queueMutex' = "dispatch"
        BY <3>2 DEF Closing
      <4>2. lost' = lost /\ live' = live /\ \A q \in Ocbs : interrupts'[q] >= interrupts[q]
        BY <4>1, HandlerKeepsAccounts
      <4>3. o \in live /\ o \in Ocbs /\ lost[o] <= interrupts[o]
        BY <2>1, <4>2 DEF PaidInv, TypeOK
      <4>4. lost[o] \in Nat /\ interrupts[o] \in Nat /\ interrupts'[o] \in Nat
        BY <4>3 DEF TypeOK
      <4> QED
        BY <4>2, <4>3, <4>4
    <3> QED
      BY <3>1, <3>2
  <2>2. \A o \in Ocbs : interrupts'[o] <= MaxInterrupts
    BY InterruptsBounded DEF PaidInv
  <2> QED
    BY <2>1, <2>2 DEF PaidInv
<1>5. I /\ PaidInv => NothingLost
  <2> SUFFICES ASSUME I, PaidInv, NEW o \in live PROVE lost[o] = 0
    BY DEF NothingLost
  <2>1. o \in Ocbs
    BY DEF TypeOK
  <2>2. lost[o] \in Nat /\ interrupts[o] \in Nat
    BY <2>1 DEF TypeOK
  <2> QED
    BY <2>1, <2>2 DEF PaidInv
<1> HIDE DEF I, PaidOutside
<1> QED
  BY <1>1, <1>2, <1>3, <1>4, <1>5, PTL DEF Spec

-----------------------------------------------------------------------------
(***************************************************************************)
(* The refinement.                                                         *)
(***************************************************************************)

\* The log and the readers of the refinement mapping.
Readable   == queueBottom .. LogNext - 1
LogFrames  == [i \in Readable |-> Slot(i).id]
View(o)    == [at |-> offset[o], accepts |-> filter[o], got |-> expected[o],
               owed |-> interrupts[o] - lost[o]]
LogReaders == [o \in live |-> View(o)]

LogInv == TypeInv /\ SafetyInv /\ ReaderInv /\ BudgetInv

\* The mapping leaves the log as it is.
LogStutter == UNCHANGED <<LogNext, LogFrames, LogReaders>>

-----------------------------------------------------------------------------
\* The initial state maps to the empty log.
LEMMA LogInit == Init => Log!Init
<1> SUFFICES ASSUME Init PROVE Log!Init
  OBVIOUS
<1>1. \A f : f = [i \in {} |-> i] => f = <<>>
  BY EmptySeq, LenProperties
<1>2. LogNext = 0 /\ queueBottom = 0 /\ live = {}
  BY DEF Init, LogNext
<1>3. Readable = {}
  BY <1>2 DEF Readable
<1>4. LogFrames = <<>>
  BY <1>1, <1>3 DEF LogFrames
<1>5. LogReaders = <<>>
  BY <1>1, <1>2 DEF LogReaders
<1> QED
  BY <1>2, <1>4, <1>5 DEF Log!Init, LogFrames, LogReaders, Readable, View

\* A step that changes nothing the mapping sees is a stutter of the log.
LEMMA LogIsUnchanged ==
    ASSUME LogStutter
    PROVE  [Log!Next]_(Log!vars)
  BY DEF LogStutter, Log!vars, LogFrames, LogReaders, Readable, View

-----------------------------------------------------------------------------
(***************************************************************************)
(* The steps of the log, in the words of CanManager.                       *)
(***************************************************************************)

\* Of the readers, only o may look different.
OnlyReader(o) ==
    /\ live' = live
    /\ \A p \in live : p # o => View(p)' = View(p)

Rejects(o, i) == filter[o] = Torn \/ Slot(i).id \notin filter[o]

\* The readers when only one of them changed.
LEMMA OneReader ==
    ASSUME NEW o \in live, OnlyReader(o)
    PROVE  LogReaders' = [LogReaders EXCEPT ![o] = View(o)']
  BY DEF OnlyReader, LogReaders

\* A search that finds nothing moves a cursor over frames it rejects.
LEMMA LogLook ==
    ASSUME NEW o \in live, NEW at \in offset[o] .. LogNext, OnlyReader(o),
           UNCHANGED <<LogNext, LogFrames>>,
           View(o)' = [View(o) EXCEPT !.at = at],
           TypeOK,
           \A j \in Readable : offset[o] <= j /\ j < at => Rejects(o, j)
    PROVE  [Log!Next]_(Log!vars)
<1>1. LogReaders' = [LogReaders EXCEPT ![o] = View(o)']
  BY OneReader
<1>2. offset[o] \in Nat /\ LogNext \in Nat
  <2>1. offset[o] \in Nat
    BY DEF TypeOK
  <2>2. queueHead \in 0 .. HeadMod - 1
    BY DEF TypeOK
  <2>3. LogNext \in Nat
    BY <2>2 DEF LogNext
  <2> QED
    BY <2>1, <2>3
<1>3. CASE at = offset[o]
  <2>1. View(o)' = View(o)
    BY <1>3 DEF View
  <2>2. LogReaders' = LogReaders
    BY <1>1, <2>1 DEF LogReaders
  <2> QED
    BY <2>2, LogIsUnchanged DEF LogStutter
<1>4. CASE at > offset[o]
  <2>1. LogReaders' = [LogReaders EXCEPT ![o].at = at]
    BY <1>1 DEF LogReaders
  <2>2. \A j \in Log!From(o) : j < at => Log!MayReject(o, j)
    BY DEF Log!From, Log!Numbers, Log!MayReject, Rejects, Readable
  <2>3. Log!Look(o, at)
    BY <1>4, <2>1, <2>2 DEF Log!Look, LogReaders, View, LogFrames, Readable
  <2>4. at \in [p \in live |-> View(p)][o].at .. LogNext
    BY DEF View
  <2> QED
    BY <2>3, <2>4 DEF Log!Next, View
<1> QED
  BY <1>2, <1>3, <1>4

\* The first frame from the position of o that its filter accepts.
FirstFor(o, i) ==
    /\ i \in Readable /\ offset[o] <= i
    /\ filter[o] = Torn \/ Slot(i).id \in filter[o]
    /\ \A j \in Readable : offset[o] <= j /\ j < i => Rejects(o, j)

\* The first accepted frame of the ring is the first of the log.
LEMMA FirstInLog ==
    ASSUME NEW o \in live, NEW i, FirstFor(o, i)
    PROVE  Log!First(o, i)
<1>1. i \in Log!From(o)
  BY DEF FirstFor, Log!From, Log!Numbers, Readable
<1>2. Log!MayAccept(o, i)
  BY DEF FirstFor, Log!MayAccept, Readable
<1>3. \A j \in Log!From(o) : j < i => Log!MayReject(o, j)
  BY DEF FirstFor, Log!From, Log!Numbers, Log!MayReject, Rejects, Readable
<1> QED
  BY <1>1, <1>2, <1>3 DEF Log!First

\* A read, or the walk, that replies to a client delivers a frame.
LEMMA LogDeliver ==
    ASSUME NEW o \in live, NEW i, OnlyReader(o), FirstFor(o, i), expected[o] <= i,
           UNCHANGED <<LogNext, LogFrames>>,
           View(o)' = [at |-> i + 1, accepts |-> filter[o], got |-> i + 1,
                       owed |-> interrupts[o] - lost[o]]
    PROVE  [Log!Next]_(Log!vars)
<1>1. LogReaders' = [LogReaders EXCEPT ![o] = View(o)']
  BY OneReader
<1>2. LogReaders' = [LogReaders EXCEPT ![o].at = i + 1, ![o].got = i + 1]
  <2> DEFINE once == [LogReaders EXCEPT ![o].at = i + 1]
             r == [at |-> i + 1, accepts |-> filter[o], got |-> expected[o],
                   owed |-> interrupts[o] - lost[o]]
  <2>1. LogReaders[o] = View(o) /\ DOMAIN LogReaders = live
    BY DEF LogReaders
  <2>2. once = [LogReaders EXCEPT ![o] = r]
    <3>1. [View(o) EXCEPT !.at = i + 1] = r
      BY DEF View
    <3>2. once = [LogReaders EXCEPT ![o] = [View(o) EXCEPT !.at = i + 1]]
      BY <2>1
    <3> QED
      BY <3>1, <3>2
  <2>3. once[o] = r /\ DOMAIN once = live
    BY <2>1, <2>2
  <2>4. [r EXCEPT !.got = i + 1] = View(o)'
    OBVIOUS
  <2> HIDE DEF once, r
  <2>5. [once EXCEPT ![o].got = i + 1] = [once EXCEPT ![o] = [r EXCEPT !.got = i + 1]]
    BY <2>3
  <2>6. [once EXCEPT ![o].got = i + 1] = [LogReaders EXCEPT ![o] = View(o)']
    BY <2>1, <2>2, <2>4, <2>5
  <2> QED
    BY <1>1, <2>6 DEF once
<1>3. Log!First(o, i) /\ i \in Readable
  BY FirstInLog DEF FirstFor
<1>4. Log!Deliver(o, i)
  BY <1>2, <1>3 DEF Log!Deliver, LogReaders, View, LogFrames, Readable
<1> QED
  BY <1>3, <1>4 DEF Log!Next, Log!Numbers, Readable

\* A reply to nobody is a frame lost to an interrupted read.
LEMMA LogLose ==
    ASSUME NEW o \in live, NEW i, OnlyReader(o), FirstFor(o, i),
           interrupts[o] - lost[o] > 0,
           UNCHANGED <<LogNext, LogFrames>>,
           View(o)' = [at |-> i + 1, accepts |-> filter[o], got |-> expected[o],
                       owed |-> interrupts[o] - lost[o] - 1]
    PROVE  [Log!Next]_(Log!vars)
<1>1. LogReaders' = [LogReaders EXCEPT ![o] = View(o)']
  BY OneReader
<1>2. LogReaders' = [LogReaders EXCEPT ![o].at = i + 1, ![o].owed = @ - 1]
  <2> DEFINE once == [LogReaders EXCEPT ![o].at = i + 1]
             r == [at |-> i + 1, accepts |-> filter[o], got |-> expected[o],
                   owed |-> interrupts[o] - lost[o]]
  <2>1. LogReaders[o] = View(o) /\ DOMAIN LogReaders = live
    BY DEF LogReaders
  <2>2. once = [LogReaders EXCEPT ![o] = r]
    <3>1. [View(o) EXCEPT !.at = i + 1] = r
      BY DEF View
    <3>2. once = [LogReaders EXCEPT ![o] = [View(o) EXCEPT !.at = i + 1]]
      BY <2>1
    <3> QED
      BY <3>1, <3>2
  <2>3. once[o] = r /\ DOMAIN once = live
    BY <2>1, <2>2
  <2>4. [r EXCEPT !.owed = r.owed - 1] = View(o)'
    OBVIOUS
  <2> HIDE DEF once, r
  <2>5. [once EXCEPT ![o].owed = @ - 1] = [once EXCEPT ![o] = [r EXCEPT !.owed = r.owed - 1]]
    BY <2>3
  <2>6. [once EXCEPT ![o].owed = @ - 1] = [LogReaders EXCEPT ![o] = View(o)']
    BY <2>1, <2>2, <2>4, <2>5
  <2> QED
    BY <1>1, <2>6 DEF once
<1>3. Log!First(o, i) /\ i \in Readable
  BY FirstInLog DEF FirstFor
<1>4. Log!Lose(o, i)
  BY <1>2, <1>3 DEF Log!Lose, LogReaders, View, LogFrames, Readable
<1> QED
  BY <1>3, <1>4 DEF Log!Next, Log!Numbers, Readable

\* io_unblock of a read is an interruption.
LEMMA LogInterrupt ==
    ASSUME NEW o \in live, OnlyReader(o), UNCHANGED <<LogNext, LogFrames>>,
           View(o)' = [at |-> offset[o], accepts |-> filter[o], got |-> expected[o],
                       owed |-> interrupts[o] - lost[o] + 1]
    PROVE  [Log!Next]_(Log!vars)
<1>1. LogReaders' = [LogReaders EXCEPT ![o] = View(o)']
  BY OneReader
<1>2. LogReaders' = [LogReaders EXCEPT ![o].owed = @ + 1]
  <2>1. LogReaders[o] = View(o)
    BY DEF LogReaders
  <2>2. [View(o) EXCEPT !.owed = View(o).owed + 1] = View(o)'
    BY DEF View
  <2>3. [LogReaders EXCEPT ![o].owed = @ + 1] =
          [LogReaders EXCEPT ![o] = [View(o) EXCEPT !.owed = View(o).owed + 1]]
    BY <2>1
  <2> QED
    BY <1>1, <2>2, <2>3
<1>3. Log!Interrupt(o)
  BY <1>2 DEF Log!Interrupt, LogReaders, View, LogFrames, Readable
<1> QED
  BY <1>3 DEF Log!Next

\* A devctl sets the filter; while it is copied it is torn.
LEMMA LogSetFilter ==
    ASSUME NEW o \in live, NEW accepts \in (SUBSET Ids) \cup {Torn}, OnlyReader(o),
           UNCHANGED <<LogNext, LogFrames>>,
           View(o)' = [View(o) EXCEPT !.accepts = accepts]
    PROVE  [Log!Next]_(Log!vars)
<1>1. LogReaders' = [LogReaders EXCEPT ![o] = View(o)']
  BY OneReader
<1>2. LogReaders' = [LogReaders EXCEPT ![o].accepts = accepts]
  BY <1>1 DEF LogReaders, View
<1>3. Log!SetFilter(o, accepts)
  BY <1>2 DEF Log!SetFilter, LogReaders, View, LogFrames, Readable
<1> QED
  BY <1>3 DEF Log!Next

\* io_open adds a reader.
LEMMA LogOpen ==
    ASSUME NEW o \in Ocbs \ live, live' = live \cup {o},
           \A p \in live : View(p)' = View(p),
           UNCHANGED <<LogNext, LogFrames>>,
           NEW at \in {LogNext} \cup {i \in Readable : i - 1 \notin Readable},
           View(o)' = [at |-> at, accepts |-> Ids, got |-> 0, owed |-> 0]
    PROVE  [Log!Next]_(Log!vars)
<1>1. LogReaders' = [p \in live \cup {o} |->
                       IF p = o THEN [at |-> at, accepts |-> Ids, got |-> 0, owed |-> 0]
                       ELSE LogReaders[p]]
  BY DEF LogReaders
<1>2. DOMAIN LogReaders = live /\ DOMAIN LogFrames = Readable
  BY DEF LogReaders, LogFrames
<1>3. Log!Open(o)
  BY <1>1, <1>2 DEF Log!Open, Log!Numbers, LogReaders, View, LogFrames, Readable
<1> QED
  BY <1>3 DEF Log!Next

\* io_close_ocb takes the reader away.
LEMMA LogClose ==
    ASSUME NEW o \in live, live' = live \ {o},
           \A p \in live' : View(p)' = View(p),
           UNCHANGED <<LogNext, LogFrames>>
    PROVE  [Log!Next]_(Log!vars)
<1>1. DOMAIN LogReaders = live
  BY DEF LogReaders
<1>2. LogReaders' = [p \in live \ {o} |-> LogReaders[p]]
  BY DEF LogReaders
<1>3. Log!Close(o)
  BY <1>1, <1>2 DEF Log!Close, LogReaders, View, LogFrames, Readable
<1> QED
  BY <1>1, <1>3 DEF Log!Next, LogReaders, View

\* The receive thread makes a frame readable when its walk begins.
LEMMA LogArrive ==
    ASSUME NEW id \in Ids, LogNext' = LogNext + 1, LogReaders' = LogReaders,
           LogFrames' = [i \in Readable \cup {LogNext} |->
                           IF i = LogNext THEN id ELSE LogFrames[i]]
    PROVE  [Log!Next]_(Log!vars)
<1>1. DOMAIN LogFrames = Readable
  BY DEF LogFrames
<1>2. Log!Arrive(id)
  BY <1>1 DEF Log!Arrive, Log!Numbers, LogReaders, View, LogFrames, Readable
<1> QED
  BY <1>2 DEF Log!Next

\* Publishing into a full ring forgets its oldest frame.
LEMMA LogForget ==
    ASSUME LogNext - N \in Readable, LogNext' = LogNext, LogReaders' = LogReaders,
           LogFrames' = [i \in Readable \ {LogNext - N} |-> LogFrames[i]]
    PROVE  [Log!Next]_(Log!vars)
<1>1. DOMAIN LogFrames = Readable
  BY DEF LogFrames
<1>2. Log!Forget
  BY <1>1 DEF Log!Forget, Log!Numbers, Log!Oldest, LogReaders, View, LogFrames, Readable
<1> QED
  BY <1>2 DEF Log!Next

-----------------------------------------------------------------------------
(***************************************************************************)
(* A frame that reaches nobody is paid for: each client that still waits   *)
(* has a read of its own in the list, so the read that replies to nobody   *)
(* is one more, and the budget leaves an interrupt for it.                 *)
(***************************************************************************)

\* A reply with a frame to a client that is not reading was paid for.
LEMMA Paying ==
    ASSUME TypeOK, ReaderInv, BudgetInv, NEW o \in live, ~ Closing(o),
           \/ Orphan(o) = 1
           \/ \E c \in Clients : /\ ~ Reading(c, o)
                                 /\ [type |-> "ET_REPLY", client |-> c, ocb |-> o] \in Pending
    PROVE  interrupts[o] - lost[o] > 0
<1> DEFINE W == WaitingReaders(o)
<1>1. o \in Ocbs
  BY DEF TypeOK
<1>2. /\ lost[o] \in Nat /\ interrupts[o] \in Nat /\ Orphan(o) \in {0, 1}
      /\ Reads(o) \in Nat /\ IsFiniteSet(W) /\ Cardinality(W) \in Nat
  BY <1>1, BudgetTyped DEF BudgetInv
<1>3. lost[o] + Reads(o) + Orphan(o) <= interrupts[o] + Cardinality(W)
  BY DEF BudgetInv, Owed, Paid
<1>4. \A c \in W : [type |-> "ET_REPLY", client |-> c, ocb |-> o] \in Pending
  BY DEF WaitingReaders, Reading, BlockedOn, ReaderInv, ReaderHasElement
<1>5. CASE Orphan(o) = 1
  <2>1. Cardinality(W) <= Reads(o)
    BY <1>4, ReadsOfClients
  <2> QED
    BY <1>2, <1>3, <1>5, <2>1
<1>6. ASSUME NEW c \in Clients, ~ Reading(c, o),
             [type |-> "ET_REPLY", client |-> c, ocb |-> o] \in Pending
      PROVE  interrupts[o] - lost[o] > 0
  <2>1. c \notin W
    BY <1>6 DEF WaitingReaders
  <2>2. Cardinality(W \cup {c}) = Cardinality(W) + 1
    BY <1>2, <2>1, FS_AddElement
  <2>3. Cardinality(W \cup {c}) <= Reads(o)
    BY <1>4, <1>6, ReadsOfClients
  <2> QED
    BY <1>2, <1>3, <2>2, <2>3
<1> QED
  BY <1>5, <1>6

-----------------------------------------------------------------------------
(***************************************************************************)
(* Each step of CanManager as a step of the log.                           *)
(***************************************************************************)

\* The slots of the log hold its frames.
LEMMA LogSlots ==
    ASSUME TypeOK, RingInv
    PROVE  /\ LogNext \in Nat /\ queueHead \in Nat /\ queueBottom \in Nat
           /\ queueBottom <= LogNext
           /\ \A i \in Readable : /\ i \in Nat
                                  /\ Slot(i) \in Frames
                                  /\ Slot(i) # Garbage
                                  /\ Slot(i).n = i
<1>1. queueHead \in Nat /\ queueBottom \in Nat /\ LogNext \in Nat /\ received \in Nat
  BY CanManagerAssumption DEF TypeOK, LogNext
<1>2. LogNext <= received
  BY <1>1 DEF LogNext, RingInv
<1>3. ASSUME NEW i \in Readable
      PROVE  i \in Nat /\ Slot(i) \in Frames /\ Slot(i) # Garbage /\ Slot(i).n = i
  <2>1. i \in Nat /\ i \in queueBottom .. received - 1
    BY <1>1, <1>2 DEF Readable
  <2>2. Slot(i).n = i
    BY <2>1 DEF RingInv
  <2>3. Slot(i) # Garbage
    BY <2>1, <2>2 DEF Garbage
  <2>4. Slot(i) \in Frames \cup {Garbage}
    BY <2>1, SlotTyped
  <2> QED
    BY <2>1, <2>2, <2>3, <2>4
<1>4. queueBottom <= queueHead
  BY <1>1, CanManagerAssumption DEF RingInv
<1> QED
  BY <1>1, <1>3, <1>4 DEF LogNext

\* What a search of the ring says of the log.
LEMMA SearchInLog ==
    ASSUME TypeOK, RingInv, PointerInv, pc # "walk", NEW o \in Ocbs, NEW luck \in BOOLEAN
    PROVE  /\ offset[o] <= queueHead
           /\ NoneAccepted(o, luck) =>
                \A j \in Readable : offset[o] <= j => Rejects(o, j)
           /\ \A i \in Unread(o) : FirstAccepted(o, i, luck) => FirstFor(o, i)
<1> USE CanManagerAssumption
<1>1. /\ queueHead \in Nat /\ queueBottom \in Nat /\ queueBottom <= queueHead
      /\ offset[o] \in Nat /\ offset[o] <= queueHead
  BY LogSlots DEF TypeOK, PointerInv, LogNext
<1>2. Readable = queueBottom .. queueHead - 1
  BY DEF Readable, LogNext
<1>3. Start(o) = IF offset[o] < queueBottom THEN queueBottom ELSE offset[o]
  BY <1>1 DEF Start
<1>4. Unread(o) = Start(o) .. queueHead - 1
  BY <1>1, <1>3 DEF Unread
<1>5. \A j \in Readable : offset[o] <= j <=> j \in Unread(o)
  BY <1>1, <1>2, <1>3, <1>4
<1>6. Unread(o) \subseteq Readable /\ \A j \in Unread(o) : offset[o] <= j
  BY <1>1, <1>2, <1>3, <1>4
<1>7. \A j \in Readable : CheckFilter(Slot(j), filter[o], luck) =>
                            filter[o] = Torn \/ Slot(j).id \in filter[o]
  BY LogSlots DEF CheckFilter
<1>8. \A j \in Readable : ~ CheckFilter(Slot(j), filter[o], luck) => Rejects(o, j)
  BY LogSlots DEF CheckFilter, Rejects
<1>9. ASSUME NoneAccepted(o, luck), NEW j \in Readable, offset[o] <= j PROVE Rejects(o, j)
  BY <1>5, <1>8, <1>9 DEF NoneAccepted
<1>10. ASSUME NEW i \in Unread(o), FirstAccepted(o, i, luck) PROVE FirstFor(o, i)
  <2>1. ASSUME NEW j \in Readable, offset[o] <= j, j < i PROVE Rejects(o, j)
    <3>1. j \in Start(o) .. i - 1
      BY <1>1, <1>2, <1>3, <1>4, <2>1
    <3> QED
      BY <1>8, <1>10, <3>1 DEF FirstAccepted
  <2> QED
    BY <1>6, <1>7, <1>10, <2>1 DEF FirstFor, FirstAccepted
<1> QED
  BY <1>1, <1>9, <1>10

\* A reply with a frame delivers it, or loses it.
LEMMA ReplyInLog ==
    ASSUME TypeOK, RingInv, PointerInv, NEW c \in Clients, NEW o \in live, NEW i,
           FirstFor(o, i), ReplyFrame(c, o, Slot(i)),
           offset' = [offset EXCEPT ![o] = i + 1],
           ~ Reading(c, o) => interrupts[o] - lost[o] > 0,
           UNCHANGED <<live, filter, interrupts, LogNext, LogFrames>>
    PROVE  [Log!Next]_(Log!vars)
<1>1. o \in Ocbs /\ offset[o] \in Nat /\ expected[o] \in 0 .. offset[o]
      /\ lost[o] \in Nat /\ interrupts[o] \in Nat
  BY DEF TypeOK, PointerInv
<1>2. i \in Nat /\ Slot(i).n = i /\ offset[o] <= i
  BY LogSlots DEF FirstFor
<1>3. expected[o] <= i /\ AfterFrame(o, Slot(i)) = i + 1
  BY <1>1, <1>2 DEF AfterFrame, Never
<1>4. offset'[o] = i + 1 /\ \A p \in Ocbs : p # o => offset'[p] = offset[p]
  BY <1>1 DEF TypeOK
<1>5. live \subseteq Ocbs
  BY DEF TypeOK
<1>6. CASE Reading(c, o)
  <2>1. lost' = lost /\ expected' = [expected EXCEPT ![o] = i + 1]
    BY <1>3, <1>6 DEF ReplyFrame
  <2>2. expected'[o] = i + 1 /\ \A p \in Ocbs : p # o => expected'[p] = expected[p]
    BY <1>1, <2>1 DEF TypeOK
  <2>3. OnlyReader(o)
    BY <1>4, <1>5, <2>1, <2>2 DEF OnlyReader, View
  <2>4. View(o)' = [at |-> i + 1, accepts |-> filter[o], got |-> i + 1,
                    owed |-> interrupts[o] - lost[o]]
    BY <1>4, <2>1, <2>2 DEF View
  <2> QED
    BY <1>3, <2>3, <2>4, LogDeliver
<1>7. CASE ~ Reading(c, o)
  <2>1. expected' = expected /\ lost' = [lost EXCEPT ![o] = @ + 1]
    BY <1>7 DEF ReplyFrame
  <2>2. lost'[o] = lost[o] + 1 /\ \A p \in Ocbs : p # o => lost'[p] = lost[p]
    BY <1>1, <2>1 DEF TypeOK
  <2>3. OnlyReader(o)
    BY <1>4, <1>5, <2>1, <2>2 DEF OnlyReader, View
  <2>4. interrupts'[o] - lost'[o] = interrupts[o] - lost[o] - 1
    BY <1>1, <2>2
  <2>5. View(o)' = [at |-> i + 1, accepts |-> filter[o], got |-> expected[o],
                    owed |-> interrupts[o] - lost[o] - 1]
    BY <1>4, <2>1, <2>4 DEF View
  <2> QED
    BY <1>7, <2>3, <2>5, LogLose
<1> QED
  BY <1>6, <1>7

\* A pointer moves, and nothing else a reader shows.
LEMMA LookInLog ==
    ASSUME TypeOK, NEW o \in live, NEW at \in offset[o] .. LogNext,
           offset' = [offset EXCEPT ![o] = at],
           UNCHANGED <<live, filter, expected, interrupts, lost, LogNext, LogFrames>>,
           \A j \in Readable : offset[o] <= j /\ j < at => Rejects(o, j)
    PROVE  [Log!Next]_(Log!vars)
<1>1. live \subseteq Ocbs
  BY DEF TypeOK
<1>2. offset'[o] = at /\ \A p \in Ocbs : p # o => offset'[p] = offset[p]
  BY <1>1 DEF TypeOK
<1>3. OnlyReader(o)
  BY <1>1, <1>2 DEF OnlyReader, View
<1>4. View(o)' = [View(o) EXCEPT !.at = at]
  BY <1>2 DEF View
<1> QED
  BY <1>3, <1>4, LogLook

\* Every step is a step of the log or none.
LEMMA LogStep ==
    ASSUME LogInv, RingInv', [Next]_vars
    PROVE  [Log!Next]_(Log!vars)
<1> USE CanManagerAssumption
<1>0. TypeOK /\ DispatchBusy /\ WalkLocks /\ RingInv /\ ListInv /\ PointerInv
      /\ ReaderInv /\ BudgetInv /\ live \subseteq Ocbs
  BY DEF LogInv, SafetyInv, TypeInv, TypeOK
<1>1. /\ LogNext \in Nat /\ queueHead \in Nat /\ queueBottom \in Nat
      /\ queueBottom <= LogNext
  BY <1>0, LogSlots
<1>2. ASSUME UNCHANGED <<ring, pc>> PROVE UNCHANGED <<LogNext, LogFrames>>
  BY <1>2 DEF LogNext, LogFrames, Readable, Slot, ring
<1>3. ASSUME UNCHANGED <<live, offset, filter, expected, interrupts, lost>>
      PROVE  LogReaders' = LogReaders
  BY <1>3 DEF LogReaders, View
<1>4. ASSUME UNCHANGED <<ring, pc, live, offset, filter, expected, interrupts, lost>>
      PROVE  [Log!Next]_(Log!vars)
  <2>1. UNCHANGED <<ring, pc>> /\ UNCHANGED <<live, offset, filter, expected, interrupts, lost>>
    BY <1>4
  <2> QED
    BY <1>2, <1>3, <2>1, LogIsUnchanged DEF LogStutter
<1>5. CASE UNCHANGED vars
  BY <1>4, <1>5 DEF vars, ocbs, history
<1>6. CASE WalkSkip \/ CloseKeep \/ CloseErase \/ Refuse \/ LockForRequest
  BY <1>4, <1>6 DEF WalkSkip, CloseKeep, CloseErase, Refuse, LockForRequest, ocbs, history
<1>7. CASE WalkNotify
  BY <1>4, <1>7 DEF WalkNotify, history
<1>8. ASSUME NEW c \in Clients, NEW o \in Ocbs, NEW op \in Ops,
             NEW arg \in Filters \cup {None}, Receive(c, o, op, arg)
      PROVE  [Log!Next]_(Log!vars)
  BY <1>4, <1>8 DEF Receive, ocbs, history
\* A write to the slot at the head, which is not in the log.
<1>9. ASSUME NEW frame, canMessageQueue' = [canMessageQueue EXCEPT ![queueHead % N] = frame],
             pc # "walk", pc' # "walk", UNCHANGED <<queueHead, queueBottom, ocbs, history>>
      PROVE  [Log!Next]_(Log!vars)
  <2>1. LogNext' = LogNext /\ Readable' = Readable /\ Readable = queueBottom .. queueHead - 1
    BY <1>9 DEF LogNext, Readable
  <2>2. ASSUME NEW i \in Readable PROVE Slot(i)' = Slot(i)
    <3>1. i \in Nat /\ i < queueHead /\ queueHead < i + N
      BY <1>0, <1>1, <2>1 DEF RingInv
    <3> QED
      BY <1>0, <1>1, <1>9, <3>1, SlotKept
  <2>3. LogFrames' = LogFrames
    BY <2>1, <2>2 DEF LogFrames
  <2> QED
    BY <1>3, <1>9, <2>1, <2>3, LogIsUnchanged DEF LogStutter, ocbs, history
<1>10. CASE ReadMessage
  BY <1>9, <1>10 DEF ReadMessage
<1>11. ASSUME NEW id \in Ids, ReadMessageDone(id) PROVE [Log!Next]_(Log!vars)
  BY <1>9, <1>11 DEF ReadMessageDone
<1>12. CASE LockForWalk
  <2> DEFINE id == Slot(queueHead).id
  <2>1. /\ LogNext = queueHead /\ LogNext' = queueHead + 1 /\ LogReaders' = LogReaders
        /\ UNCHANGED <<queueHead, queueBottom, canMessageQueue>>
    BY <1>3, <1>12 DEF LockForWalk, LogNext, ring, ocbs, history
  <2>2. queueHead = received - 1 /\ received \in Nat /\ queueBottom <= queueHead
    BY <1>0, <1>1, <1>12, <2>1 DEF LockForWalk, RingInv, TypeOK
  <2>3. Slot(queueHead).n = queueHead
    BY <1>0, <1>1, <2>2 DEF RingInv
  <2>4. Slot(queueHead) \in Frames \cup {Garbage}
    BY <1>0, <1>1, SlotTyped
  <2>5. id \in Ids
    BY <1>1, <2>3, <2>4 DEF Frames, Garbage
  <2>6. /\ Readable' = Readable \cup {LogNext} /\ LogNext \notin Readable
        /\ \A i : Slot(i)' = Slot(i)
    BY <1>1, <2>1 DEF Readable, Slot
  <2>7. LogFrames' = [i \in Readable \cup {LogNext} |->
                        IF i = LogNext THEN id ELSE LogFrames[i]]
    <3>1. LogFrames' = [i \in Readable \cup {LogNext} |-> Slot(i).id]
      BY <2>6 DEF LogFrames
    <3>2. \A i \in Readable : LogFrames[i] = Slot(i).id
      BY DEF LogFrames
    <3> QED
      BY <2>1, <3>1, <3>2
  <2>8. LogNext' = LogNext + 1
    BY <2>1
  <2> HIDE DEF id
  <2> QED
    BY <2>1, <2>5, <2>7, <2>8, LogArrive
<1>13. CASE WalkReject
  <2> DEFINE o == Head(delayedQueue).ocb
  <2>1. /\ delayedQueue # <<>> /\ pc = "walk" /\ offset[o] = queueHead
        /\ offset' = [offset EXCEPT ![o] = @ + 1]
        /\ UNCHANGED <<ring, pc>>
        /\ UNCHANGED <<live, filter, expected, interrupts, lost>>
    BY <1>13 DEF WalkReject, AtHead, Advance, history
  <2>2. PICK luck \in BOOLEAN : ~ CheckFilter(Slot(queueHead), filter[o], luck)
    BY <1>13 DEF WalkReject
  <2>3. o \in live /\ o \in Ocbs
    BY <1>0, <2>1, ListHead DEF ListInv
  <2>4. queueHead \in Readable
    BY <1>0, <1>1, <2>1 DEF Readable, LogNext, RingInv
  <2>5. Rejects(o, queueHead)
    BY <1>0, <2>2, <2>4, LogSlots DEF CheckFilter, Rejects
  <2>6. \A j \in Readable : offset[o] <= j /\ j < queueHead + 1 => Rejects(o, j)
    <3>1. \A j \in Readable : offset[o] <= j /\ j < queueHead + 1 => j = queueHead
      BY <1>1, <2>1 DEF Readable
    <3> QED
      BY <2>5, <3>1
  <2>7. queueHead + 1 \in offset[o] .. LogNext
    BY <1>1, <2>1 DEF LogNext
  <2>8. offset' = [offset EXCEPT ![o] = queueHead + 1]
    BY <2>1
  <2>9. UNCHANGED <<LogNext, LogFrames>>
    BY <1>2, <2>1
  <2> HIDE DEF o
  <2> QED
    BY <1>0, <2>1, <2>3, <2>6, <2>7, <2>8, <2>9, LookInLog
<1>14. CASE WalkReply
  <2> DEFINE e == Head(delayedQueue)
             o == e.ocb
             c == e.client
  <2>1. /\ delayedQueue # <<>> /\ pc = "walk" /\ offset[o] = queueHead
        /\ e.type = "ET_REPLY"
        /\ ReplyFrame(c, o, Slot(queueHead))
        /\ offset' = [offset EXCEPT ![o] = @ + 1]
        /\ UNCHANGED <<ring, pc>>
        /\ UNCHANGED <<live, filter, interrupts>>
    BY <1>14 DEF WalkReply, AtHead, Advance
  <2>2. PICK luck \in BOOLEAN : CheckFilter(Slot(queueHead), filter[o], luck)
    BY <1>14 DEF WalkReply
  <2>3. e \in Elements /\ e \in Pending /\ c \in Clients /\ o \in Ocbs /\ o \in live
    BY <1>0, <2>1, ListHead DEF ListInv
  <2>4. queueHead \in Readable
    BY <1>0, <1>1, <2>1 DEF Readable, LogNext, RingInv
  <2>5. filter[o] = Torn \/ Slot(queueHead).id \in filter[o]
    BY <1>0, <2>2, <2>4, LogSlots DEF CheckFilter
  <2>6. FirstFor(o, queueHead)
    <3>1. \A j \in Readable : ~ (offset[o] <= j /\ j < queueHead)
      BY <1>1, <2>1 DEF Readable
    <3>2. offset[o] <= queueHead
      BY <1>1, <2>1
    <3> HIDE DEF o
    <3> QED
      BY <2>4, <2>5, <3>1, <3>2 DEF FirstFor
  <2>7. ~ Closing(o)
    BY <1>0, <2>1 DEF WalkLocks, Closing
  <2>8. [type |-> "ET_REPLY", client |-> c, ocb |-> o] = e
    BY <2>1, <2>3 DEF Elements
  <2>9. ~ Reading(c, o) => interrupts[o] - lost[o] > 0
    <3>1. [type |-> "ET_REPLY", client |-> c, ocb |-> o] \in Pending
      BY <2>3, <2>8
    <3> HIDE DEF o, c
    <3> QED
      BY <1>0, <2>3, <2>7, <3>1, Paying
  <2>10. offset' = [offset EXCEPT ![o] = queueHead + 1]
    BY <2>1
  <2>11. UNCHANGED <<LogNext, LogFrames>>
    BY <1>2, <2>1
  <2> HIDE DEF o, c
  <2> QED
    BY <1>0, <2>1, <2>3, <2>6, <2>9, <2>10, <2>11, ReplyInLog
<1>15. CASE Publish
  <2>1. /\ pc = "walk" /\ pc' = "read" /\ LogReaders' = LogReaders
        /\ canMessageQueue' = canMessageQueue /\ received' = received
        /\ filling' = (filling /\ ~ RingFull(queueHead'))
    BY <1>3, <1>15 DEF Publish, ocbs, history
  <2>2. received \in Nat /\ queueHead = received - 1 /\ queueHead' = received
    BY <1>0, <2>1 DEF RingInv, TypeOK
  <2>3. LogNext = received /\ LogNext' = received /\ queueHead' = queueHead + 1
    BY <2>1, <2>2 DEF LogNext
  <2>4. \A i : Slot(i)' = Slot(i)
    BY <2>1 DEF Slot
  <2>5. CASE filling'
    <3>1. queueBottom' = queueBottom
      BY <1>15, <2>5 DEF Publish
    <3>2. LogFrames' = LogFrames /\ LogNext' = LogNext
      BY <2>3, <2>4, <3>1 DEF LogFrames, Readable
    <3> QED
      BY <2>1, <3>2, LogIsUnchanged DEF LogStutter
  <2>6. CASE ~ filling'
    <3>1. queueBottom' = received - N + 1 /\ received >= N
      <4>1. queueBottom' = queueHead' - N + 1 /\ ~ (queueHead' < N)
        BY <2>6 DEF RingInv
      <4> QED
        BY <2>2, <4>1
    <3>2. queueBottom = received - N
      <4>1. CASE filling
        <5>1. queueBottom = 0 /\ queueHead < N
          BY <1>0, <4>1 DEF RingInv
        <5> QED
          BY <1>1, <2>2, <3>1, <5>1
      <4>2. CASE ~ filling
        <5>1. queueBottom = queueHead - N + 1
          BY <1>0, <4>2 DEF RingInv
        <5> QED
          BY <1>1, <2>2, <5>1
      <4> QED
        BY <4>1, <4>2
    <3>3. /\ LogNext - N \in Readable
          /\ Readable' = Readable \ {LogNext - N}
      BY <1>1, <2>2, <2>3, <3>1, <3>2 DEF Readable
    <3>4. LogFrames' = [i \in Readable \ {LogNext - N} |-> LogFrames[i]]
      BY <2>4, <3>3 DEF LogFrames
    <3> QED
      BY <2>1, <2>3, <3>3, <3>4, LogForget
  <2> QED
    BY <2>5, <2>6
\* A handler that only moves the pointer of its descriptor.
<1>16. ASSUME NEW o \in live, NEW at \in offset[o] .. queueHead, pc # "walk",
              offset' = [offset EXCEPT ![o] = at],
              UNCHANGED <<ring, pc, live, filter, expected, interrupts, lost>>,
              \A j \in Readable : offset[o] <= j /\ j < at => Rejects(o, j)
       PROVE  [Log!Next]_(Log!vars)
  <2>1. UNCHANGED <<ring, pc>> /\ UNCHANGED <<live, filter, expected, interrupts, lost>>
    BY <1>16
  <2>2. UNCHANGED <<LogNext, LogFrames>> /\ LogNext = queueHead
    BY <1>2, <1>16, <2>1 DEF LogNext
  <2> QED
    BY <1>0, <1>16, <2>1, <2>2, LookInLog
\* The descriptor of the handler at work.
<1>17. ASSUME queueMutex = "dispatch"
       PROVE  /\ request # None /\ request.client \in Clients /\ request.ocb \in Ocbs
              /\ pc # "walk"
              /\ request.op \notin {"open", "append"} => request.ocb \in live
  BY <1>0, <1>17, RequestTyped DEF DispatchBusy, WalkLocks, ListInv
<1>18. CASE ReadEmpty \/ ReadDelayed \/ NotifyNone \/ NotifyArm
  <2> DEFINE o == request.ocb
  <2>1. /\ queueMutex = "dispatch" /\ request.op \in ReadOps \cup PollOps
        /\ offset' = [offset EXCEPT ![o] = queueHead]
        /\ UNCHANGED <<ring, pc, live, filter, expected, interrupts, lost>>
    BY <1>18 DEF ReadEmpty, ReadDelayed, NotifyNone, NotifyArm, Handling, ReadOps, PollOps,
       history
  <2>2. PICK luck \in BOOLEAN : NoneAccepted(o, luck)
    BY <1>18 DEF ReadEmpty, ReadDelayed, NotifyNone, NotifyArm
  <2>3. o \in live /\ o \in Ocbs /\ pc # "walk"
    BY <1>17, <2>1 DEF ReadOps, PollOps
  <2> HIDE DEF o
  <2>4. /\ offset[o] <= queueHead
        /\ \A j \in Readable : offset[o] <= j => Rejects(o, j)
    BY <1>0, <2>2, <2>3, SearchInLog
  <2>5. queueHead \in offset[o] .. queueHead
    BY <1>0, <1>1, <2>3, <2>4 DEF TypeOK
  <2> QED
    BY <1>16, <2>1, <2>3, <2>4, <2>5
<1>19. CASE NotifyFound
  <2> DEFINE o == request.ocb
  <2>1. /\ queueMutex = "dispatch" /\ request.op \in PollOps
        /\ UNCHANGED <<ring, pc, live, filter, expected, interrupts, lost>>
    BY <1>19 DEF NotifyFound, Handling, history
  <2>2. PICK luck \in BOOLEAN, i \in Unread(o) :
          FirstAccepted(o, i, luck) /\ offset' = [offset EXCEPT ![o] = i]
    BY <1>19 DEF NotifyFound
  <2>3. o \in live /\ o \in Ocbs /\ pc # "walk"
    BY <1>17, <2>1 DEF PollOps
  <2> HIDE DEF o
  <2>4. FirstFor(o, i)
    BY <1>0, <2>2, <2>3, SearchInLog
  <2>5. i \in offset[o] .. queueHead
    BY <1>0, <1>1, <2>3, <2>4 DEF TypeOK, FirstFor, Readable, LogNext
  <2>6. \A j \in Readable : offset[o] <= j /\ j < i => Rejects(o, j)
    BY <2>4 DEF FirstFor
  <2> QED
    BY <1>16, <2>1, <2>2, <2>3, <2>5, <2>6
<1>20. CASE ReadFound
  <2> DEFINE o == request.ocb
             c == request.client
  <2>1. /\ queueMutex = "dispatch" /\ request.op \in ReadOps
        /\ UNCHANGED <<ring, pc>> /\ UNCHANGED <<live, filter, interrupts>>
    BY <1>20 DEF ReadFound, Handling
  <2>2. PICK luck \in BOOLEAN, i \in Unread(o) :
          /\ FirstAccepted(o, i, luck)
          /\ ReplyFrame(c, o, Slot(i))
          /\ offset' = [offset EXCEPT ![o] = i + 1]
    BY <1>20 DEF ReadFound
  <2>3. o \in live /\ o \in Ocbs /\ c \in Clients /\ pc # "walk" /\ request # None
    BY <1>17, <2>1 DEF ReadOps
  <2>4. ~ Closing(o)
    BY <2>1 DEF Closing, ReadOps
  <2>5. ~ Reading(c, o) => Orphan(o) = 1
    BY <2>1, <2>3 DEF Orphan
  <2> HIDE DEF o, c
  <2>6. FirstFor(o, i)
    BY <1>0, <2>2, <2>3, SearchInLog
  <2>7. ~ Reading(c, o) => interrupts[o] - lost[o] > 0
    BY <1>0, <2>3, <2>4, <2>5, Paying
  <2>8. UNCHANGED <<LogNext, LogFrames>>
    BY <1>2, <2>1
  <2> QED
    BY <1>0, <2>1, <2>2, <2>3, <2>6, <2>7, <2>8, ReplyInLog
<1>21. CASE io_open
  <2> PICK o : o = request.ocb
    OBVIOUS
  <2> PICK at : at = OpenAt(request.op)
    OBVIOUS
  <2>1. /\ queueMutex = "dispatch" /\ request.op \in {"open", "append"}
        /\ UNCHANGED <<ring, pc>> /\ live' = live \cup {o} /\ Zeroed(o)
        /\ offset' = [offset EXCEPT ![o] = at]
    BY <1>21 DEF io_open, Handling
  <2>2. o \in Ocbs \ live /\ pc # "walk"
    BY <1>0, <1>17, <2>1 DEF ListInv
  <2>3. UNCHANGED <<LogNext, LogFrames>> /\ LogNext = queueHead
    BY <1>2, <2>1, <2>2 DEF LogNext
  <2>4. at \in {LogNext} \cup {i \in Readable : i - 1 \notin Readable}
    BY <1>1, <2>3 DEF OpenAt, Readable
  <2>5. View(o)' = [at |-> at, accepts |-> Ids, got |-> 0, owed |-> 0]
    <3>1. /\ offset'[o] = at /\ filter'[o] = Ids /\ expected'[o] = 0
          /\ interrupts'[o] = 0 /\ lost'[o] = 0
      BY <1>0, <2>1, <2>2 DEF Zeroed, TypeOK
    <3>2. interrupts'[o] - lost'[o] = 0
      BY <3>1
    <3> QED
      BY <3>1, <3>2 DEF View
  <2>6. \A p \in live : View(p)' = View(p)
    <3>1. ASSUME NEW p \in live
          PROVE  /\ offset'[p] = offset[p] /\ filter'[p] = filter[p]
                 /\ expected'[p] = expected[p] /\ interrupts'[p] = interrupts[p]
                 /\ lost'[p] = lost[p]
      BY <1>0, <2>1, <2>2 DEF Zeroed, TypeOK
    <3> QED
      BY <3>1 DEF View
  <2> QED
    BY <2>1, <2>2, <2>3, <2>4, <2>5, <2>6, LogOpen
<1>22. CASE CloseFree
  <2> DEFINE o == request.ocb
  <2>1. /\ queueMutex = "dispatch" /\ request.op = "close"
        /\ UNCHANGED <<ring, pc>> /\ live' = live \ {o} /\ Zeroed(o)
        /\ offset' = [offset EXCEPT ![o] = 0]
    BY <1>22 DEF CloseFree, Handling
  <2>2. o \in live
    BY <1>17, <2>1
  <2>3. UNCHANGED <<LogNext, LogFrames>>
    BY <1>2, <2>1
  <2> HIDE DEF o
  <2>4. \A p \in live' : View(p)' = View(p)
    <3>1. ASSUME NEW p \in live \ {o}
          PROVE  /\ offset'[p] = offset[p] /\ filter'[p] = filter[p]
                 /\ expected'[p] = expected[p] /\ interrupts'[p] = interrupts[p]
                 /\ lost'[p] = lost[p]
      BY <1>0, <2>1, <2>2 DEF Zeroed, TypeOK
    <3> QED
      BY <2>1, <3>1 DEF View
  <2> QED
    BY <2>1, <2>2, <2>3, <2>4, LogClose
\* A filter is set, or half of it.
<1>23. ASSUME NEW o \in live, NEW accepts \in (SUBSET Ids) \cup {Torn},
              filter' = [filter EXCEPT ![o] = accepts],
              UNCHANGED <<ring, pc, live, offset, history>>
       PROVE  [Log!Next]_(Log!vars)
  <2>1. UNCHANGED <<ring, pc>> /\ UNCHANGED <<live, offset, expected, interrupts, lost>>
    BY <1>23 DEF history
  <2>2. filter'[o] = accepts /\ \A p \in live : p # o => filter'[p] = filter[p]
    BY <1>0, <1>23 DEF TypeOK
  <2>3. OnlyReader(o)
    BY <2>1, <2>2 DEF OnlyReader, View
  <2>4. View(o)' = [View(o) EXCEPT !.accepts = accepts]
    BY <2>1, <2>2 DEF View
  <2> QED
    BY <1>2, <2>1, <2>3, <2>4, LogSetFilter
<1>24. CASE io_devctl
  <2>1. request.ocb \in live
    BY <1>0, <1>24, RequestTyped DEF io_devctl, ListInv
  <2> QED
    BY <1>23, <1>24, <2>1 DEF io_devctl
<1>25. CASE io_devctl_return
  <2>1. request.ocb \in live /\ request.arg \in (SUBSET Ids) \cup {Torn}
    BY <1>0, <1>25, RequestTyped DEF io_devctl_return, ListInv, Torn
  <2> QED
    BY <1>23, <1>25, <2>1 DEF io_devctl_return
<1>26. ASSUME NEW c \in Clients, io_unblock(c) PROVE [Log!Next]_(Log!vars)
  <2> PICK o : o = blocked[c].ocb
    OBVIOUS
  <2>1. /\ request = None /\ blocked[c] # None
        /\ interrupts' = [interrupts EXCEPT ![o] = @ + 1]
        /\ UNCHANGED <<ring, pc>> /\ UNCHANGED <<live, offset, filter, expected, lost>>
    BY <1>26 DEF io_unblock, ocbs
  <2>2. [type |-> "ET_REPLY", client |-> c, ocb |-> o] \in Pending
    BY <1>0, <2>1 DEF ReaderInv, ReaderHasElement
  <2>3. o \in live
    BY <1>0, <2>2 DEF ListInv
  <2>4. interrupts'[o] = interrupts[o] + 1 /\ \A p \in live : p # o => interrupts'[p] = interrupts[p]
    BY <1>0, <2>1, <2>3 DEF TypeOK
  <2>5. OnlyReader(o)
    BY <2>1, <2>4 DEF OnlyReader, View
  <2>6. interrupts'[o] - lost'[o] = interrupts[o] - lost[o] + 1
    <3>1. interrupts[o] \in Nat /\ lost[o] \in Nat
      BY <1>0, <2>3 DEF TypeOK
    <3>2. lost'[o] = lost[o]
      BY <2>1
    <3> QED
      BY <2>4, <3>1, <3>2
  <2>7. View(o)' = [at |-> offset[o], accepts |-> filter[o], got |-> expected[o],
                    owed |-> interrupts[o] - lost[o] + 1]
    BY <2>1, <2>6 DEF View
  <2> QED
    BY <1>2, <2>1, <2>3, <2>5, <2>7, LogInterrupt
<1> QED
  BY <1>5, <1>6, <1>7, <1>8, <1>10, <1>11, <1>12, <1>13, <1>14, <1>15, <1>18, <1>19,
     <1>20, <1>21, <1>22, <1>24, <1>25, <1>26
  DEF Next, ReceiveThread, Dispatch, Environment

\* What the clients of the descriptors see is a walk through a log of the last
\* frames, as long as the 32-bit head of the ring does not wrap: the two
\* threads, the ring, the mutex and the list of delayed requests do not show.
THEOREM LogImplemented ==
    ASSUME MaxFrames < HeadMod
    PROVE  Spec => ImplementsLog
<1>1. Init => LogInv
  BY TypeInit, RingInit, ListInit, PointerInit, ReaderInit, BudgetInit DEF LogInv, SafetyInv
<1>2. LogInv /\ [Next]_vars => LogInv'
  <2> SUFFICES ASSUME LogInv, [Next]_vars PROVE LogInv'
    OBVIOUS
  <2>1. TypeInv /\ TypeInv' /\ TypeOK'
    BY TypeStep DEF LogInv, TypeInv
  <2>2. SafetyInv'
    BY <2>1, RingStep, ListStep, PointerStep DEF LogInv, SafetyInv
  <2> QED
    BY <2>1, <2>2, ReaderStep, BudgetStep DEF LogInv, SafetyInv
<1>3. LogInv /\ LogInv' /\ [Next]_vars => [Log!Next]_(Log!vars)
  BY LogStep DEF LogInv, SafetyInv
<1> QED
  BY <1>1, <1>2, <1>3, LogInit, PTL DEF Spec, ImplementsLog, Log!Spec
=============================================================================
