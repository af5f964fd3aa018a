------------------------------ MODULE FrameLog ------------------------------
(***************************************************************************)
(* What the resource manager promises its clients: a log of the last       *)
(* frames of the bus, which every open descriptor reads through a filter   *)
(* of its own, from a position of its own.  No ring, no threads, no mutex, *)
(* no delayed requests.                                                    *)
(***************************************************************************)
EXTENDS Integers

CONSTANTS
    Readers,        \* open descriptors
    Ids,            \* arbitration fields of the frames
    Window,         \* how many frames the log may hold
    Unknown         \* a filter that is being replaced: it accepts what it likes

VARIABLES
    next,           \* number of the next frame
    log,            \* the frames still in the log: their numbers, their Ids
    reader          \* for each open descriptor: its position, its filter, one
                    \* more than the number of the last frame it got, and the
                    \* interrupted reads a frame may still be lost for

vars == <<next, log, reader>>

Oldest == next - Window
Numbers == DOMAIN log
From(r) == {i \in Numbers : i >= reader[r].at}

MayAccept(r, i) == reader[r].accepts = Unknown \/ log[i] \in reader[r].accepts
MayReject(r, i) == reader[r].accepts = Unknown \/ log[i] \notin reader[r].accepts

Init == next = 0 /\ log = <<>> /\ reader = <<>>

Arrive(id) ==
    /\ next' = next + 1
    /\ log' = [i \in Numbers \cup {next} |-> IF i = next THEN id ELSE log[i]]
    /\ UNCHANGED reader

\* Only a full log forgets, and only its oldest frame.
Forget ==
    /\ Oldest \in Numbers
    /\ log' = [i \in Numbers \ {Oldest} |-> log[i]]
    /\ UNCHANGED <<next, reader>>

\* A descriptor is opened at the oldest frame or at the end, without a filter.
Open(r) ==
    /\ r \notin DOMAIN reader
    /\ \E at \in {next} \cup {i \in Numbers : i - 1 \notin Numbers} :
         reader' = [s \in DOMAIN reader \cup {r} |->
                      IF s = r THEN [at |-> at, accepts |-> Ids, got |-> 0, owed |-> 0]
                      ELSE reader[s]]
    /\ UNCHANGED <<next, log>>

Close(r) ==
    /\ reader' = [s \in DOMAIN reader \ {r} |-> reader[s]]
    /\ UNCHANGED <<next, log>>

SetFilter(r, accepts) ==
    /\ reader' = [reader EXCEPT ![r].accepts = accepts]
    /\ UNCHANGED <<next, log>>

\* A read gets the first frame from its position that the filter accepts.
First(r, i) ==
    /\ i \in From(r)
    /\ MayAccept(r, i)
    /\ \A j \in From(r) : j < i => MayReject(r, j)

Deliver(r, i) ==
    /\ First(r, i)
    /\ reader[r].got <= i
    /\ reader' = [reader EXCEPT ![r].at = i + 1, ![r].got = i + 1]
    /\ UNCHANGED <<next, log>>

\* Looking for a frame passes what is rejected or forgotten, nothing else.
Look(r, at) ==
    /\ at > reader[r].at
    /\ \A j \in From(r) : j < at => MayReject(r, j)
    /\ reader' = [reader EXCEPT ![r].at = at]
    /\ UNCHANGED <<next, log>>

\* A read may be interrupted, and then one frame may reach nobody.
Interrupt(r) ==
    /\ reader' = [reader EXCEPT ![r].owed = @ + 1]
    /\ UNCHANGED <<next, log>>

Lose(r, i) ==
    /\ First(r, i)
    /\ reader[r].owed > 0
    /\ reader' = [reader EXCEPT ![r].at = i + 1, ![r].owed = @ - 1]
    /\ UNCHANGED <<next, log>>

Next ==
    \/ \E id \in Ids : Arrive(id)
    \/ Forget
    \/ \E r \in Readers : Open(r)
    \/ \E r \in DOMAIN reader :
         \/ Close(r)
         \/ \E accepts \in (SUBSET Ids) \cup {Unknown} : SetFilter(r, accepts)
         \/ \E i \in Numbers : Deliver(r, i) \/ Lose(r, i)
         \/ \E at \in reader[r].at .. next : Look(r, at)
         \/ Interrupt(r)

Spec == Init /\ [][Next]_vars
=============================================================================
