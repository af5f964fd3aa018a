---------------------------- MODULE MCCanManager ----------------------------
(***************************************************************************)
(* Instances of CanManager for TLC.  MCShared: two threads c1 and c2 use   *)
(* one descriptor.  MCPrivate: each client has a descriptor of its own.    *)
(***************************************************************************)
EXTENDS CanManagerLog, TLC

CONSTANTS c1, c2, a, b, x, y

MCShared  == {<<c1, a>>, <<c2, a>>}
MCPrivate == {<<c1, a>>, <<c2, b>>}
MCSingle  == {<<c1, a>>}
MCOneFilter == {{x}}
MCFilters == {{x}, {y}}

\* Bound: the second client is there for the first Together frames, the first client
\* for all of them.  Only what the environment does is bounded: the next frame comes
\* when the second client is gone, and it does not come back.
Together == 2
Alone    == received > Together \/ (received = Together /\ pc = "copy")
Bounded  == Alone' => blocked'[c2] = None /\ b \notin live'

Symmetry  == Permutations(Ids) \cup Permutations(Clients)
=============================================================================
