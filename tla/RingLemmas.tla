----------------------------- MODULE RingLemmas ------------------------------
(***************************************************************************)
(* What the proofs need to know of the driver's rings, which are indexed   *)
(* by counters modulo their size, and of its queues, which are sequences.  *)
(***************************************************************************)
EXTENDS Integers, Sequences, TLAPS

\* The index of a slot is inside the ring.
LEMMA ModInRange ==
    ASSUME NEW i \in Int, NEW m \in Nat \ {0}
    PROVE  i % m \in 0 .. m - 1
  OBVIOUS

\* A counter that has not gone round yet is its own index.
LEMMA ModSmall ==
    ASSUME NEW m \in Nat \ {0}, NEW i \in 0 .. m - 1
    PROVE  i % m = i
  OBVIOUS

\* Two entries less than a ring apart are in different slots.
LEMMA ModDistinct ==
    ASSUME NEW m \in Nat \ {0}, NEW i \in Nat, NEW j \in Nat, i < j, j < i + m
    PROVE  i % m # j % m
<1> SUFFICES ASSUME i % m = j % m PROVE FALSE
  OBVIOUS
<1> DEFINE d == (j \div m) - (i \div m)
<1>1. i = m * (i \div m) + (i % m) /\ i \div m \in Int
  OBVIOUS
<1>2. j = m * (j \div m) + (j % m) /\ j \div m \in Int
  OBVIOUS
<1>3. d \in Int
  BY <1>1, <1>2
<1>4. j - i = m * d
  BY <1>1, <1>2
<1>5. 0 < m * d /\ m * d < m
  BY <1>4
<1> HIDE DEF d
<1>6. CASE d <= 0
  BY <1>3, <1>5, <1>6
<1>7. CASE d >= 1
  BY <1>3, <1>5, <1>7
<1> QED
  BY <1>3, <1>6, <1>7

\* A number and a quotient determine the index.
LEMMA ModUnique ==
    ASSUME NEW m \in Nat \ {0}, NEW i \in Int, NEW q \in Int, NEW r \in 0 .. m - 1,
           i = m * q + r
    PROVE  i % m = r
<1> DEFINE d == (i \div m) - q
<1>1. i = m * (i \div m) + (i % m) /\ i \div m \in Int /\ i % m \in 0 .. m - 1
  OBVIOUS
<1>2. d \in Int /\ m * d = r - (i % m)
  BY <1>1
<1>3. - m < m * d /\ m * d < m
  BY <1>1, <1>2
<1> HIDE DEF d
<1>4. CASE d <= -1
  BY <1>2, <1>3, <1>4
<1>5. CASE d >= 1
  BY <1>2, <1>3, <1>5
<1>6. CASE d = 0
  BY <1>1, <1>2, <1>6
<1> QED
  BY <1>2, <1>4, <1>5, <1>6

\* Incrementing a counter increments its index, or wraps it.
LEMMA ModNext ==
    ASSUME NEW m \in Nat \ {0}, NEW i \in Nat
    PROVE  (i + 1) % m = IF (i % m) + 1 = m THEN 0 ELSE (i % m) + 1
<1> DEFINE q == i \div m
           r == i % m
<1>1. i = m * q + r /\ q \in Int /\ r \in 0 .. m - 1
  OBVIOUS
<1> HIDE DEF q, r
<1>2. CASE r + 1 = m
  <2> DEFINE j == i + 1
             p == q + 1
  <2>1. j \in Int /\ p \in Int /\ 0 \in 0 .. m - 1 /\ j = m * p + 0
    BY <1>1, <1>2
  <2> HIDE DEF j, p
  <2>2. j % m = 0
    BY <2>1, ModUnique
  <2> QED
    BY <1>2, <2>2 DEF j, r
<1>3. CASE r + 1 # m
  <2> DEFINE j == i + 1
             s == r + 1
  <2>1. j \in Int /\ s \in 0 .. m - 1 /\ j = m * q + s
    BY <1>1, <1>3
  <2> HIDE DEF j, s
  <2>2. j % m = s
    BY <1>1, <2>1, ModUnique
  <2> QED
    BY <1>3, <2>2 DEF j, r, s
<1> QED
  BY <1>2, <1>3

\* An offset may be added before or after the index is taken.
LEMMA ModAdd ==
    ASSUME NEW m \in Nat \ {0}, NEW i \in Nat, NEW j \in Nat
    PROVE  ((i % m) + j) % m = (i + j) % m
<1> DEFINE q == i \div m
           n == (i % m) + j
           p == n \div m
           r == n % m
           u == q + p
           v == i + j
<1>1. i = m * q + (i % m) /\ q \in Int /\ n \in Int
  OBVIOUS
<1>2. n = m * p + r /\ p \in Int /\ r \in 0 .. m - 1
  BY <1>1
<1>3. v = m * q + n
  BY <1>1
<1> HIDE DEF q, n, p, r, v
<1>4. v = m * u + r /\ u \in Int /\ v \in Int
  BY <1>1, <1>2, <1>3
<1> HIDE DEF u
<1>5. v % m = r
  BY <1>2, <1>4, ModUnique
<1> QED
  BY <1>5 DEF v, r, n

-----------------------------------------------------------------------------
\* Taking the first element leaves the others, one place further on.
LEMMA HeadTail ==
    ASSUME NEW S, NEW s \in Seq(S), s # <<>>
    PROVE  /\ Head(s) \in S
           /\ Tail(s) \in Seq(S)
           /\ Len(s) \in Nat \ {0}
           /\ Head(s) = s[1]
           /\ Len(Tail(s)) = Len(s) - 1
           /\ \A i \in 1 .. Len(s) - 1 : Tail(s)[i] = s[i + 1]
  OBVIOUS

\* Appending leaves the elements where they are.
LEMMA AppendAt ==
    ASSUME NEW S, NEW s \in Seq(S), NEW e \in S
    PROVE  /\ Append(s, e) \in Seq(S)
           /\ Len(s) \in Nat
           /\ Len(Append(s, e)) = Len(s) + 1
           /\ \A i \in 1 .. Len(s) : Append(s, e)[i] = s[i]
           /\ Append(s, e)[Len(s) + 1] = e
  OBVIOUS
=============================================================================
