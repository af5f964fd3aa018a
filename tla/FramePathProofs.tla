-------------------------- MODULE FramePathProofs --------------------------
(***************************************************************************)
(* Every frame that arrives is the frame that was sent, for all            *)
(* identifiers, texts, lengths and data, and candump shows it when the     *)
(* filters want it.  The inductive invariant follows the frame: it is what *)
(* its sender wrote until it is in the registers, the registers hold it    *)
(* until it is received (OnTheWay), and no filter has looked at it before  *)
(* (NotShownYet); the filters stay what candump made of its command line   *)
(* (AsParsed).  What the parser makes of a text is typed for every text    *)
(* by the least number principle, in the place of an induction.            *)
(***************************************************************************)
EXTENDS FramePath, SequenceTheorems, WellFoundedInduction, TLAPS

Low(eff) == IF eff THEN 8 ELSE 32

\* The identifier the registers show.
Shows(regs) == IF regs.eff THEN ExtendedId(regs.data) ELSE StandardId(regs.data)

Holds(regs, f) ==
    /\ regs.eff = f.can_id.eff /\ regs.rtr = f.can_id.rtr /\ regs.len = f.len
    /\ Shows(regs) = IF f.can_id.eff THEN f.can_id.id ELSE f.can_id.id % 2^11
    /\ ~ f.can_id.rtr =>
         \A i \in 1..8 : i <= f.len => regs.data[i - 1 + DataOffset(f.can_id.eff)] = f.data[i]

OnTheWay ==
    /\ stage = "queued" => canFrame = sent
    /\ stage = "sent"   => Holds(rx, sent)
    /\ RoundTrip

NotShownYet ==
    /\ stage \in {"queued", "sent", "received"} => shown = "none"
    /\ shown # "none" \/ stage = "received" => ~ canFrame.can_id.err

AsParsed == canFilters = ParsedFilters(tokens)

IInv == TypeOK /\ OnTheWay /\ NotShownYet /\ AsParsed /\ ShownIfWanted

\* TransmitMessage reads behind the frame only after a text without data, or one that
\* begins with '#': of all other texts the parser makes no more than eight bytes.
LongOnlyWithoutData ==
    stage = "queued" /\ canFrame.len > 8 => text.digits = 0 \/ text.data.kind = "none"

-----------------------------------------------------------------------------
(***************************************************************************)
(* Sequences of sequences.                                                 *)
(***************************************************************************)

\* Every set of natural numbers that is not empty has a least member.
LEMMA LeastMember ==
    ASSUME NEW T, T \subseteq Nat, T # {}
    PROVE  \E m \in T : \A k \in T : m <= k
<1> DEFINE R == {ss \in Nat \X Nat : ss[1] < ss[2]}
<1>1. IsWellFoundedOn(R, Nat)
  BY NatLessThanWellFounded DEF OpToRel
<1>2. \A m, k \in Nat : <<k, m>> \notin R => m <= k
  OBVIOUS
<1> HIDE DEF R
<1>3. PICK m \in T : \A k \in T : <<k, m>> \notin R
  BY <1>1, WFMin
<1> QED
  BY <1>2, <1>3

\* Sequences over a set, one after the other, are a sequence over the set.
LEMMA FlattenTyped ==
    ASSUME NEW S, NEW seqs \in Seq(Seq(S))
    PROVE  FlattenSeq(seqs) \in Seq(S)
<1> DEFINE n == Len(seqs)
           Step(g, m) == [i \in 1..m |-> IF i = 1 THEN seqs[i] ELSE g[i-1] \o seqs[i]]
           Solved(m) == \E g : g = Step(g, m)
           Undefined == {m \in 0..n : ~ Solved(m)}
<1>0. n \in Nat /\ DOMAIN seqs = 1..n /\ \A i \in 1..n : seqs[i] \in Seq(S)
  OBVIOUS
<1>1. ASSUME Undefined # {} PROVE FALSE
  <2>0. Undefined \subseteq 0..n /\ Undefined \subseteq Nat
    <3> HIDE DEF Solved, n
    <3> QED
      BY <1>0
  <2> HIDE DEF Undefined
  <2>1. PICK m \in Undefined : \A k \in Undefined : m <= k
    BY <1>1, <2>0, LeastMember
  <2>5. m \in 0..n /\ m \in Nat
    BY <2>0
  <2>6. m - 1 \notin Undefined
    BY <2>1, <2>5
  <2> USE DEF Undefined
  <2>2. m # 0
    <3>1. <<>> = Step(<<>>, 0)
      OBVIOUS
    <3>2. m = 0 => \E g : g = Step(g, m)
      BY <3>1
    <3> QED
      BY <3>2, <2>1
  <2>3. PICK g : g = Step(g, m - 1)
    <3>1. m - 1 \in 0..n
      BY <1>0, <2>2, <2>5
    <3> QED
      BY <2>6, <3>1
  <2> DEFINE h == [i \in 1..m |-> IF i = m THEN (IF m = 1 THEN seqs[m] ELSE g[m-1] \o seqs[m])
                                  ELSE g[i]]
  <2>4. h = Step(h, m)
    <3>1. ASSUME NEW i \in 1..m
          PROVE  h[i] = IF i = 1 THEN seqs[i] ELSE h[i-1] \o seqs[i]
      <4>1. CASE i = m
        BY <4>1, <2>1, <2>2
      <4>2. CASE i # m
        <5>1. i \in 1..(m - 1) /\ (i # 1 => i - 1 \in 1..(m-1) /\ i - 1 # m /\ i - 1 \in 1..m)
          BY <4>2, <2>1, <2>2
        <5>2. g[i] = IF i = 1 THEN seqs[i] ELSE g[i-1] \o seqs[i]
          BY <5>1, <2>3
        <5> QED
          BY <4>2, <5>1, <5>2
      <4> QED
        BY <4>1, <4>2
    <3> QED
      BY <3>1
  <2> QED
    BY <2>1, <2>4
<1>2. CASE n = 0
  BY <1>2 DEF FlattenSeq
<1>3. CASE n # 0
  <2> DEFINE f == CHOOSE g : g = Step(g, n)
  <2>1. FlattenSeq(seqs) = f[n]
    BY <1>3 DEF FlattenSeq
  <2>2. f = Step(f, n)
    <3>1. n \in 0..n /\ n \notin Undefined
      <4>1. n \in 0..n
        BY <1>0
      <4> HIDE DEF Undefined
      <4> QED
        BY <1>1, <4>1
    <3>2. \E g : g = Step(g, n)
      BY <3>1
    <3> QED
      BY <3>2
  <2> HIDE DEF f
  <2> DEFINE Untyped == {m \in 1..n : f[m] \notin Seq(S)}
  <2>3. ASSUME Untyped # {} PROVE FALSE
    <3>0. Untyped \subseteq Nat
      BY <1>0
    <3> HIDE DEF Untyped
    <3>1. PICK m \in Untyped : \A k \in Untyped : m <= k
      BY <2>3, <3>0, LeastMember
    <3> USE DEF Untyped
    <3>4. m \in 1..n /\ m \in Nat
      BY <1>0
    <3>2. f[m] = IF m = 1 THEN seqs[m] ELSE f[m-1] \o seqs[m]
      BY <2>2, <3>4
    <3>3. m # 1 => f[m-1] \in Seq(S)
      <4>1. m # 1 => m - 1 \in 1..n /\ ~ m <= m - 1
        BY <1>0, <3>4
      <4> QED
        BY <3>1, <4>1
    <3>5. f[m] \in Seq(S)
      BY <1>0, <3>2, <3>3, <3>4
    <3> QED
      BY <3>5
  <2> QED
    BY <1>3, <2>1, <2>3
<1> QED
  BY <1>2, <1>3

-----------------------------------------------------------------------------
(***************************************************************************)
(* The registers.                                                          *)
(***************************************************************************)

\* The bytes of an identifier are bytes, and leave room for the bits after it.
LEMMA IdBytesTyped ==
    ASSUME NEW eff \in BOOLEAN, NEW id \in 0..(2^29 - 1)
    PROVE  /\ IdBytes(eff, id) \in [1..DataOffset(eff) -> 0..255]
           /\ IdBytes(eff, id)[DataOffset(eff)] % Low(eff) = 0
<1>1. CASE eff
  <2>1. /\ id \div 2^21 \in 0..255 /\ (id \div 2^13) % 2^8 \in 0..255
        /\ (id \div 2^5) % 2^8 \in 0..255 /\ (id % 2^5) * 2^3 \in 0..255
        /\ ((id % 2^5) * 2^3) % 8 = 0
    OBVIOUS
  <2> QED
    BY <1>1, <2>1 DEF IdBytes, ExtendedBytes, DataOffset, Low
<1>2. CASE ~ eff
  <2>1. /\ (id % 2^11) \div 2^3 \in 0..255 /\ (id % 2^3) * 2^5 \in 0..255
        /\ ((id % 2^3) * 2^5) % 32 = 0
    OBVIOUS
  <2> QED
    BY <1>2, <2>1 DEF IdBytes, StandardBytes, DataOffset, Low
<1> QED
  BY <1>1, <1>2

\* The bit of a remote frame fits in the byte with the last bits of an identifier.
LEMMA RoomForFlag ==
    ASSUME NEW x \in 0..255, NEW flag \in {0, 4, 16},
           x % 32 = 0 \/ (x % 8 = 0 /\ flag # 16)
    PROVE  x + flag \in 0..255
<1>1. CASE x % 32 = 0
  <2>1. x <= 224
    BY <1>1
  <2> QED
    BY <2>1
<1>2. CASE x % 8 = 0 /\ flag # 16
  <2>1. x <= 248
    BY <1>2
  <2> QED
    BY <1>2, <2>1
<1> QED
  BY <1>1, <1>2

\* An extended identifier is put together again from its bytes, whatever stands in
\* the three bits after it.
LEMMA ExtendedIdOf ==
    ASSUME NEW id \in 0..(2^29 - 1), NEW flag \in 0..7
    PROVE  (id \div 2^21) * 2^21 + ((id \div 2^13) % 2^8) * 2^13
             + ((id \div 2^5) % 2^8) * 2^5 + ((id % 2^5) * 2^3 + flag) \div 2^3 = id
<1>1. ((id % 2^5) * 2^3 + flag) \div 2^3 = id % 2^5
  OBVIOUS
<1>2. (id \div 2^5) * 2^5 + (id % 2^5) = id
  OBVIOUS
<1>3. (id \div 2^13) * 2^8 + ((id \div 2^5) % 2^8) = id \div 2^5
  OBVIOUS
<1>4. (id \div 2^21) * 2^8 + ((id \div 2^13) % 2^8) = id \div 2^13
  OBVIOUS
<1> QED
  BY <1>1, <1>2, <1>3, <1>4

\* The same of the low 11 bits for a standard one, with five bits after it.
LEMMA StandardIdOf ==
    ASSUME NEW id \in 0..(2^29 - 1), NEW flag \in 0..31
    PROVE  ((id % 2^11) \div 2^3) * 2^3 + ((id % 2^3) * 2^5 + flag) \div 2^5 = id % 2^11
<1>1. ((id % 2^3) * 2^5 + flag) \div 2^5 = id % 2^3
  OBVIOUS
<1>2. ((id % 2^11) \div 2^3) * 2^3 + ((id % 2^11) % 2^3) = id % 2^11
  OBVIOUS
<1>3. (id % 2^11) % 2^3 = id % 2^3
  OBVIOUS
<1> QED
  BY <1>1, <1>2, <1>3

\* No more than the eight bytes there are.
LEMMA AtMostEight ==
    ASSUME NEW n \in Nat
    PROVE  Min({n, 8}) = IF n <= 8 THEN n ELSE 8
<1> DEFINE m == IF n <= 8 THEN n ELSE 8
<1>1. m \in {n, 8} /\ \A y \in {n, 8} : m <= y
  OBVIOUS
<1>2. \A x \in {n, 8} : (\A y \in {n, 8} : x <= y) => x = m
  OBVIOUS
<1> HIDE DEF m
<1>3. Min({n, 8}) = m
  BY <1>1, <1>2 DEF Min
<1> QED
  BY <1>3 DEF m

\* The first n members of a sequence.
LEMMA FirstOnes ==
    ASSUME NEW S, NEW s \in Seq(S), NEW n \in 0..Len(s)
    PROVE  SubSeq(s, 1, n) = [i \in 1..n |-> s[i]]
OBVIOUS

\* A function on 1..n is a sequence of n members.
LEMMA SequenceOf ==
    ASSUME NEW S, NEW n \in Nat, NEW s \in [1..n -> S]
    PROVE  s \in Seq(S) /\ Len(s) = n
<1>1. s \in Seq(S)
  BY SeqDef
<1>2. DOMAIN s = 1..n /\ DOMAIN s = 1..Len(s) /\ Len(s) \in Nat
  BY <1>1, LenProperties
<1> DEFINE m == Len(s)
<1> HIDE DEF m
<1>3. m \in Nat /\ 1..m = 1..n
  BY <1>2 DEF m
<1>4. /\ n # 0 => n \in 1..m
      /\ m # 0 => m \in 1..n
  BY <1>3
<1>5. m = n
  BY <1>3, <1>4
<1> QED
  BY <1>1, <1>5 DEF m

\* The data of a frame as a sequence.
LEMMA EightBytes ==
    ASSUME NEW S, NEW s \in [1..8 -> S]
    PROVE  s \in Seq(S) /\ Len(s) = 8
BY SequenceOf

\* The parts of a frame.
LEMMA FrameParts ==
    ASSUME NEW f \in CanFrames
    PROVE  /\ f.can_id \in CanIds /\ f.can_id.id \in 0..(2^29 - 1)
           /\ f.can_id.eff \in BOOLEAN /\ f.can_id.rtr \in BOOLEAN /\ f.can_id.err \in BOOLEAN
           /\ f.len \in 0..255 /\ f.data \in [1..8 -> 0..255]
<1>1. f.can_id \in CanIds /\ f.len \in 0..255 /\ f.data \in [1..8 -> 0..255]
  BY DEF CanFrames
<1>2. /\ f.can_id.id \in 0..(2^29 - 1)
      /\ f.can_id.eff \in BOOLEAN /\ f.can_id.rtr \in BOOLEAN /\ f.can_id.err \in BOOLEAN
  BY <1>1 DEF CanIds
<1> QED
  BY <1>1, <1>2

\* The parts of the registers.
LEMMA RegisterParts ==
    ASSUME NEW regs \in Registers
    PROVE  /\ regs.eff \in BOOLEAN /\ regs.rtr \in BOOLEAN /\ regs.len \in 0..15
           /\ regs.data \in [0..11 -> 0..255]
BY DEF Registers

\* The registers after a frame was written: its identifier at the front, its data
\* after it, and still bytes everywhere.
LEMMA WrittenBytes ==
    ASSUME NEW regs \in Registers, NEW f \in CanFrames
    PROVE  LET w      == Written(regs, f)
               offset == DataOffset(f.can_id.eff)
           IN /\ w \in Registers
              /\ w.eff = f.can_id.eff /\ w.rtr = f.can_id.rtr /\ w.len = f.len % 16
              /\ \A i \in 1..offset : w.data[i - 1] = IdBytes(f.can_id.eff, f.can_id.id)[i]
              /\ \A i \in 1..8 : i <= f.len => w.data[i - 1 + offset] = f.data[i]
<1> DEFINE eff    == f.can_id.eff
           offset == DataOffset(eff)
           id     == IdBytes(eff, f.can_id.id)
           n      == Min({f.len, 8})
           bytes  == SubSeq(f.data, 1, n)
           first  == Put(regs.data, id, 0)
           all    == Put(first, bytes, offset)
           w      == Written(regs, f)
<1>1. /\ f.can_id \in CanIds /\ eff \in BOOLEAN /\ f.can_id.rtr \in BOOLEAN
      /\ f.can_id.id \in 0..(2^29 - 1)
      /\ f.len \in 0..255 /\ f.len \in Nat /\ f.data \in [1..8 -> 0..255]
  <2>1. /\ f.can_id \in CanIds /\ f.can_id.eff \in BOOLEAN /\ f.can_id.rtr \in BOOLEAN
        /\ f.can_id.id \in 0..(2^29 - 1)
        /\ f.len \in 0..255 /\ f.data \in [1..8 -> 0..255]
    BY FrameParts, Zenon
  <2>2. f.len \in Nat
    BY <2>1
  <2> QED
    BY <2>1, <2>2, Zenon
<1>2. regs.data \in [0..11 -> 0..255]
  BY RegisterParts
<1>3. offset \in {2, 4}
  BY DEF DataOffset
<1>4. id \in [1..offset -> 0..255]
  BY <1>1, IdBytesTyped
<1>5. n \in 0..8 /\ \A i \in 1..8 : i <= f.len => i <= n
  <2>1. n = IF f.len <= 8 THEN f.len ELSE 8
    BY <1>1, AtMostEight
  <2> HIDE DEF n
  <2> QED
    BY <1>1, <2>1
<1> HIDE DEF n
<1>6. bytes \in [1..n -> 0..255] /\ \A i \in 1..n : bytes[i] = f.data[i]
  <2>1. f.data \in Seq(0..255) /\ Len(f.data) = 8
    <3>1. f.data \in [1..8 -> 0..255]
      BY <1>1
    <3> QED
      BY <3>1, EightBytes
  <2>2. bytes = [i \in 1..n |-> f.data[i]]
    <3>1. n \in 0..Len(f.data)
      BY <1>5, <2>1
    <3> QED
      BY <2>1, <3>1, FirstOnes
  <2> HIDE DEF bytes
  <2>3. \A i \in 1..n : f.data[i] \in 0..255
    BY <1>1, <1>5
  <2> QED
    BY <2>2, <2>3
<1>7. w = [eff |-> eff, rtr |-> f.can_id.rtr, len |-> f.len % 16, data |-> all]
  BY DEF Written, n
<1> HIDE DEF eff, offset, id, bytes, w
<1>8. /\ first \in [0..11 -> 0..255]
      /\ \A i \in 1..offset : first[i - 1] = id[i]
  <2>1. DOMAIN id = 1..offset
    BY <1>4
  <2>2. first = [i \in 0..11 |-> IF i + 1 \in 1..offset THEN id[i + 1] ELSE regs.data[i]]
    <3>1. \A i \in 0..11 : i - 0 + 1 = i + 1
      OBVIOUS
    <3> QED
      BY <2>1, <3>1 DEF Put
  <2> HIDE DEF first
  <2>3. \A i \in 1..offset : i - 1 \in 0..11 /\ i - 1 + 1 = i
    BY <1>3
  <2> QED
    BY <1>2, <1>4, <2>2, <2>3
<1> HIDE DEF first
<1>9. all = [i \in 0..11 |-> IF i - offset + 1 \in 1..n THEN bytes[i - offset + 1] ELSE first[i]]
  BY <1>6 DEF Put
<1> HIDE DEF all
<1>10. all \in [0..11 -> 0..255]
  BY <1>6, <1>8, <1>9
<1>11. \A i \in 1..offset : all[i - 1] = id[i]
  <2>1. \A i \in 1..offset : i - 1 \in 0..11 /\ i - 1 - offset + 1 \notin 1..n
    BY <1>3, <1>5
  <2> QED
    BY <1>8, <1>9, <2>1
<1>12. \A i \in 1..n : all[i - 1 + offset] = bytes[i]
  <2> SUFFICES ASSUME NEW i \in 1..n PROVE all[i - 1 + offset] = bytes[i]
    OBVIOUS
  <2> DEFINE k == i - 1 + offset
  <2>1. k \in 0..11 /\ k - offset + 1 = i
    BY <1>3, <1>5
  <2> HIDE DEF k
  <2>2. all[k] = bytes[i]
    BY <1>9, <2>1
  <2> QED
    BY <2>2 DEF k
<1>13. w \in Registers
  <2>1. eff \in BOOLEAN /\ f.can_id.rtr \in BOOLEAN /\ f.len % 16 \in 0..15
    BY <1>1 DEF eff
  <2> QED
    BY <1>7, <1>10, <2>1 DEF Registers
<1>14. \A i \in 1..8 : i <= f.len => all[i - 1 + offset] = f.data[i]
  <2> SUFFICES ASSUME NEW i \in 1..8, i <= f.len PROVE all[i - 1 + offset] = f.data[i]
    OBVIOUS
  <2>1. i \in 1..n
    BY <1>5
  <2> QED
    BY <1>6, <1>12, <2>1
<1>15. /\ w.eff = eff /\ w.rtr = f.can_id.rtr /\ w.len = f.len % 16
       /\ w.data = all
  BY <1>7
<1> QED
  BY <1>11, <1>13, <1>14, <1>15 DEF eff, offset, id, w

\* A frame written to one controller is held by the registers of the other, whatever
\* either of them held before.
LEMMA BusKeepsFrame ==
    ASSUME NEW to \in Registers, NEW regs \in Registers, NEW f \in CanFrames, f.len < 16
    PROVE  /\ OnTheBus(to, Written(regs, f)) \in Registers
           /\ Holds(OnTheBus(to, Written(regs, f)), f)
<1> DEFINE eff    == f.can_id.eff
           rtr    == f.can_id.rtr
           n      == f.can_id.id
           offset == DataOffset(eff)
           id     == IdBytes(eff, n)
           w      == Written(regs, f)
           flag   == IF ~ rtr THEN 0 ELSE IF eff THEN 4 ELSE 16
           bytes  == IF rtr THEN 0 ELSE Min({w.len, 8})
           b      == OnTheBus(to, w)
           d      == b.data
<1>1. /\ eff \in BOOLEAN /\ rtr \in BOOLEAN /\ n \in 0..(2^29 - 1)
      /\ f.len \in 0..15 /\ f.len % 16 = f.len
  <2>1. f.len \in 0..255
    BY FrameParts
  <2> QED
    BY <2>1, FrameParts
<1>2. /\ w \in Registers /\ w.eff = eff /\ w.rtr = rtr /\ w.len = f.len
      /\ \A i \in 1..offset : w.data[i - 1] = id[i]
      /\ \A i \in 1..8 : i <= f.len => w.data[i - 1 + offset] = f.data[i]
  BY <1>1, WrittenBytes
<1>3. /\ id \in [1..offset -> 0..255] /\ id[offset] % Low(eff) = 0
  BY <1>1, IdBytesTyped
<1>4. /\ offset \in {2, 4} /\ flag \in {0, 4, 16} /\ bytes \in 0..8
      /\ ~ rtr => \A i \in 1..8 : i <= f.len => i <= bytes
  <2>1. Min({f.len, 8}) = IF f.len <= 8 THEN f.len ELSE 8
    BY <1>1, AtMostEight
  <2>2. Min({f.len, 8}) \in 0..8 /\ \A i \in 1..8 : i <= f.len => i <= Min({f.len, 8})
    BY <1>1, <2>1
  <2>3. offset \in {2, 4} /\ flag \in {0, 4, 16}
    BY DEF DataOffset
  <2> HIDE DEF w, offset, flag
  <2>4. CASE rtr
    BY <2>3, <2>4
  <2>5. CASE ~ rtr
    BY <1>2, <2>2, <2>3, <2>5
  <2> QED
    BY <2>4, <2>5
<1> HIDE DEF w
<1>5. b = [w EXCEPT !.data =
            [i \in 0..11 |-> IF i = offset - 1 THEN w.data[i] + flag
                             ELSE IF i < offset + bytes THEN w.data[i] ELSE to.data[i]]]
  BY <1>2 DEF OnTheBus
<1> HIDE DEF b, flag, bytes
<1>6. w.data \in [0..11 -> 0..255] /\ to.data \in [0..11 -> 0..255]
  BY <1>2 DEF Registers
<1>7. /\ b.eff = eff /\ b.rtr = rtr /\ b.len = f.len
      /\ d = [i \in 0..11 |-> IF i = offset - 1 THEN w.data[i] + flag
                             ELSE IF i < offset + bytes THEN w.data[i] ELSE to.data[i]]
  BY <1>2, <1>5 DEF Registers
<1>8. w.data[offset - 1] + flag \in 0..255
  <2> HIDE DEF id, offset, eff
  <2> DEFINE x == id[offset]
  <2>1. w.data[offset - 1] = x /\ x \in 0..255
    <3>1. offset \in 1..offset
      BY <1>4
    <3> QED
      BY <1>2, <1>3, <3>1
  <2>2. x % 32 = 0 \/ (x % 8 = 0 /\ flag # 16)
    <3>1. x % Low(eff) = 0
      BY <1>3
    <3> HIDE DEF x
    <3>2. CASE eff
      BY <3>1, <3>2 DEF Low, flag
    <3>3. CASE ~ eff
      BY <3>1, <3>3 DEF Low
    <3> QED
      BY <3>2, <3>3
  <2> HIDE DEF x
  <2>3. x + flag \in 0..255
    BY <1>4, <2>1, <2>2, RoomForFlag
  <2> QED
    BY <2>1, <2>3
<1> HIDE DEF d, offset
<1>9. d \in [0..11 -> 0..255]
  <2>1. ASSUME NEW i \in 0..11 PROVE d[i] \in 0..255
    <3>1. CASE i = offset - 1
      BY <1>7, <1>8, <3>1
    <3>2. CASE i # offset - 1
      <4>1. w.data[i] \in 0..255 /\ to.data[i] \in 0..255
        BY <1>6
      <4> QED
        BY <1>7, <3>2, <4>1
    <3> QED
      BY <3>1, <3>2
  <2>2. d = [i \in 0..11 |-> d[i]]
    BY <1>7
  <2> QED
    BY <2>1, <2>2
<1>10. b \in Registers
  <2>1. b = [eff |-> w.eff, rtr |-> w.rtr, len |-> w.len, data |-> d]
    BY <1>2, <1>5 DEF Registers, d
  <2> QED
    BY <1>2, <1>9, <2>1 DEF Registers
<1>11. \A i \in 1..offset : d[i - 1] = IF i = offset THEN id[i] + flag ELSE id[i]
  <2>1. \A i \in 1..offset : /\ i - 1 \in 0..11 /\ i - 1 < offset + bytes
                             /\ i - 1 = offset - 1 <=> i = offset
    BY <1>4
  <2> QED
    BY <1>2, <1>7, <2>1
<1>12. Shows(b) = IF eff THEN n ELSE n % 2^11
  <2>1. CASE eff
    <3>1. /\ d[0] = n \div 2^21 /\ d[1] = (n \div 2^13) % 2^8
          /\ d[2] = (n \div 2^5) % 2^8 /\ d[3] = (n % 2^5) * 2^3 + flag
      <4>1. offset = 4 /\ id = ExtendedBytes(n)
        BY <2>1 DEF offset, DataOffset, IdBytes
      <4>2. /\ id[1] = n \div 2^21 /\ id[2] = (n \div 2^13) % 2^8
            /\ id[3] = (n \div 2^5) % 2^8 /\ id[4] = (n % 2^5) * 2^3
        BY <4>1 DEF ExtendedBytes
      <4> HIDE DEF id
      <4>3. d[1 - 1] = id[1] /\ d[2 - 1] = id[2] /\ d[3 - 1] = id[3] /\ d[4 - 1] = id[4] + flag
        BY <1>11, <4>1
      <4> QED
        BY <4>2, <4>3
    <3>2. flag \in 0..7
      BY <2>1 DEF flag
    <3>3. ExtendedId(d) = n
      BY <1>1, <3>1, <3>2, ExtendedIdOf DEF ExtendedId
    <3> QED
      BY <1>7, <2>1, <3>3 DEF Shows, d
  <2>2. CASE ~ eff
    <3>1. d[0] = (n % 2^11) \div 2^3 /\ d[1] = (n % 2^3) * 2^5 + flag
      <4>1. offset = 2 /\ id = StandardBytes(n)
        BY <2>2 DEF offset, DataOffset, IdBytes
      <4>2. id[1] = (n % 2^11) \div 2^3 /\ id[2] = (n % 2^3) * 2^5
        BY <4>1 DEF StandardBytes
      <4> HIDE DEF id
      <4>3. d[1 - 1] = id[1] /\ d[2 - 1] = id[2] + flag
        BY <1>11, <4>1
      <4> QED
        BY <4>2, <4>3
    <3>2. flag \in 0..31
      BY <2>2 DEF flag
    <3>3. StandardId(d) = n % 2^11
      BY <1>1, <3>1, <3>2, StandardIdOf DEF StandardId
    <3> QED
      BY <1>7, <2>2, <3>3 DEF Shows, d
  <2> QED
    BY <1>1, <2>1, <2>2
<1>13. ASSUME ~ rtr, NEW i \in 1..8, i <= f.len
       PROVE  d[i - 1 + offset] = f.data[i]
  <2>1. /\ i - 1 + offset \in 0..11 /\ i - 1 + offset # offset - 1
        /\ i - 1 + offset < offset + bytes
    BY <1>4, <1>13
  <2> QED
    BY <1>2, <1>7, <1>13, <2>1
<1> QED
  BY <1>7, <1>10, <1>12, <1>13 DEF Holds, d, b, w, offset

\* What is received from registers that hold a frame is that frame, in a slot that held
\* any other before.
LEMMA ReceivedFrame ==
    ASSUME NEW regs \in Registers, NEW old \in [1..8 -> 0..255], NEW f \in CanFrames,
           Holds(regs, f), regs.len <= 8
    PROVE  LET g == FromRegisters(regs, old)
           IN /\ g \in CanFrames
              /\ g.can_id = [eff |-> f.can_id.eff, rtr |-> f.can_id.rtr, err |-> FALSE,
                             id |-> IF f.can_id.eff THEN f.can_id.id ELSE f.can_id.id % 2^11]
              /\ g.len = f.len
              /\ ~ f.can_id.rtr => SubSeq(g.data, 1, f.len) = SubSeq(f.data, 1, f.len)
<1> DEFINE eff    == f.can_id.eff
           offset == DataOffset(eff)
           id     == IF eff THEN f.can_id.id ELSE f.can_id.id % 2^11
           data   == [i \in 1..8 |-> IF i <= regs.len THEN regs.data[i - 1 + offset] ELSE old[i]]
           canId  == [eff |-> eff, rtr |-> f.can_id.rtr, err |-> FALSE, id |-> id]
           g      == FromRegisters(regs, old)
<1>1. /\ eff \in BOOLEAN /\ f.can_id.rtr \in BOOLEAN /\ f.can_id.id \in 0..(2^29 - 1)
      /\ f.data \in [1..8 -> 0..255]
  BY FrameParts
<1>2. /\ regs.eff = eff /\ regs.rtr = f.can_id.rtr /\ regs.len = f.len /\ Shows(regs) = id
      /\ ~ f.can_id.rtr => \A i \in 1..8 : i <= f.len => regs.data[i - 1 + offset] = f.data[i]
  BY DEF Holds
<1>3. regs.len \in 0..8 /\ regs.data \in [0..11 -> 0..255]
  <2>1. regs.len \in 0..15 /\ regs.data \in [0..11 -> 0..255]
    BY RegisterParts
  <2> QED
    BY <2>1
<1>4. g = [can_id |-> canId, len |-> regs.len, data |-> data]
  <2>1. Shows(regs) = IF regs.eff THEN ExtendedId(regs.data) ELSE StandardId(regs.data)
    BY DEF Shows
  <2> HIDE DEF id
  <2> QED
    BY <1>2, <2>1 DEF FromRegisters
<1>5. id \in 0..(2^29 - 1)
  BY <1>1
<1>6. offset \in {2, 4}
  BY DEF DataOffset
<1> HIDE DEF g, eff, offset, id
<1>7. data \in [1..8 -> 0..255]
  <2> SUFFICES ASSUME NEW i \in 1..8
               PROVE  (IF i <= regs.len THEN regs.data[i - 1 + offset] ELSE old[i]) \in 0..255
    OBVIOUS
  <2> DEFINE k == i - 1 + offset
  <2>1. k \in 0..11
    BY <1>6
  <2> HIDE DEF k
  <2>2. regs.data[k] \in 0..255 /\ old[i] \in 0..255
    BY <1>3, <2>1
  <2> QED
    BY <2>2 DEF k
<1>8. ~ f.can_id.rtr => \A i \in 1..f.len : data[i] = f.data[i]
  <2> SUFFICES ASSUME ~ f.can_id.rtr, NEW i \in 1..f.len PROVE data[i] = f.data[i]
    OBVIOUS
  <2>1. i \in 1..8 /\ i <= f.len /\ i <= regs.len
    BY <1>2, <1>3
  <2>2. data[i] = regs.data[i - 1 + offset]
    BY <2>1
  <2>3. regs.data[i - 1 + offset] = f.data[i]
    BY <1>2, <2>1
  <2> QED
    BY <2>2, <2>3
<1> HIDE DEF data
<1>9. ~ f.can_id.rtr => SubSeq(data, 1, f.len) = SubSeq(f.data, 1, f.len)
  <2>1. /\ data \in Seq(0..255) /\ Len(data) = 8
        /\ f.data \in Seq(0..255) /\ Len(f.data) = 8
    <3>1. f.data \in [1..8 -> 0..255]
      BY <1>1
    <3>2. f.data \in Seq(0..255) /\ Len(f.data) = 8
      BY <3>1, EightBytes
    <3>3. data \in Seq(0..255) /\ Len(data) = 8
      BY <1>7, EightBytes
    <3> QED
      BY <3>2, <3>3
  <2>2. f.len \in 0..8
    BY <1>2, <1>3
  <2>3. /\ SubSeq(data, 1, f.len) = [i \in 1..f.len |-> data[i]]
        /\ SubSeq(f.data, 1, f.len) = [i \in 1..f.len |-> f.data[i]]
    BY <2>1, <2>2, FirstOnes
  <2> QED
    BY <1>8, <2>3
<1>10. canId \in CanIds
  <2> HIDE DEF canId
  <2>1. canId = [eff |-> eff, rtr |-> f.can_id.rtr, err |-> FALSE, id |-> id]
    BY DEF canId
  <2> QED
    BY <1>1, <1>5, <2>1 DEF CanIds
<1> HIDE DEF canId
<1>11. g \in CanFrames
  <2>1. regs.len \in 0..255
    BY <1>3
  <2> QED
    BY <1>4, <1>7, <1>10, <2>1 DEF CanFrames
<1>12. g.can_id = canId /\ g.len = f.len /\ g.data = data
  BY <1>2, <1>4
<1> QED
  BY <1>9, <1>11, <1>12 DEF g, canId, eff, id

-----------------------------------------------------------------------------
(***************************************************************************)
(* The filters of candump.                                                 *)
(***************************************************************************)

\* A filter of the command line is one, and its mask has not the bit no frame has.
LEMMA FilterTyped ==
    ASSUME NEW token, token.id \in CanIds, token.mask \in CanIds
    PROVE  ParseCanFilter(token) \in CanFilters /\ ~ ParseCanFilter(token).can_mask.err
<1> DEFINE canId == [eff |-> Extended(token), rtr |-> token.id.rtr,
                     err |-> token.id.err \/ token.separator = "~", id |-> token.id.id]
           mask  == WithoutError(token.mask)
<1>1. canId \in CanIds
  BY DEF CanIds, Extended
<1>2. mask \in CanIds /\ ~ mask.err
  BY DEF CanIds, WithoutError
<1>3. ParseCanFilter(token) = [can_id |-> canId, can_mask |-> mask]
  BY DEF ParseCanFilter
<1> HIDE DEF canId, mask
<1> QED
  BY <1>1, <1>2, <1>3 DEF CanFilters

\* Two identifiers agree under a mask without the error bit, as the code compares them,
\* if they agree in the flags and bits the mask has.
LEMMA SameUnderMask ==
    ASSUME NEW a \in CanIds, NEW b \in CanIds, NEW m \in CanIds, ~ m.err
    PROVE  Masked(a, m) = Masked(b, m)
             <=> /\ a.eff = b.eff \/ ~ m.eff
                 /\ a.rtr = b.rtr \/ ~ m.rtr
                 /\ \A bit \in BitsOf(m.id) : bit \in BitsOf(a.id) <=> bit \in BitsOf(b.id)
<1> DEFINE A == BitsOf(a.id)
           B == BitsOf(b.id)
           M == BitsOf(m.id)
<1>1. /\ a.eff \in BOOLEAN /\ a.rtr \in BOOLEAN /\ b.eff \in BOOLEAN /\ b.rtr \in BOOLEAN
      /\ m.eff \in BOOLEAN /\ m.rtr \in BOOLEAN
  BY DEF CanIds
<1>2. /\ Masked(a, m) = [eff |-> a.eff /\ m.eff, rtr |-> a.rtr /\ m.rtr, err |-> FALSE,
                         bits |-> A \cap M]
      /\ Masked(b, m) = [eff |-> b.eff /\ m.eff, rtr |-> b.rtr /\ m.rtr, err |-> FALSE,
                         bits |-> B \cap M]
  BY DEF Masked
<1> HIDE DEF A, B, M
<1>3. A \cap M = B \cap M <=> \A bit \in M : bit \in A <=> bit \in B
  OBVIOUS
<1>4. /\ (a.eff /\ m.eff) = (b.eff /\ m.eff) <=> a.eff = b.eff \/ ~ m.eff
      /\ (a.rtr /\ m.rtr) = (b.rtr /\ m.rtr) <=> a.rtr = b.rtr \/ ~ m.rtr
  BY <1>1
<1>5. Masked(a, m) = Masked(b, m)
        <=> /\ (a.eff /\ m.eff) = (b.eff /\ m.eff)
            /\ (a.rtr /\ m.rtr) = (b.rtr /\ m.rtr)
            /\ A \cap M = B \cap M
  <2> DEFINE aeff == a.eff /\ m.eff
             artr == a.rtr /\ m.rtr
             beff == b.eff /\ m.eff
             brtr == b.rtr /\ m.rtr
             abit == A \cap M
             bbit == B \cap M
  <2>1. /\ Masked(a, m) = [eff |-> aeff, rtr |-> artr, err |-> FALSE, bits |-> abit]
        /\ Masked(b, m) = [eff |-> beff, rtr |-> brtr, err |-> FALSE, bits |-> bbit]
    BY <1>2
  <2> HIDE DEF aeff, artr, beff, brtr, abit, bbit
  <2>2. Masked(a, m) = Masked(b, m) <=> aeff = beff /\ artr = brtr /\ abit = bbit
    <3>1. /\ Masked(a, m).eff = aeff /\ Masked(a, m).rtr = artr /\ Masked(a, m).bits = abit
          /\ Masked(b, m).eff = beff /\ Masked(b, m).rtr = brtr /\ Masked(b, m).bits = bbit
      BY <2>1
    <3>2. ASSUME aeff = beff, artr = brtr, abit = bbit
          PROVE  Masked(a, m) = Masked(b, m)
      BY <2>1, <3>2
    <3> QED
      BY <3>1, <3>2
  <2> QED
    BY <2>2 DEF aeff, artr, beff, brtr, abit, bbit
<1> QED
  BY <1>3, <1>4, <1>5 DEF A, B, M

\* A frame without the error bit passes what the parser makes of the tokens exactly if
\* one of the tokens accepts it as documented.
LEMMA PassedIfAccepted ==
    ASSUME NEW f \in CanFrames, ~ f.can_id.err, NEW toks,
           \A token \in Given(toks) : token.id \in CanIds /\ token.mask \in CanIds
    PROVE  CanFilterPassed(ParsedFilters(toks), f) <=> \E token \in Given(toks) : Accepts(token, f)
<1> DEFINE Same(flt)   == Masked(f.can_id, flt.can_mask) = Masked(flt.can_id, flt.can_mask)
           Passes(flt) == IF flt.can_id.err THEN ~ Same(flt) ELSE Same(flt)
<1>1. ASSUME NEW token \in Given(toks)
      PROVE  Passes(ParseCanFilter(token)) <=> Accepts(token, f)
  <2> DEFINE flt      == ParseCanFilter(token)
             extended == token.id.eff \/ token.digits = 8
             inverted == token.separator = "~" \/ token.id.err
             agree    == /\ token.mask.eff => (f.can_id.eff <=> extended)
                         /\ token.mask.rtr => (f.can_id.rtr <=> token.id.rtr)
                         /\ \A bit \in BitsOf(token.mask.id) :
                              bit \in BitsOf(f.can_id.id) <=> bit \in BitsOf(token.id.id)
  <2>1. token.id \in CanIds /\ token.mask \in CanIds /\ f.can_id \in CanIds
    BY FrameParts
  <2>2. /\ token.id.eff \in BOOLEAN /\ token.id.rtr \in BOOLEAN /\ token.id.err \in BOOLEAN
        /\ token.mask.eff \in BOOLEAN /\ token.mask.rtr \in BOOLEAN
        /\ f.can_id.eff \in BOOLEAN /\ f.can_id.rtr \in BOOLEAN
    BY <2>1 DEF CanIds
  <2>3. flt \in CanFilters /\ ~ flt.can_mask.err
    BY <2>1, FilterTyped
  <2>4. /\ flt.can_id.eff = extended /\ flt.can_id.rtr = token.id.rtr
        /\ flt.can_id.id = token.id.id
        /\ flt.can_id.err <=> inverted
        /\ flt.can_mask.eff = token.mask.eff /\ flt.can_mask.rtr = token.mask.rtr
        /\ flt.can_mask.id = token.mask.id
    BY <2>1 DEF ParseCanFilter, Extended, WithoutError, CanIds
  <2>5. flt.can_id \in CanIds /\ flt.can_mask \in CanIds
    BY <2>3 DEF CanFilters
  <2>6. extended \in BOOLEAN /\ inverted \in BOOLEAN /\ agree \in BOOLEAN
    BY <2>2
  <2>7. Accepts(token, f) <=> (agree # inverted)
    BY DEF Accepts
  <2> HIDE DEF flt
  <2> DEFINE canId == flt.can_id
             mask  == flt.can_mask
  <2> HIDE DEF canId, mask, extended, inverted, agree
  <2>8. Same(flt) <=> /\ f.can_id.eff = canId.eff \/ ~ mask.eff
                      /\ f.can_id.rtr = canId.rtr \/ ~ mask.rtr
                      /\ \A bit \in BitsOf(mask.id) :
                           bit \in BitsOf(f.can_id.id) <=> bit \in BitsOf(canId.id)
    <3>1. canId \in CanIds /\ mask \in CanIds /\ ~ mask.err
      BY <2>3, <2>5 DEF canId, mask
    <3>2. Masked(f.can_id, mask) = Masked(canId, mask)
            <=> /\ f.can_id.eff = canId.eff \/ ~ mask.eff
                /\ f.can_id.rtr = canId.rtr \/ ~ mask.rtr
                /\ \A bit \in BitsOf(mask.id) :
                     bit \in BitsOf(f.can_id.id) <=> bit \in BitsOf(canId.id)
      BY <2>1, <3>1, SameUnderMask
    <3> QED
      BY <3>2 DEF canId, mask
  <2> HIDE DEF Same
  <2>9. Same(flt) <=> agree
    <3> DEFINE alike == \A bit \in BitsOf(token.mask.id) :
                          bit \in BitsOf(f.can_id.id) <=> bit \in BitsOf(token.id.id)
    <3>1. /\ canId.eff = extended /\ canId.rtr = token.id.rtr /\ canId.id = token.id.id
          /\ mask.eff = token.mask.eff /\ mask.rtr = token.mask.rtr /\ mask.id = token.mask.id
      BY <2>4 DEF canId, mask
    <3>2. alike <=> \A bit \in BitsOf(mask.id) :
                      bit \in BitsOf(f.can_id.id) <=> bit \in BitsOf(canId.id)
      BY <3>1
    <3>3. agree <=> /\ token.mask.eff => (f.can_id.eff <=> extended)
                    /\ token.mask.rtr => (f.can_id.rtr <=> token.id.rtr)
                    /\ alike
      BY DEF agree
    <3> HIDE DEF alike
    <3>4. f.can_id.eff = canId.eff \/ ~ mask.eff <=> (token.mask.eff => (f.can_id.eff <=> extended))
      BY <2>2, <2>6, <3>1
    <3>5. f.can_id.rtr = canId.rtr \/ ~ mask.rtr <=> (token.mask.rtr => (f.can_id.rtr <=> token.id.rtr))
      BY <2>2, <3>1
    <3> QED
      BY <2>8, <3>2, <3>3, <3>4, <3>5
  <2>10. Passes(flt) <=> IF inverted THEN ~ agree ELSE agree
    BY <2>4, <2>9
  <2> HIDE DEF Passes
  <2>11. Passes(flt) <=> Accepts(token, f)
    BY <2>6, <2>7, <2>10
  <2> QED
    BY <2>11 DEF flt
<1>2. CanFilterPassed(ParsedFilters(toks), f) <=> \E flt \in ParsedFilters(toks) : Passes(flt)
  BY DEF CanFilterPassed
<1> HIDE DEF Passes
<1>3. (\E flt \in ParsedFilters(toks) : Passes(flt))
        <=> \E token \in Given(toks) : Passes(ParseCanFilter(token))
  BY DEF ParsedFilters
<1> QED
  BY <1>1, <1>2, <1>3

-----------------------------------------------------------------------------
(***************************************************************************)
(* The parser of cansend.                                                  *)
(***************************************************************************)

PairSet == {<<a>> : a \in Digits} \cup {<<a, b>> : a \in Digits, b \in Digits}

\* A token is cut in pieces of one or two digits.
LEMMA PairsTyped ==
    ASSUME NEW token \in Seq(Digits)
    PROVE  Pairs(token) \in Seq(PairSet)
<1> DEFINE n == (Len(token) + 1) \div 2
           Piece(i) == IF 2 * i <= Len(token) THEN <<token[2 * i - 1], token[2 * i]>>
                       ELSE <<token[2 * i - 1]>>
<1>1. n \in Nat /\ Len(token) \in Nat
  OBVIOUS
<1>2. ASSUME NEW i \in 1..n PROVE Piece(i) \in PairSet
  <2>1. 2 * i - 1 \in 1..Len(token) /\ (2 * i <= Len(token) => 2 * i \in 1..Len(token))
    BY <1>1
  <2>2. \A k \in 1..Len(token) : token[k] \in Digits
    OBVIOUS
  <2> DEFINE a == token[2 * i - 1]
             b == token[2 * i]
  <2>3. a \in Digits /\ (2 * i <= Len(token) => b \in Digits)
    BY <2>1, <2>2
  <2> HIDE DEF a, b
  <2>4. (IF 2 * i <= Len(token) THEN <<a, b>> ELSE <<a>>) \in PairSet
    BY <2>3 DEF PairSet
  <2> QED
    BY <2>4 DEF a, b
<1>3. Pairs(token) = [i \in 1..n |-> Piece(i)]
  BY DEF Pairs
<1> HIDE DEF n, Piece
<1>4. Pairs(token) \in [1..n -> PairSet]
  BY <1>2, <1>3
<1> QED
  BY <1>1, <1>4, SeqDef

\* One or two hexadecimal digits are a byte.
LEMMA ValueTyped ==
    ASSUME NEW pair \in PairSet, NotHex \notin Range(pair)
    PROVE  Value(pair) \in 0..255
<1>1. CASE \E a \in Digits : pair = <<a>>
  <2>1. PICK a \in Digits : pair = <<a>>
    BY <1>1
  <2>2. Len(pair) = 1 /\ pair[1] = a /\ a \in Range(pair)
    BY <2>1 DEF Range
  <2>3. a \in 0..15
    BY <2>2 DEF Digits, NotHex
  <2> QED
    BY <2>2, <2>3 DEF Value
<1>2. CASE \E a, b \in Digits : pair = <<a, b>>
  <2>1. PICK a \in Digits, b \in Digits : pair = <<a, b>>
    BY <1>2
  <2>2. /\ Len(pair) = 2 /\ pair[1] = a /\ pair[2] = b
        /\ a \in Range(pair) /\ b \in Range(pair)
    BY <2>1 DEF Range
  <2>3. a \in 0..15 /\ b \in 0..15
    BY <2>2 DEF Digits, NotHex
  <2> QED
    BY <2>2, <2>3 DEF Value
<1> QED
  BY <1>1, <1>2 DEF PairSet

\* A frame from an identifier, lengths and bytes, whatever the stack holds.
LEMMA ParsedTyped ==
    ASSUME NEW id \in CanIds, NEW lens \in SUBSET (0..255), NEW bytes \in Seq(0..255)
    PROVE  Parsed(id, lens, bytes) \subseteq CanFrames
<1> SUFFICES ASSUME NEW len \in lens, NEW fill \in Stack
             PROVE  [can_id |-> id, len |-> len, data |-> Filled(bytes, fill)] \in CanFrames
  BY DEF Parsed
<1>1. fill \in 0..255
  BY FramePathAssumption
<1>2. Filled(bytes, fill) \in [1..8 -> 0..255]
  <2>1. ASSUME NEW i \in 1..8, i <= Len(bytes) PROVE bytes[i] \in 0..255
    <3>1. Len(bytes) \in Nat /\ bytes \in [1..Len(bytes) -> 0..255]
      BY LenProperties
    <3>2. i \in 1..Len(bytes)
      BY <2>1, <3>1
    <3> QED
      BY <3>1, <3>2
  <2> QED
    BY <1>1, <2>1 DEF Filled
<1> QED
  BY <1>2 DEF CanFrames

\* The length is one of those the parser found.
LEMMA ParsedLength ==
    ASSUME NEW id, NEW lens, NEW bytes, NEW f \in Parsed(id, lens, bytes)
    PROVE  f.len \in lens
<1>1. PICK len \in lens, fill \in Stack :
        f = [can_id |-> id, len |-> len, data |-> Filled(bytes, fill)]
  BY DEF Parsed
<1>2. f.len = len
  BY <1>1
<1> QED
  BY <1>2

\* The identifier of a text.
LEMMA IdTyped ==
    ASSUME NEW t \in CmdTexts
    PROVE  Id(t) \in CanIds
<1>1. t.id \in CanIds
  BY DEF CmdTexts
<1>2. [t.id EXCEPT !.eff = TRUE] \in CanIds
  BY <1>1 DEF CanIds
<1> QED
  BY <1>1, <1>2 DEF Id

\* A text without data.
LEMMA NoDataTyped ==
    ASSUME NEW t \in CmdTexts
    PROVE  NoData(t) \subseteq CanFrames
<1>1. Stack \subseteq 0..255
  BY FramePathAssumption
<1>2. <<>> \in Seq(0..255)
  OBVIOUS
<1> QED
  BY <1>1, <1>2, IdTyped, ParsedTyped DEF NoData

\* The text of a remote frame.  Its length is a digit up to eight, or zero.
LEMMA RemoteTyped ==
    ASSUME NEW t \in CmdTexts
    PROVE  /\ Remote(t) \subseteq CanFrames
           /\ \A f \in Remote(t) : f.len \in 0..8
<1> DEFINE digits == t.data.tokens[1]
           lens   == CASE digits = <<>>                    -> {0}
                       [] digits \in {<<d>> : d \in 0..8} -> Range(digits)
                       [] OTHER                            -> {}
           id     == [Id(t) EXCEPT !.rtr = TRUE]
<1>1. id \in CanIds
  <2>1. Id(t) \in CanIds
    BY IdTyped
  <2> QED
    BY <2>1 DEF CanIds
<1>2. lens \subseteq 0..8 /\ lens \subseteq 0..255
  <2> HIDE DEF digits
  <2>1. CASE digits = <<>>
    BY <2>1
  <2>2. CASE digits # <<>> /\ digits \in {<<d>> : d \in 0..8}
    <3>1. PICK d \in 0..8 : digits = <<d>>
      BY <2>2
    <3>2. Range(digits) = {d}
      BY <3>1 DEF Range
    <3>3. lens = Range(digits)
      BY <2>2
    <3> QED
      BY <3>2, <3>3
  <2>3. CASE digits # <<>> /\ digits \notin {<<d>> : d \in 0..8}
    BY <2>3
  <2> QED
    BY <2>1, <2>2, <2>3
<1>3. Remote(t) = Parsed(id, lens, <<>>)
  BY DEF Remote
<1>4. <<>> \in Seq(0..255)
  OBVIOUS
<1> HIDE DEF id, lens
<1>5. Remote(t) \subseteq CanFrames
  <2>1. Parsed(id, lens, <<>>) \subseteq CanFrames
    BY <1>1, <1>2, <1>4, ParsedTyped
  <2> QED
    BY <1>3, <2>1
<1>6. \A f \in Remote(t) : f.len \in 0..8
  BY <1>2, <1>3, ParsedLength
<1> QED
  BY <1>5, <1>6

\* The text of a data frame.  Its length is the number of its bytes, eight at most.
LEMMA DataTyped ==
    ASSUME NEW t \in CmdTexts
    PROVE  /\ Data(t) \subseteq CanFrames
           /\ \A f \in Data(t) : f.len \in 0..8
<1> DEFINE parts  == t.data.tokens
           pieces == [i \in DOMAIN parts |-> Pairs(parts[i])]
           values == FlattenSeq(pieces)
           valid  == /\ \A token \in Range(parts) : token # <<>>
                     /\ Len(values) <= 8
                     /\ \A pair \in Range(values) : NotHex \notin Range(pair)
           bytes  == [i \in DOMAIN values |-> Value(values[i])]
<1>1. parts \in Seq(Seq(Digits))
  BY DEF CmdTexts
<1> HIDE DEF parts
<1>2. pieces \in Seq(Seq(PairSet))
  <2> DEFINE n == Len(parts)
  <2>1. n \in Nat /\ DOMAIN parts = 1..n /\ \A i \in 1..n : parts[i] \in Seq(Digits)
    BY <1>1
  <2> HIDE DEF n
  <2>2. pieces \in [1..n -> Seq(PairSet)]
    BY <2>1, PairsTyped
  <2> HIDE DEF pieces
  <2> QED
    BY <2>1, <2>2, SeqDef
<1> HIDE DEF pieces
<1>3. values \in Seq(PairSet)
  BY <1>2, FlattenTyped
<1> HIDE DEF values
<1>4. ASSUME valid
      PROVE  bytes \in Seq(0..255) /\ Len(bytes) \in 0..8
  <2> DEFINE n == Len(values)
  <2>1. n \in Nat /\ n <= 8 /\ DOMAIN values = 1..n /\ \A i \in 1..n : values[i] \in PairSet
    BY <1>3, <1>4
  <2>2. \A i \in 1..n : NotHex \notin Range(values[i])
    BY <1>4, <2>1 DEF Range
  <2> HIDE DEF n
  <2>3. \A i \in 1..n : Value(values[i]) \in 0..255
    BY <2>1, <2>2, ValueTyped
  <2>4. bytes \in [1..n -> 0..255]
    BY <2>1, <2>3
  <2> HIDE DEF bytes
  <2>5. bytes \in Seq(0..255) /\ Len(bytes) = n
    BY <2>1, <2>4, SequenceOf
  <2> QED
    BY <2>1, <2>5
<1>5. Data(t) = IF valid THEN Parsed(Id(t), {Len(bytes)}, bytes) ELSE {}
  BY DEF Data, values, pieces, parts
<1> HIDE DEF valid, bytes
<1>6. ASSUME valid PROVE Parsed(Id(t), {Len(bytes)}, bytes) \subseteq CanFrames
  <2>1. {Len(bytes)} \subseteq 0..255 /\ bytes \in Seq(0..255)
    BY <1>4, <1>6
  <2> QED
    BY <2>1, IdTyped, ParsedTyped
<1>7. ASSUME valid, NEW f \in Parsed(Id(t), {Len(bytes)}, bytes) PROVE f.len \in 0..8
  <2>1. f.len \in {Len(bytes)}
    BY <1>7, ParsedLength
  <2> QED
    BY <1>4, <1>7, <2>1
<1> QED
  BY <1>5, <1>6, <1>7

\* The identifier of no text.
LEMMA NoIdTyped == NoId \in CanIds
<1>1. 0 \in 0..(2^29 - 1)
  OBVIOUS
<1> QED
  BY <1>1 DEF NoId, CanIds

\* What the parser makes of any text is a frame.
LEMMA ParseTyped ==
    ASSUME NEW t \in CmdTexts
    PROVE  ParseCanFrame(t) \subseteq CanFrames
<1>1. [t EXCEPT !.id = NoId] \in CmdTexts
  <2>1. NoId \in CanIds
    BY NoIdTyped
  <2> DEFINE Kinds == [kind : {"none", "rtr", "bytes"}, tokens : Seq(Seq(Digits))]
  <2>2. CmdTexts = [id : CanIds, digits : 0..8, data : Kinds]
    BY DEF CmdTexts
  <2> HIDE DEF Kinds
  <2> QED
    BY <2>1, <2>2
<1>2. t.data.kind \in {"none", "rtr", "bytes"}
  BY DEF CmdTexts
<1> QED
  BY <1>1, <1>2, NoDataTyped, RemoteTyped, DataTyped DEF ParseCanFrame

-----------------------------------------------------------------------------
(***************************************************************************)
(* The invariant.                                                          *)
(***************************************************************************)

\* With a number and with data the length is eight at most.
LEMMA LengthOfText ==
    ASSUME NEW t \in CmdTexts, t.digits # 0, t.data.kind # "none",
           NEW f \in ParseCanFrame(t)
    PROVE  f.len \in 0..8
<1>1. t.data.kind \in {"rtr", "bytes"}
  BY DEF CmdTexts
<1>2. CASE t.data.kind = "rtr"
  BY <1>2, RemoteTyped DEF ParseCanFrame
<1>3. CASE t.data.kind = "bytes"
  BY <1>3, DataTyped DEF ParseCanFrame
<1> QED
  BY <1>1, <1>2, <1>3

\* The tokens of a command line hold identifiers and masks.
LEMMA TokensTyped ==
    ASSUME TypeOK
    PROVE  \A token \in Given(tokens) : token.id \in CanIds /\ token.mask \in CanIds
<1>1. PICK line \in CommandLines : tokens = line.tokens
  BY DEF TypeOK
<1>2. \A token \in Range(line.tokens) : {token.id, token.mask} \subseteq CanIds
  BY FramePathAssumption
<1> QED
  BY <1>1, <1>2 DEF Given

\* candump parses its command line once.
LEMMA StillParsed ==
    ASSUME AsParsed, UNCHANGED <<tokens, canFilters>>
    PROVE  AsParsed'
BY DEF AsParsed

\* At first there is no frame, and the filters are those of the command line.
LEMMA InitHolds ==
    Init => IInv
<1> SUFFICES ASSUME Init PROVE IInv
  OBVIOUS
<1>1. NoFrame \in CanFrames
  <2>1. [i \in 1..8 |-> 0] \in [1..8 -> 0..255] /\ 0 \in 0..255
    OBVIOUS
  <2> QED
    BY <2>1, NoIdTyped DEF NoFrame, CanFrames
<1>2. Empty \in Registers
  <2>1. [i \in 0..11 |-> 0] \in [0..11 -> 0..255] /\ 0 \in 0..15
    OBVIOUS
  <2> QED
    BY <2>1 DEF Empty, Registers
<1>3. PICK line \in CommandLines :
        tokens = line.tokens /\ canFilters = ParsedFilters(tokens) /\ count = line.count
  BY DEF Init
<1>4. canFilters \subseteq CanFilters
  <2> SUFFICES ASSUME NEW flt \in canFilters PROVE flt \in CanFilters
    OBVIOUS
  <2>1. PICK token \in Range(line.tokens) : flt = ParseCanFilter(token)
    BY <1>3 DEF ParsedFilters, Given
  <2>2. token.id \in CanIds /\ token.mask \in CanIds
    BY FramePathAssumption
  <2> QED
    BY <2>1, <2>2, FilterTyped
<1>5. TypeOK
  <2>1. count \in Nat /\ frames \in 0..MaxFrames
    BY <1>3, FramePathAssumption DEF Init
  <2> QED
    BY <1>1, <1>2, <1>3, <1>4, <2>1 DEF Init, TypeOK
<1>6. OnTheWay
  BY DEF Init, OnTheWay, RoundTrip
<1>7. NotShownYet
  BY DEF Init, NotShownYet
<1>8. AsParsed
  BY <1>3 DEF AsParsed
<1>9. ShownIfWanted
  BY DEF Init, ShownIfWanted
<1> QED
  BY <1>5, <1>6, <1>7, <1>8, <1>9 DEF IInv

\* An application sets the filter of a descriptor.
LEMMA SetMaskStep ==
    ASSUME IInv, SetMask
    PROVE  IInv'
<1> USE DEF IInv, SetMask
<1>1. TypeOK'
  BY DEF TypeOK
<1>2. OnTheWay'
  BY DEF OnTheWay, RoundTrip
<1>3. NotShownYet'
  BY DEF NotShownYet
<1>4. AsParsed'
  BY StillParsed
<1>5. ShownIfWanted'
  BY DEF ShownIfWanted
<1> QED
  BY <1>1, <1>2, <1>3, <1>4, <1>5

\* cansend writes a frame.
LEMMA CanSendStep ==
    ASSUME IInv, CanSend
    PROVE  IInv'
<1> USE DEF IInv
<1>1. PICK f \in ParseCanFrame(text') : canFrame' = f /\ sent' = f
  BY DEF CanSend
<1>2. f \in CanFrames
  <2>1. text' \in CmdTexts
    BY FramePathAssumption DEF CanSend
  <2> QED
    BY <2>1, ParseTyped
<1>3. frames' \in 0..MaxFrames
  BY FramePathAssumption DEF CanSend, TypeOK
<1>4. TypeOK'
  BY <1>1, <1>2, <1>3 DEF CanSend, TypeOK
<1>5. OnTheWay'
  BY <1>1 DEF CanSend, OnTheWay, RoundTrip
<1>6. NotShownYet'
  BY DEF CanSend, NotShownYet
<1>7. AsParsed'
  BY StillParsed DEF CanSend
<1>8. ShownIfWanted'
  BY DEF CanSend, ShownIfWanted
<1> QED
  BY <1>4, <1>5, <1>6, <1>7, <1>8

\* The frame is written to the registers, and those of the other controller hold it.
LEMMA TransmitStep ==
    ASSUME IInv, TransmitMessage
    PROVE  IInv'
<1> USE DEF IInv
<1>1. /\ canFrame = sent /\ shown = "none" /\ shown' = "none"
      /\ UNCHANGED <<text, canFrame, sent, filter, tokens, canFilters, count, frames>>
  BY DEF TransmitMessage, OnTheWay, NotShownYet
<1>0. AsParsed'
  BY <1>1, StillParsed
<1>2. canFrame \in CanFrames /\ sent \in CanFrames /\ tx \in Registers /\ rx \in Registers
  BY DEF TypeOK
<1>3. CASE canFrame.len > 8
  <2>1. stage' = "fault" /\ UNCHANGED <<tx, rx>>
    BY <1>3 DEF TransmitMessage
  <2>2. TypeOK'
    BY <1>1, <2>1 DEF TypeOK
  <2>3. OnTheWay' /\ NotShownYet'
    BY <1>1, <2>1 DEF OnTheWay, RoundTrip, NotShownYet
  <2>4. ShownIfWanted'
    BY <1>1 DEF ShownIfWanted
  <2> QED
    BY <1>0, <2>2, <2>3, <2>4
<1>4. CASE ~ canFrame.len > 8
  <2>1. /\ tx' = Written(tx, canFrame) /\ rx' = OnTheBus(rx, Written(tx, canFrame))
        /\ stage' = "sent"
    BY <1>4 DEF TransmitMessage
  <2>2. canFrame.len < 16
    <3>1. canFrame.len \in 0..255
      BY <1>2, FrameParts
    <3> QED
      BY <1>4, <3>1
  <2>3. rx' \in Registers /\ Holds(rx', canFrame)
    BY <1>2, <2>1, <2>2, BusKeepsFrame
  <2>4. tx' \in Registers
    BY <1>2, <2>1, WrittenBytes
  <2>5. TypeOK'
    BY <1>1, <2>1, <2>3, <2>4 DEF TypeOK
  <2>6. OnTheWay'
    <3>1. Holds(rx', sent')
      BY <1>1, <2>3
    <3>2. (Holds(rx, sent))'
      BY <3>1 DEF Holds, Shows
    <3> QED
      BY <2>1, <3>2 DEF OnTheWay, RoundTrip
  <2>7. NotShownYet'
    BY <1>1, <2>1 DEF NotShownYet
  <2>8. ShownIfWanted'
    BY <1>1 DEF ShownIfWanted
  <2> QED
    BY <1>0, <2>5, <2>6, <2>7, <2>8
<1> QED
  BY <1>3, <1>4

\* Another node sends a frame.
LEMMA BusFrameStep ==
    ASSUME IInv, BusFrame
    PROVE  IInv'
<1> USE DEF IInv
<1>1. PICK f \in BusFrames : sent' = f /\ rx' = OnTheBus(rx, Written(Empty, f))
  BY DEF BusFrame
<1>2. f \in CanFrames /\ f.len < 16
  BY FramePathAssumption
<1>3. Empty \in Registers
  <2>1. [i \in 0..11 |-> 0] \in [0..11 -> 0..255] /\ 0 \in 0..15
    OBVIOUS
  <2> QED
    BY <2>1 DEF Empty, Registers
<1>4. rx \in Registers
  BY DEF TypeOK
<1>5. rx' \in Registers /\ Holds(rx', f)
  BY <1>1, <1>2, <1>3, <1>4, BusKeepsFrame
<1>6. frames' \in 0..MaxFrames
  BY FramePathAssumption DEF BusFrame, TypeOK
<1>7. /\ stage' = "sent" /\ shown' = "none"
      /\ UNCHANGED <<text, canFrame, tx, filter, tokens, canFilters, count>>
  BY DEF BusFrame
<1>8. TypeOK'
  BY <1>1, <1>2, <1>5, <1>6, <1>7 DEF TypeOK
<1>9. OnTheWay'
  BY <1>1, <1>5, <1>7 DEF OnTheWay, RoundTrip
<1>10. NotShownYet'
  BY <1>7 DEF NotShownYet
<1>11. AsParsed'
  BY <1>7, StillParsed
<1>12. ShownIfWanted'
  BY <1>7 DEF ShownIfWanted
<1> QED
  BY <1>8, <1>9, <1>10, <1>11, <1>12

\* The frame is read from the registers.
LEMMA ReceiveStep ==
    ASSUME IInv, ReceiveMessage
    PROVE  IInv'
<1> USE DEF IInv
<1>1. /\ Holds(rx, sent) /\ shown = "none" /\ shown' = "none"
      /\ UNCHANGED <<text, sent, tx, rx, filter, tokens, canFilters, count, frames>>
  BY DEF ReceiveMessage, OnTheWay, NotShownYet
<1>0. AsParsed'
  BY <1>1, StillParsed
<1>2. canFrame \in CanFrames /\ sent \in CanFrames /\ rx \in Registers
  BY DEF TypeOK
<1>3. CASE rx.len > 8
  <2>1. stage' = "fault" /\ UNCHANGED canFrame
    BY <1>3 DEF ReceiveMessage
  <2>2. TypeOK'
    BY <1>1, <2>1 DEF TypeOK
  <2>3. OnTheWay' /\ NotShownYet'
    BY <1>1, <2>1 DEF OnTheWay, RoundTrip, NotShownYet
  <2>4. ShownIfWanted'
    BY <1>1 DEF ShownIfWanted
  <2> QED
    BY <1>0, <2>2, <2>3, <2>4
<1>4. CASE ~ rx.len > 8
  <2>1. canFrame' = FromRegisters(rx, canFrame.data) /\ stage' = "received"
    BY <1>4 DEF ReceiveMessage
  <2>2. rx.len <= 8 /\ canFrame.data \in [1..8 -> 0..255]
    <3>1. rx.len \in 0..15
      BY <1>2 DEF Registers
    <3>2. canFrame.data \in [1..8 -> 0..255]
      BY <1>2, FrameParts
    <3> QED
      BY <1>4, <3>1, <3>2
  <2>3. /\ canFrame' \in CanFrames
        /\ canFrame'.can_id = [eff |-> sent.can_id.eff, rtr |-> sent.can_id.rtr, err |-> FALSE,
                               id |-> IF sent.can_id.eff THEN sent.can_id.id
                                      ELSE sent.can_id.id % 2^11]
        /\ canFrame'.len = sent.len
        /\ ~ sent.can_id.rtr =>
             SubSeq(canFrame'.data, 1, sent.len) = SubSeq(sent.data, 1, sent.len)
    BY <1>1, <1>2, <2>1, <2>2, ReceivedFrame
  <2>4. ~ canFrame'.can_id.err
    BY <2>3
  <2>5. TypeOK'
    BY <1>1, <2>1, <2>3 DEF TypeOK
  <2>6. RoundTrip'
    BY <1>1, <2>3 DEF RoundTrip
  <2>7. OnTheWay'
    BY <2>1, <2>6 DEF OnTheWay
  <2>8. NotShownYet'
    BY <1>1, <2>1, <2>4 DEF NotShownYet
  <2>9. ShownIfWanted'
    BY <1>1 DEF ShownIfWanted
  <2> QED
    BY <1>0, <2>5, <2>7, <2>8, <2>9
<1> QED
  BY <1>3, <1>4

\* candump takes the frame, and prints it or not.
LEMMA DumpStep ==
    ASSUME IInv, Dump
    PROVE  IInv'
<1> USE DEF IInv
<1> DEFINE pass   == CheckFilter(canFrame, filter)
                     /\ (canFilters = {} \/ CanFilterPassed(canFilters, canFrame))
           wanted == Given(tokens) = {} \/ \E token \in Given(tokens) : Accepts(token, canFrame)
<1>1. /\ stage = "received" /\ ~ canFrame.can_id.err
      /\ UNCHANGED <<text, canFrame, sent, tx, rx, filter, tokens, canFilters, frames>>
  BY DEF Dump, NotShownYet
<1>2. /\ pass => /\ shown' = "printed" /\ count' = Counted(count)
                 /\ stage' \in {"exit", "idle"}
      /\ ~ pass => shown' = "discarded" /\ stage' = "idle" /\ UNCHANGED count
  BY DEF Dump
<1>3. canFilters = {} \/ CanFilterPassed(canFilters, canFrame) <=> wanted
  <2>1. canFrame \in CanFrames
    BY DEF TypeOK
  <2>2. CanFilterPassed(ParsedFilters(tokens), canFrame)
          <=> \E token \in Given(tokens) : Accepts(token, canFrame)
    BY <1>1, <2>1, TokensTyped, PassedIfAccepted
  <2>3. ParsedFilters(tokens) = {} <=> Given(tokens) = {}
    BY DEF ParsedFilters
  <2> QED
    BY <2>2, <2>3 DEF AsParsed
<1>4. count' \in Nat
  BY <1>2 DEF TypeOK, Counted
<1>5. TypeOK'
  BY <1>1, <1>2, <1>4 DEF TypeOK
<1>6. OnTheWay'
  BY <1>2 DEF OnTheWay, RoundTrip
<1>7. NotShownYet'
  BY <1>1, <1>2 DEF NotShownYet
<1>8. /\ shown' = "printed" => wanted
      /\ shown' = "discarded" => ~ wanted \/ ~ CheckFilter(canFrame, filter)
  BY <1>2, <1>3
<1>9. AsParsed'
  BY <1>1, StillParsed
<1>10. ShownIfWanted'
  BY <1>1, <1>8 DEF ShownIfWanted
<1> QED
  BY <1>5, <1>6, <1>7, <1>9, <1>10

\* What is shown, and everything said of the frame, holds in every state.
THEOREM PathInvariant == Spec => []IInv
<1>1. Init => IInv
  BY InitHolds
<1>2. IInv /\ [Next]_vars => IInv'
  <2> SUFFICES ASSUME IInv, [Next]_vars PROVE IInv'
    OBVIOUS
  <2>1. CASE SetMask
    BY <2>1, SetMaskStep
  <2>2. CASE CanSend
    BY <2>2, CanSendStep
  <2>3. CASE TransmitMessage
    BY <2>3, TransmitStep
  <2>4. CASE BusFrame
    BY <2>4, BusFrameStep
  <2>5. CASE ReceiveMessage
    BY <2>5, ReceiveStep
  <2>6. CASE Dump
    BY <2>6, DumpStep
  <2>7. CASE UNCHANGED vars
    <3>1. TypeOK'
      BY <2>7 DEF vars, IInv, TypeOK
    <3>2. OnTheWay'
      BY <2>7 DEF vars, IInv, OnTheWay, RoundTrip
    <3>3. NotShownYet'
      BY <2>7 DEF vars, IInv, NotShownYet
    <3>4. AsParsed'
      BY <2>7, StillParsed DEF vars, IInv
    <3>5. ShownIfWanted'
      BY <2>7 DEF vars, IInv, ShownIfWanted
    <3> QED
      BY <3>1, <3>2, <3>3, <3>4, <3>5 DEF IInv
  <2> QED
    BY <2>1, <2>2, <2>3, <2>4, <2>5, <2>6, <2>7 DEF Next
<1> QED
  BY <1>1, <1>2, PTL DEF Spec

\* The variables have their types: what the parsers of the two programs and the
\* registers make of any text and any frame is well formed, byte by byte.
THEOREM TypeCorrect == Spec => []TypeOK
<1>1. IInv => TypeOK
  BY DEF IInv
<1> QED
  BY <1>1, PathInvariant, PTL

\* ReceiveMessage gets the frame that TransmitMessage wrote, or another node sent: for
\* every identifier, standard or extended, every length up to eight and all data.
THEOREM FrameArrives == Spec => []RoundTrip
<1>1. IInv => RoundTrip
  BY DEF IInv, OnTheWay
<1> QED
  BY <1>1, PathInvariant, PTL

\* A frame that candump prints is accepted, as the usage text has it, by one of the
\* filters typed on its command line, and one that it discards by none, or the
\* descriptor's filter kept it back: for all identifiers and masks, for either
\* separator, with 8 digits or less, whatever candump makes of the text.
THEOREM ShownAsDocumented == Spec => []ShownIfWanted
<1>1. IInv => ShownIfWanted
  BY DEF IInv
<1> QED
  BY <1>1, PathInvariant, PTL

\* The finding of EmptyFrame is the only way in which a length goes wrong: a text with a
\* number and with data, of a remote frame or of bytes, never makes a frame longer than
\* its eight bytes, however its data are cut in tokens.
THEOREM LengthsAreRight == Spec => []LongOnlyWithoutData
<1>1. Init => LongOnlyWithoutData
  BY DEF Init, LongOnlyWithoutData
<1>2. TypeOK /\ LongOnlyWithoutData /\ [Next]_vars => LongOnlyWithoutData'
  <2> SUFFICES ASSUME TypeOK, LongOnlyWithoutData, [Next]_vars PROVE LongOnlyWithoutData'
    OBVIOUS
  <2>1. CASE CanSend
    <3>1. text' \in CmdTexts /\ canFrame' \in ParseCanFrame(text')
      BY <2>1, FramePathAssumption DEF CanSend
    <3>2. text'.digits # 0 /\ text'.data.kind # "none" => canFrame'.len \in 0..8
      BY <3>1, LengthOfText
    <3> QED
      BY <3>2 DEF LongOnlyWithoutData
  <2>2. CASE SetMask \/ TransmitMessage \/ BusFrame \/ ReceiveMessage \/ Dump
    <3>1. stage' # "queued"
      BY <2>2 DEF SetMask, TransmitMessage, BusFrame, ReceiveMessage, Dump
    <3> QED
      BY <3>1 DEF LongOnlyWithoutData
  <2>3. CASE UNCHANGED vars
    BY <2>3 DEF vars, LongOnlyWithoutData
  <2> QED
    BY <2>1, <2>2, <2>3 DEF Next
<1> QED
  BY <1>1, <1>2, TypeCorrect, PTL DEF Spec
=============================================================================
