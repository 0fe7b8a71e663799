-------------------------- MODULE StreamGapsProofs --------------------------
(***************************************************************************)
(* The properties of the gap blocks, for a window of any size and any      *)
(* number of blocks a packet has room for.                                 *)
(*                                                                         *)
(* None of them is inductive: what a block means depends on all blocks     *)
(* before it.  GInv says that there are positions in the window, one       *)
(* before each block and one after the last, from which every block        *)
(* describes its part of the window; the receiver appends and merges       *)
(* blocks without losing them and the sender walks along them.             *)
(***************************************************************************)
EXTENDS StreamGaps, FiniteSetTheorems, SequenceTheorems, WellFoundedInduction, TLAPS

Block == [ack : Nat, nack : Nat]

(* Block i acknowledges the positions above NackTop, down from pos[i - 1]. *)
NackTop(pos, bs, i) == pos[i - 1] - bs[i].ack

(* No received segment is among the ones block i says are missing. *)
NackExact(pos, bs, i) == ((pos[i] + 1) .. NackTop(pos, bs, i)) \cap filled = {}

(* pos are the positions between the blocks bs. *)
Describes(pos, bs) ==
  /\ bs \in Seq(Block)
  /\ pos \in [0 .. Len(bs) -> 0 .. MaxWindow]
  /\ pos[0] = RecvMax
  /\ \A i \in 1 .. Len(bs) :
       /\ pos[i] = NackTop(pos, bs, i) - bs[i].nack
       /\ (NackTop(pos, bs, i) + 1) .. pos[i - 1] \subseteq filled
       /\ Runs <= limit => NackExact(pos, bs, i)
  /\ bs # <<>> => bs[1].ack > 0

(* The last block is as it was when it was appended. *)
LastExact(pos, bs) == bs # <<>> => bs[Len(bs)].ack > 0 /\ NackExact(pos, bs, Len(bs))

(* The first segments of the runs above x. *)
RunStarts(x) == {q \in filled : q - 1 \notin filled /\ x < q}

WindowInv ==
  /\ filled \subseteq 2 .. MaxWindow
  /\ limit \in BlockLimits
  /\ iterator \in {0} \cup filled
  /\ Len(blocks) <= limit
  /\ blocks = <<>> => iterator = RecvMax
  /\ Runs <= limit => Len(blocks) = Cardinality(RunStarts(iterator))

SenderInv ==
  /\ next \in 1 .. Len(blocks) + 1
  /\ cum \in 0 .. RecvMax
  /\ acked \subseteq filled
  /\ acked \cup nacked = (cum + 1) .. RecvMax
  /\ Runs <= limit => nacked \cap filled = {}
  /\ next > 1 => RecvMax \in acked
  /\ next > Len(blocks) /\ next > 1 => Min(filled) \in acked

(* The inductive invariant. *)
GInv ==
  /\ WindowInv
  /\ SenderInv
  /\ \E pos \in [0 .. Len(blocks) -> 0 .. MaxWindow] :
       /\ Describes(pos, blocks) /\ LastExact(pos, blocks)
       /\ pos[Len(blocks)] = iterator
       /\ cum = pos[next - 1]
  /\ phase = "encode" => next = 1
  /\ phase # "encode" => iterator = 0
  /\ phase = "done" => next = Len(blocks) + 1
-----------------------------------------------------------------------------
(* Sets of numbers.                                                        *)

LEMMA LeastElement ==
  ASSUME NEW S \in SUBSET Nat, S # {}
  PROVE  \E x \in S : \A y \in S : x <= y
  <1>1. \E x \in S : \A y \in S : ~(<<y, x>> \in OpToRel(<, Nat))
    BY NatLessThanWellFounded, WFMin, Zenon
  <1>2. PICK x \in S : \A y \in S : ~(<<y, x>> \in OpToRel(<, Nat))
    BY <1>1
  <1>3. ASSUME NEW y \in S PROVE x <= y
    <2>1. ~(y < x)
      BY <1>2 DEF OpToRel
    <2>. QED  BY <2>1
  <1>. QED  BY <1>3

(* What Min picks. *)
LEMMA MinIsLeast ==
  ASSUME NEW S \in SUBSET Nat, S # {}
  PROVE  Min(S) \in S /\ \A y \in S : Min(S) <= y
  <1>1. \E x \in S : \A y \in S : x =< y
    BY LeastElement
  <1>. QED  BY <1>1 DEF Min

(* What Max picks. *)
LEMMA MaxIsGreatest ==
  ASSUME NEW n \in Nat, NEW S \in SUBSET (0 .. n), S # {}
  PROVE  Max(S) \in S /\ \A y \in S : y <= Max(S)
  <1> DEFINE B == {m \in 0 .. n : \A x \in S : x <= m}
  <1>1. n \in B
    OBVIOUS
  <1>2. B \in SUBSET Nat /\ B # {}
    BY <1>1
  <1>. HIDE DEF B
  <1>3. PICK b \in B : \A m \in B : b <= m
    BY <1>2, LeastElement
  <1>. USE DEF B
  <1>4. b \in S
    <2>1. SUFFICES ASSUME b \notin S PROVE FALSE
      OBVIOUS
    <2>2. \A x \in S : x \in Nat /\ x < b
      BY <2>1
    <2>3. b # 0
      <3>1. PICK x \in S : TRUE
        OBVIOUS
      <3>. QED  BY <2>2, <3>1
    <2>4. b - 1 \in B
      BY <2>2, <2>3
    <2>. QED  BY <1>3, <2>4
  <1>5. \E x \in S : \A y \in S : x >= y
    BY <1>3, <1>4
  <1>6. Max(S) \in S /\ \A y \in S : Max(S) >= y
    BY <1>5 DEF Max
  <1>. QED  BY <1>6

(* recvMax is the newest segment received. *)
LEMMA RecvMaxFacts ==
  ASSUME filled \subseteq 2 .. MaxWindow
  PROVE  /\ RecvMax \in 0 .. MaxWindow
         /\ \A q \in filled : q <= RecvMax
         /\ filled # {} => RecvMax = Max(filled) /\ RecvMax \in filled
         /\ filled = {} => RecvMax = 0
  <1>1. MaxWindow \in Nat
    BY GapsAssumption
  <1>2. CASE filled = {}
    BY <1>1, <1>2 DEF RecvMax
  <1>3. CASE filled # {}
    <2>1. filled \in SUBSET (0 .. MaxWindow)
      BY <1>1
    <2>2. Max(filled) \in filled /\ \A y \in filled : y <= Max(filled)
      BY <1>1, <1>3, <2>1, MaxIsGreatest
    <2> DEFINE top == Max(filled)
    <2>3. RecvMax = top /\ top \in filled /\ \A y \in filled : y <= top
      BY <1>3, <2>2 DEF RecvMax
    <2>. HIDE DEF top
    <2>4. top \in 0 .. MaxWindow
      BY <2>1, <2>3
    <2>5. RecvMax = Max(filled)
      BY <2>3 DEF top
    <2>. QED  BY <1>3, <2>3, <2>4, <2>5
  <1>. QED  BY <1>2, <1>3

(* The inner loops of add_ack_extension: from a received segment down to   *)
(* the missing one below its run, and on to the next received one.         *)
LEMMA RunBelow ==
  ASSUME filled \subseteq 2 .. MaxWindow, NEW x \in filled
  PROVE  LET gap == Missing(x)
             below == ReceivedBelow(gap)
         IN  /\ gap \in 1 .. (x - 1)
             /\ (gap + 1) .. x \subseteq filled
             /\ gap \notin filled
             /\ below \in 0 .. (gap - 1)
             /\ below \in {0} \cup filled
             /\ ((below + 1) .. gap) \cap filled = {}
  <1> DEFINE gap == Missing(x)
             below == ReceivedBelow(gap)
             U == {0} \cup {y \in 1 .. x : y \notin filled}
             V == {0} \cup {y \in 1 .. gap : y \in filled}
  <1>1. MaxWindow \in Nat /\ x \in 2 .. MaxWindow /\ x \in Nat
    BY GapsAssumption
  <1>2. U \in SUBSET (0 .. x) /\ U # {} /\ 1 \in U
    BY <1>1
  <1>3. gap = Max(U)
    BY DEF Missing
  <1>4. gap \in U /\ \A y \in U : y <= gap
    BY <1>1, <1>2, <1>3, MaxIsGreatest
  <1>. HIDE DEF gap
  <1>5. gap \in 1 .. (x - 1) /\ gap \notin filled
    BY <1>1, <1>2, <1>4
  <1>6. (gap + 1) .. x \subseteq filled
    <2>1. SUFFICES ASSUME NEW y \in (gap + 1) .. x, y \notin filled PROVE FALSE
      OBVIOUS
    <2>2. y \in U /\ y > gap
      BY <1>1, <1>5, <2>1
    <2>. QED  BY <1>1, <1>4, <1>5, <2>2
  <1>7. gap \in Nat /\ V \in SUBSET (0 .. gap) /\ V # {}
    BY <1>5
  <1>8. below = Max(V)
    BY DEF ReceivedBelow
  <1>9. below \in V /\ \A y \in V : y <= below
    BY <1>7, <1>8, MaxIsGreatest
  <1>. HIDE DEF below
  <1>10. below \in 0 .. (gap - 1) /\ below \in {0} \cup filled
    BY <1>5, <1>7, <1>9
  <1>11. ((below + 1) .. gap) \cap filled = {}
    <2>1. SUFFICES ASSUME NEW y \in (below + 1) .. gap, y \in filled PROVE FALSE
      OBVIOUS
    <2>2. y \in V /\ y > below
      BY <1>7, <1>10, <2>1
    <2>. QED  BY <1>7, <1>9, <1>10, <2>2
  <1>. QED  BY <1>5, <1>6, <1>10, <1>11 DEF gap, below
-----------------------------------------------------------------------------
(* The blocks.                                                             *)

(* What merging the two first blocks leaves. *)
LEMMA ConsolidateShape ==
  ASSUME NEW bs \in Seq(Block), Len(bs) >= 2
  PROVE  LET cs == Consolidate(bs)
         IN  /\ cs \in Seq(Block) /\ Len(cs) = Len(bs) - 1
             /\ cs[1].ack = bs[1].ack
             /\ cs[1].nack = bs[1].nack + bs[2].ack + bs[2].nack
             /\ \A i \in 2 .. Len(cs) : cs[i] = bs[i + 1]
  <1> DEFINE b == [ack |-> bs[1].ack, nack |-> bs[1].nack + bs[2].ack + bs[2].nack]
             rest == SubSeq(bs, 3, Len(bs))
  <1>1. bs[1] \in Block /\ bs[2] \in Block /\ Len(bs) \in Nat
    BY ElementOfSeq
  <1>2. b \in Block
    BY <1>1 DEF Block
  <1>3. b.ack = bs[1].ack /\ b.nack = bs[1].nack + bs[2].ack + bs[2].nack
    OBVIOUS
  <1>4. /\ rest \in Seq(Block) /\ Len(rest) = Len(bs) - 2
        /\ \A j \in 1 .. Len(rest) : rest[j] = bs[j + 2]
    <2>0. Len(bs) \in Int /\ 3 \in Int /\ \A j \in 3 .. Len(bs) : bs[j] \in Block
      BY <1>1, ElementOfSeq
    <2>1. rest \in Seq(Block) /\ Len(rest) = (IF 3 <= Len(bs) THEN Len(bs) - 3 + 1 ELSE 0)
      BY <1>1, <2>0, SubSeqProperties
    <2>2. \A j \in 1 .. Len(bs) - 3 + 1 : rest[j] = bs[3 + j - 1]
      BY <1>1, <2>0, SubSeqProperties
    <2>. HIDE DEF rest
    <2>3. Len(rest) = Len(bs) - 2
      <3> DEFINE n == Len(bs)
                 m == Len(rest)
      <3>1. n \in Nat /\ n >= 2 /\ m = (IF 3 <= n THEN n - 3 + 1 ELSE 0)
        BY <1>1, <2>1
      <3>. HIDE DEF n, m
      <3>2. m = n - 2
        BY <3>1
      <3>. QED  BY <3>2 DEF n, m
    <2>. QED  BY <1>1, <2>1, <2>2, <2>3
  <1>5. Consolidate(bs) = <<b>> \o rest
    BY DEF Consolidate
  <1>. HIDE DEF b, rest
  <1>6. <<b>> \in Seq(Block) /\ Len(<<b>>) = 1 /\ <<b>>[1] = b
    BY <1>2
  <1> DEFINE cs == <<b>> \o rest
  <1>7. /\ cs \in Seq(Block) /\ Len(cs) = 1 + Len(rest)
        /\ \A i \in 1 .. 1 + Len(rest) : cs[i] = IF i <= 1 THEN <<b>>[i] ELSE rest[i - 1]
    BY <1>4, <1>6, ConcatProperties
  <1>. HIDE DEF cs
  <1>8. cs[1] = b
    BY <1>1, <1>4, <1>6, <1>7
  <1>9. \A i \in 2 .. Len(cs) : cs[i] = bs[i + 1]
    <2>1. ASSUME NEW i \in 2 .. Len(cs) PROVE cs[i] = bs[i + 1]
      <3>1. cs[i] = rest[i - 1] /\ i - 1 \in 1 .. Len(rest)
        BY <1>1, <1>4, <1>7
      <3>2. rest[i - 1] = bs[(i - 1) + 2] /\ (i - 1) + 2 = i + 1
        BY <1>1, <1>4, <1>7, <3>1
      <3>. QED  BY <3>1, <3>2
    <2>. QED  BY <2>1
  <1>10. Len(cs) = Len(bs) - 1
    BY <1>1, <1>4, <1>7
  <1>11. cs = Consolidate(bs)
    BY <1>5 DEF cs
  <1>. QED  BY <1>3, <1>7, <1>8, <1>9, <1>10, <1>11

(* Merged blocks describe the same window, with one position less; they    *)
(* are merged only when there are more runs than blocks.                   *)
LEMMA ConsolidateDescribes ==
  ASSUME filled \subseteq 2 .. MaxWindow, NEW pos, NEW bs, Describes(pos, bs), Len(bs) >= 2,
         ~(Runs <= limit)
  PROVE  \E at : /\ Describes(at, Consolidate(bs))
                 /\ at[Len(Consolidate(bs))] = pos[Len(bs)]
  <1> DEFINE cs == Consolidate(bs)
             n == Len(bs)
             at == [i \in 0 .. n - 1 |-> IF i = 0 THEN pos[0] ELSE pos[i + 1]]
  <1>1. /\ bs \in Seq(Block) /\ n \in Nat /\ pos \in [0 .. n -> 0 .. MaxWindow] /\ pos[0] = RecvMax
        /\ \A i \in 1 .. n : bs[i] \in Block
    BY ElementOfSeq DEF Describes
  <1>2. /\ cs \in Seq(Block) /\ Len(cs) = n - 1
        /\ cs[1].ack = bs[1].ack
        /\ cs[1].nack = bs[1].nack + bs[2].ack + bs[2].nack
        /\ \A i \in 2 .. Len(cs) : cs[i] = bs[i + 1]
    BY <1>1, ConsolidateShape
  <1>. HIDE DEF cs
  <1>3. MaxWindow \in Nat
    BY GapsAssumption
  <1>4. at \in [0 .. n - 1 -> 0 .. MaxWindow] /\ at[0] = pos[0] /\ \A i \in 1 .. n - 1 : at[i] = pos[i + 1]
    BY <1>1
  <1>. HIDE DEF at
  <1>5. ASSUME NEW i \in 1 .. Len(cs)
        PROVE  /\ at[i] = NackTop(at, cs, i) - cs[i].nack
               /\ (NackTop(at, cs, i) + 1) .. at[i - 1] \subseteq filled
    <2>1. CASE i = 1
      <3>1. 1 \in 1 .. n /\ 2 \in 1 .. n /\ bs[1] \in Block /\ bs[2] \in Block
        BY <1>1
      <3>2. bs[1].ack \in Nat /\ bs[1].nack \in Nat /\ bs[2].ack \in Nat /\ bs[2].nack \in Nat
        BY <3>1 DEF Block
      <3>3. /\ pos[1] = (pos[0] - bs[1].ack) - bs[1].nack
            /\ pos[2] = (pos[1] - bs[2].ack) - bs[2].nack
            /\ (pos[0] - bs[1].ack + 1) .. pos[0] \subseteq filled
        <4>1. \A k \in 1 .. n : /\ pos[k] = (pos[k - 1] - bs[k].ack) - bs[k].nack
                                /\ (pos[k - 1] - bs[k].ack + 1) .. pos[k - 1] \subseteq filled
          BY DEF Describes, NackTop
        <4>2. 1 - 1 = 0 /\ 2 - 1 = 1
          OBVIOUS
        <4>. QED  BY <3>1, <4>1, <4>2
      <3>4. pos[0] \in Nat /\ pos[1] \in Nat /\ pos[2] \in Nat
        BY <1>1, <1>3, <3>1
      <3>5. at[1] = pos[2] /\ at[0] = pos[0] /\ 1 - 1 = 0
        BY <1>2, <1>4, <2>1
      <3>6. pos[2] = (pos[0] - cs[1].ack) - cs[1].nack
        <4> DEFINE a == bs[1].ack
                   b == bs[1].nack
                   c == bs[2].ack
                   d == bs[2].nack
                   x == pos[0]
                   y == pos[1]
                   z == pos[2]
        <4>1. a \in Nat /\ b \in Nat /\ c \in Nat /\ d \in Nat
          BY <3>2
        <4>2. x \in Nat /\ y \in Nat /\ z \in Nat
          BY <3>4
        <4>3. y = (x - a) - b /\ z = (y - c) - d
          BY <3>3
        <4>4. cs[1].ack = a /\ cs[1].nack = b + c + d
          BY <1>2
        <4>. HIDE DEF a, b, c, d, x, y, z
        <4>5. z = (x - a) - (b + c + d)
          BY <4>1, <4>2, <4>3
        <4>6. z = pos[2] /\ x = pos[0]
          BY DEF x, z
        <4>. QED  BY <4>4, <4>5, <4>6
      <3>. QED  BY <1>2, <2>1, <3>3, <3>5, <3>6 DEF NackTop
    <2>2. CASE i # 1
      <3>1. i \in 2 .. Len(cs) /\ i + 1 \in 1 .. n /\ i \in 1 .. n - 1 /\ i - 1 \in 1 .. n - 1
        BY <1>1, <1>2, <2>2
      <3>2. cs[i] = bs[i + 1] /\ at[i] = pos[i + 1] /\ at[i - 1] = pos[(i - 1) + 1]
        BY <1>2, <1>4, <3>1
      <3>3. (i - 1) + 1 = i /\ (i + 1) - 1 = i
        BY <3>1
      <3>4. /\ pos[i + 1] = NackTop(pos, bs, i + 1) - bs[i + 1].nack
            /\ (NackTop(pos, bs, i + 1) + 1) .. pos[(i + 1) - 1] \subseteq filled
        BY <3>1 DEF Describes
      <3>5. NackTop(at, cs, i) = NackTop(pos, bs, i + 1)
        BY <3>2, <3>3 DEF NackTop
      <3>. QED  BY <3>2, <3>3, <3>4, <3>5
    <2>. QED  BY <2>1, <2>2
  <1>6. cs[1].ack > 0
    BY <1>1, <1>2 DEF Describes
  <1>7. Describes(at, cs)
    BY <1>1, <1>2, <1>4, <1>5, <1>6 DEF Describes
  <1>8. at[Len(cs)] = pos[n]
    <2>1. n - 1 \in 1 .. n - 1 /\ (n - 1) + 1 = n
      BY <1>1
    <2>. QED  BY <1>2, <1>4, <2>1
  <1>. QED  BY <1>7, <1>8 DEF cs

(* The block of the run that ends at x, appended, describes the window     *)
(* down to the next run.                                                   *)
LEMMA AppendDescribes ==
  ASSUME filled \subseteq 2 .. MaxWindow, NEW x \in filled,
         NEW pos, NEW bs, Describes(pos, bs), pos[Len(bs)] = x
  PROVE  LET gap == Missing(x)
             below == ReceivedBelow(gap)
             cs == Append(bs, [ack |-> x - gap, nack |-> gap - below])
         IN  \E at : Describes(at, cs) /\ LastExact(at, cs) /\ at[Len(cs)] = below
  <1> DEFINE gap == Missing(x)
             below == ReceivedBelow(gap)
             b == [ack |-> x - gap, nack |-> gap - below]
             cs == Append(bs, b)
             n == Len(bs)
             at == [i \in 0 .. n + 1 |-> IF i = n + 1 THEN below ELSE pos[i]]
  <1>1. /\ gap \in 1 .. (x - 1) /\ (gap + 1) .. x \subseteq filled /\ gap \notin filled
        /\ below \in 0 .. (gap - 1) /\ ((below + 1) .. gap) \cap filled = {}
    BY RunBelow
  <1>. HIDE DEF gap, below
  <1>2. MaxWindow \in Nat /\ x \in 2 .. MaxWindow
    BY GapsAssumption
  <1>3. /\ bs \in Seq(Block) /\ n \in Nat /\ pos \in [0 .. n -> 0 .. MaxWindow] /\ pos[0] = RecvMax
    BY DEF Describes
  <1>4. /\ b.ack = x - gap /\ b.nack = gap - below
        /\ x - gap \in Nat /\ gap - below \in Nat /\ x - gap > 0
    BY <1>1, <1>2
  <1>5. b \in Block
    BY <1>4 DEF Block
  <1>. HIDE DEF b
  <1>6. cs \in Seq(Block) /\ Len(cs) = n + 1 /\ cs[n + 1] = b /\ \A i \in 1 .. n : cs[i] = bs[i]
    BY <1>3, <1>5, AppendProperties
  <1>. HIDE DEF cs
  <1>7. below \in 0 .. MaxWindow
    BY <1>1, <1>2
  <1>8. at \in [0 .. n + 1 -> 0 .. MaxWindow] /\ at[n + 1] = below /\ \A i \in 0 .. n : at[i] = pos[i]
    BY <1>3, <1>7
  <1>. HIDE DEF at
  <1>9. /\ NackTop(at, cs, n + 1) = gap
        /\ at[n + 1] = gap - cs[n + 1].nack
        /\ at[(n + 1) - 1] = x
    <2>1. (n + 1) - 1 = n /\ at[n] = pos[n] /\ pos[n] = x
      BY <1>3, <1>8
    <2>2. x - (x - gap) = gap /\ gap - (gap - below) = below
      BY <1>1, <1>2
    <2>. QED  BY <1>4, <1>6, <1>8, <2>1, <2>2 DEF NackTop
  <1>10. NackExact(at, cs, n + 1)
    BY <1>1, <1>8, <1>9 DEF NackExact
  <1>11. ASSUME NEW i \in 1 .. Len(cs)
         PROVE  /\ at[i] = NackTop(at, cs, i) - cs[i].nack
                /\ (NackTop(at, cs, i) + 1) .. at[i - 1] \subseteq filled
                /\ Runs <= limit => NackExact(at, cs, i)
    <2>1. CASE i = n + 1
      BY <1>1, <1>9, <1>10, <2>1
    <2>2. CASE i # n + 1
      <3>1. i \in 1 .. n /\ i \in 0 .. n /\ i - 1 \in 0 .. n
        BY <1>3, <1>6, <2>2
      <3>2. cs[i] = bs[i] /\ at[i] = pos[i] /\ at[i - 1] = pos[i - 1]
        BY <1>6, <1>8, <3>1
      <3>3. NackTop(at, cs, i) = NackTop(pos, bs, i)
        BY <3>2 DEF NackTop
      <3>4. NackExact(at, cs, i) = NackExact(pos, bs, i)
        BY <3>2, <3>3 DEF NackExact
      <3>. QED  BY <3>1, <3>2, <3>3, <3>4 DEF Describes
    <2>. QED  BY <2>1, <2>2
  <1>12. cs[1].ack > 0
    <2>1. CASE n = 0
      BY <1>4, <1>6, <2>1
    <2>2. CASE n # 0
      <3>1. 1 \in 1 .. n /\ bs # <<>>
        BY <1>3, <2>2
      <3>. QED  BY <1>6, <3>1 DEF Describes
    <2>. QED  BY <2>1, <2>2
  <1>13. Describes(at, cs)
    BY <1>3, <1>6, <1>8, <1>11, <1>12 DEF Describes
  <1>14. LastExact(at, cs)
    BY <1>4, <1>6, <1>10 DEF LastExact
  <1>15. at[Len(cs)] = below
    BY <1>6, <1>8
  <1>. QED  BY <1>13, <1>14, <1>15 DEF cs, b, gap, below

(* The runs above the next position are one more.                          *)
LEMMA RunCounted ==
  ASSUME filled \subseteq 2 .. MaxWindow, NEW x \in filled
  PROVE  LET below == ReceivedBelow(Missing(x))
         IN  /\ Cardinality(RunStarts(x)) \in Nat /\ Runs \in Nat
             /\ Cardinality(RunStarts(below)) = Cardinality(RunStarts(x)) + 1
             /\ Cardinality(RunStarts(below)) <= Runs
  <1> DEFINE gap == Missing(x)
             below == ReceivedBelow(gap)
             start == gap + 1
             All == {q \in filled : q - 1 \notin filled}
  <1>1. /\ gap \in 1 .. (x - 1) /\ (gap + 1) .. x \subseteq filled /\ gap \notin filled
        /\ below \in 0 .. (gap - 1) /\ ((below + 1) .. gap) \cap filled = {}
    BY RunBelow
  <1>. HIDE DEF gap, below
  <1>2. MaxWindow \in Nat /\ x \in 2 .. MaxWindow
    BY GapsAssumption
  <1>3. IsFiniteSet(filled)
    <2>1. IsFiniteSet(2 .. MaxWindow)
      BY <1>2, FS_Interval
    <2>. QED  BY <2>1, FS_Subset
  <1>4. /\ IsFiniteSet(All) /\ IsFiniteSet(RunStarts(x)) /\ IsFiniteSet(RunStarts(below))
        /\ RunStarts(below) \subseteq All
    BY <1>3, FS_Subset DEF RunStarts
  <1>5. RunStarts(below) = RunStarts(x) \cup {start}
    <2>1. start \in filled /\ start - 1 \notin filled /\ below < start
      BY <1>1, <1>2
    <2>2. ASSUME NEW q \in RunStarts(below) PROVE q \in RunStarts(x) \/ q = start
      <3>1. q \in filled /\ q - 1 \notin filled /\ below < q /\ q \in 2 .. MaxWindow
        BY DEF RunStarts
      <3>2. CASE x < q
        BY <3>1, <3>2 DEF RunStarts
      <3>3. CASE q <= gap
        <4>1. q \in (below + 1) .. gap
          BY <1>1, <3>1, <3>3
        <4>. QED  BY <1>1, <3>1, <4>1
      <3>4. CASE start < q /\ q <= x
        <4>1. q - 1 \in (gap + 1) .. x
          BY <1>1, <1>2, <3>1, <3>4
        <4>. QED  BY <1>1, <3>1, <4>1
      <3>. QED  BY <1>1, <1>2, <3>1, <3>2, <3>3, <3>4
    <2>3. ASSUME NEW q \in RunStarts(x) PROVE q \in RunStarts(below)
      <3>1. q \in filled /\ q - 1 \notin filled /\ x < q /\ q \in 2 .. MaxWindow
        BY DEF RunStarts
      <3>2. below < q
        BY <1>1, <1>2, <3>1
      <3>. QED  BY <3>1, <3>2 DEF RunStarts
    <2>4. start \in RunStarts(below)
      BY <2>1 DEF RunStarts
    <2>. QED  BY <2>2, <2>3, <2>4
  <1>6. start \notin RunStarts(x)
    BY <1>1, <1>2 DEF RunStarts
  <1>. HIDE DEF start
  <1>7. Cardinality(RunStarts(below)) = Cardinality(RunStarts(x)) + 1
    BY <1>4, <1>5, <1>6, FS_AddElement
  <1>8. Runs = Cardinality(All)
    BY DEF Runs
  <1>. HIDE DEF All
  <1>9. Cardinality(RunStarts(below)) <= Cardinality(All) /\ Cardinality(All) \in Nat
        /\ Cardinality(RunStarts(x)) \in Nat
    BY <1>4, FS_Subset, FS_CardinalityType
  <1>. QED  BY <1>7, <1>8, <1>9 DEF below, gap
-----------------------------------------------------------------------------
(* The steps.                                                              *)

(* What the invariant says of the window and of the room in the packet. *)
LEMMA WindowFacts ==
  ASSUME GInv
  PROVE  /\ filled \subseteq 2 .. MaxWindow /\ MaxWindow \in Nat
         /\ limit \in Nat /\ limit >= 2
         /\ RecvMax \in 0 .. MaxWindow /\ \A q \in filled : q <= RecvMax
         /\ filled # {} => RecvMax = Max(filled) /\ RecvMax \in filled
         /\ filled = {} => RecvMax = 0
         /\ blocks \in Seq(Block) /\ Len(blocks) \in Nat
  <1>1. filled \subseteq 2 .. MaxWindow /\ limit \in BlockLimits
    BY DEF GInv, WindowInv
  <1>2. MaxWindow \in Nat /\ limit \in Nat /\ limit >= 2
    BY <1>1, GapsAssumption
  <1>3. blocks \in Seq(Block)
    BY DEF GInv, Describes
  <1>. QED  BY <1>1, <1>2, <1>3, RecvMaxFacts

(* A turn of add_ack_extension: a merge when there is no room, and a block. *)
LEMMA EncodeBlockOK == ASSUME GInv, EncodeBlock PROVE GInv'
  <1> DEFINE x == iterator
             gap == Missing(x)
             below == ReceivedBelow(gap)
             b == [ack |-> x - gap, nack |-> gap - below]
             bs == RoomForBlock(blocks)
  <1>1. /\ filled \subseteq 2 .. MaxWindow /\ MaxWindow \in Nat
        /\ limit \in Nat /\ limit >= 2 /\ blocks \in Seq(Block) /\ Len(blocks) \in Nat
        /\ RecvMax \in 0 .. MaxWindow
    BY WindowFacts
  <1>2. x \in filled
    BY DEF EncodeBlock, GInv, WindowInv
  <1>3. /\ blocks' = Append(bs, b) /\ iterator' = below
        /\ UNCHANGED <<filled, limit, phase, next, cum, acked, nacked>>
        /\ phase = "encode" /\ next = 1
    BY DEF EncodeBlock, GInv
  <1>4. /\ Cardinality(RunStarts(x)) \in Nat /\ Runs \in Nat
        /\ Cardinality(RunStarts(below)) = Cardinality(RunStarts(x)) + 1
        /\ Cardinality(RunStarts(below)) <= Runs
    BY <1>1, <1>2, RunCounted
  <1>5. /\ Len(blocks) <= limit
        /\ Runs <= limit => Len(blocks) = Cardinality(RunStarts(x))
    BY DEF GInv, WindowInv
  <1>6. Runs <= limit => Len(blocks) < limit
    <2> DEFINE n == Len(blocks)
               k == Cardinality(RunStarts(x))
               m == Cardinality(RunStarts(below))
               r == Runs
    <2>1. n \in Nat /\ k \in Nat /\ r \in Nat /\ m = k + 1 /\ m <= r /\ (r <= limit => n = k)
      BY <1>1, <1>4, <1>5
    <2>. HIDE DEF n, k, m, r
    <2>2. r <= limit => n < limit
      BY <1>1, <2>1
    <2>. QED  BY <2>2 DEF n, r
  <1>7. PICK pos : Describes(pos, blocks) /\ pos[Len(blocks)] = x /\ cum = pos[next - 1]
    BY DEF GInv
  <1>8. /\ \E at : Describes(at, bs) /\ at[Len(bs)] = x
        /\ Len(bs) \in Nat /\ Len(bs) < limit
        /\ Runs <= limit => bs = blocks
    <2>1. CASE Len(blocks) >= limit
      <3>1. bs = Consolidate(blocks) /\ ~(Runs <= limit) /\ Len(blocks) >= 2
        BY <1>1, <1>6, <2>1 DEF RoomForBlock
      <3>2. Len(Consolidate(blocks)) = Len(blocks) - 1
        BY <1>1, <3>1, ConsolidateShape
      <3>3. \E at : Describes(at, Consolidate(blocks)) /\ at[Len(Consolidate(blocks))] = pos[Len(blocks)]
        BY <1>1, <1>7, <3>1, ConsolidateDescribes
      <3>. QED  BY <1>1, <1>5, <1>7, <3>1, <3>2, <3>3
    <2>2. CASE ~(Len(blocks) >= limit)
      <3>1. bs = blocks /\ Len(blocks) < limit
        BY <1>1, <2>2 DEF RoomForBlock
      <3>. QED  BY <1>1, <1>7, <3>1
    <2>. QED  BY <2>1, <2>2
  <1>. HIDE DEF bs
  <1>9. PICK mid : Describes(mid, bs) /\ mid[Len(bs)] = x
    BY <1>8
  <1>10. PICK at : Describes(at, blocks') /\ LastExact(at, blocks') /\ at[Len(blocks')] = below
    BY <1>1, <1>2, <1>3, <1>9, AppendDescribes
  <1>11. b \in Block /\ bs \in Seq(Block) /\ below \in {0} \cup filled
    <2>1. /\ gap \in 1 .. (x - 1) /\ below \in 0 .. (gap - 1) /\ below \in {0} \cup filled
      BY <1>1, <1>2, RunBelow
    <2>2. x \in Nat
      BY <1>1, <1>2
    <2>. HIDE DEF gap, below
    <2>3. x - gap \in Nat /\ gap - below \in Nat
      BY <2>1, <2>2
    <2>. QED  BY <1>9, <2>1, <2>3 DEF Block, Describes
  <1>. HIDE DEF b, below, gap
  <1>12. Len(blocks') = Len(bs) + 1
    BY <1>3, <1>11, AppendProperties
  <1>13. WindowInv'
    <2>1. Runs <= limit => Len(blocks') = Cardinality(RunStarts(below))
      BY <1>4, <1>5, <1>8, <1>12
    <2>2. blocks' # <<>> /\ Len(blocks') <= limit
      BY <1>1, <1>3, <1>8, <1>11, <1>12, AppendProperties
    <2>3. /\ filled' \subseteq 2 .. MaxWindow /\ limit' \in BlockLimits
          /\ iterator' \in {0} \cup filled'
      BY <1>3, <1>11 DEF GInv, WindowInv
    <2>4. Runs' = Runs /\ RunStarts(iterator)' = RunStarts(below)
      BY <1>3 DEF Runs, RunStarts
    <2>. QED  BY <1>3, <2>1, <2>2, <2>3, <2>4 DEF WindowInv
  <1>14. RecvMax' = RecvMax /\ Runs' = Runs
    BY <1>3 DEF RecvMax, Runs
  <1>15. SenderInv'
    <2>1. next' \in 1 .. Len(blocks') + 1 /\ next' = 1
      BY <1>3, <1>8, <1>12
    <2>. QED  BY <1>3, <1>14, <2>1 DEF GInv, SenderInv
  <1>16. Describes(at, blocks)' /\ LastExact(at, blocks)'
    <2>1. \A i \in 1 .. Len(blocks') : NackExact(at, blocks, i)' = NackExact(at, blocks', i)
      BY <1>3 DEF NackExact, NackTop
    <2>2. \A i \in 1 .. Len(blocks') : NackTop(at, blocks, i)' = NackTop(at, blocks', i)
      BY DEF NackTop
    <2>3. Describes(at, blocks)'
      BY <1>3, <1>10, <1>14, <2>1, <2>2 DEF Describes
    <2>4. LastExact(at, blocks)'
      BY <1>3, <1>10 DEF LastExact, NackExact, NackTop
    <2>. QED  BY <2>3, <2>4
  <1>17. at \in [0 .. Len(blocks') -> 0 .. MaxWindow] /\ cum' = at[next' - 1]
    <2>1. next' - 1 = 0 /\ next - 1 = 0
      BY <1>3
    <2>2. pos[0] = RecvMax /\ at[0] = RecvMax
      BY <1>7, <1>10 DEF Describes
    <2>. QED  BY <1>3, <1>7, <1>10, <2>1, <2>2 DEF Describes
  <1>. QED  BY <1>3, <1>10, <1>13, <1>15, <1>16, <1>17 DEF GInv

(* Steps that touch neither the window nor the blocks leave what the       *)
(* blocks mean alone.                                                      *)
LEMMA SameMeaning ==
  ASSUME NEW pos, UNCHANGED <<filled, limit, blocks>>
  PROVE  /\ Describes(pos, blocks)' = Describes(pos, blocks)
         /\ LastExact(pos, blocks)' = LastExact(pos, blocks)
         /\ RecvMax' = RecvMax /\ Runs' = Runs
         /\ UNCHANGED iterator => WindowInv' = WindowInv
  <1>1. RecvMax' = RecvMax /\ Runs' = Runs
    BY DEF RecvMax, Runs
  <1>2. Describes(pos, blocks)' = Describes(pos, blocks)
    BY <1>1 DEF Describes, NackExact, NackTop
  <1>3. LastExact(pos, blocks)' = LastExact(pos, blocks)
    BY DEF LastExact, NackExact, NackTop
  <1>4. UNCHANGED iterator => WindowInv' = WindowInv
    BY <1>1 DEF WindowInv, RunStarts
  <1>. QED  BY <1>1, <1>2, <1>3, <1>4

(* The end of the receiver's loop. *)
LEMMA EncodeEndOK == ASSUME GInv, EncodeEnd PROVE GInv'
  <1>1. /\ UNCHANGED <<filled, limit, iterator, blocks, next, cum, acked, nacked>>
        /\ phase' = "decode" /\ iterator = 0
    BY DEF EncodeEnd
  <1>2. PICK pos \in [0 .. Len(blocks) -> 0 .. MaxWindow] :
           /\ Describes(pos, blocks) /\ LastExact(pos, blocks)
           /\ pos[Len(blocks)] = iterator /\ cum = pos[next - 1]
    BY DEF GInv
  <1>3. Describes(pos, blocks)' /\ LastExact(pos, blocks)' /\ WindowInv' /\ RecvMax' = RecvMax /\ Runs' = Runs
    BY <1>1, <1>2, SameMeaning DEF GInv
  <1>4. SenderInv'
    BY <1>1, <1>3 DEF GInv, SenderInv
  <1>. QED  BY <1>1, <1>2, <1>3, <1>4 DEF GInv

(* Two adjacent parts of the window. *)
LEMMA Adjacent ==
  ASSUME NEW a \in Nat, NEW b \in Nat, NEW c \in Nat, NEW d \in Nat, a <= b, b <= c, c <= d
  PROVE  ((c + 1) .. d) \cup ((b + 1) .. c) \cup ((a + 1) .. b) = (a + 1) .. d
  OBVIOUS

(* A turn of parse_ack_extension: one block is read. *)
LEMMA DecodeBlockOK == ASSUME GInv, DecodeBlock PROVE GInv'
  <1> DEFINE i == next
             n == Len(blocks)
             ack == blocks[i].ack
             nack == blocks[i].nack
             top == cum - ack
             bottom == top - nack
  <1>1. /\ filled \subseteq 2 .. MaxWindow /\ MaxWindow \in Nat
        /\ limit \in Nat /\ blocks \in Seq(Block) /\ n \in Nat
        /\ RecvMax \in 0 .. MaxWindow
    BY WindowFacts
  <1>2. /\ acked' = acked \cup ((top + 1) .. cum)
        /\ nacked' = nacked \cup ((bottom + 1) .. top)
        /\ cum' = bottom /\ next' = i + 1
        /\ UNCHANGED <<filled, limit, phase, iterator, blocks>>
        /\ phase = "decode" /\ i <= n
    BY DEF DecodeBlock
  <1>3. PICK pos \in [0 .. n -> 0 .. MaxWindow] :
           /\ Describes(pos, blocks) /\ LastExact(pos, blocks)
           /\ pos[n] = iterator /\ cum = pos[i - 1]
    BY DEF GInv
  <1>4. Describes(pos, blocks)' /\ LastExact(pos, blocks)' /\ WindowInv' /\ RecvMax' = RecvMax /\ Runs' = Runs
    BY <1>2, <1>3, SameMeaning DEF GInv
  <1>5. i \in 1 .. n /\ i \in 0 .. n /\ cum \in 0 .. RecvMax /\ iterator = 0
    BY <1>1, <1>2 DEF GInv, SenderInv
  <1>6. ack \in Nat /\ nack \in Nat
    <2>1. blocks[i] \in Block
      BY <1>1, <1>5, ElementOfSeq
    <2>. QED  BY <2>1 DEF Block
  <1>7. /\ top = NackTop(pos, blocks, i) /\ bottom = pos[i]
        /\ (top + 1) .. cum \subseteq filled
        /\ Runs <= limit => ((bottom + 1) .. top) \cap filled = {}
    <2>1. top = NackTop(pos, blocks, i)
      BY <1>3 DEF NackTop
    <2>2. pos[i] = NackTop(pos, blocks, i) - nack
      BY <1>3, <1>5 DEF Describes
    <2>3. bottom = pos[i]
      BY <2>1, <2>2
    <2>4. /\ (NackTop(pos, blocks, i) + 1) .. pos[i - 1] \subseteq filled
          /\ Runs <= limit => NackExact(pos, blocks, i)
      BY <1>3, <1>5 DEF Describes
    <2>. QED  BY <1>3, <2>1, <2>3, <2>4 DEF NackExact
  <1>8. bottom \in Nat
    BY <1>1, <1>3, <1>5, <1>7
  <1>9. top \in Nat /\ cum \in Nat /\ bottom <= top /\ top <= cum /\ (ack > 0 => top < cum)
    <2>1. cum \in Nat
      BY <1>1, <1>5
    <2>2. top = cum - ack /\ bottom = top - nack
      OBVIOUS
    <2>. HIDE DEF top, bottom, ack, nack
    <2>. QED  BY <1>6, <1>8, <2>1, <2>2
  <1>10. (i = 1 \/ i = n) => top < cum
    <2>1. blocks # <<>>
      BY <1>1, <1>5
    <2>2. i = 1 \/ i = n => ack > 0
      BY <1>3, <2>1 DEF Describes, LastExact
    <2>. QED  BY <1>9, <2>2
  <1>11. i = 1 => cum = RecvMax
    BY <1>3 DEF Describes
  <1>12. i = n => bottom = 0 /\ ((bottom + 1) .. top) \cap filled = {}
    <2>1. ASSUME i = n PROVE bottom = 0 /\ NackExact(pos, blocks, i)
      <3>1. blocks # <<>>
        BY <1>1, <1>5
      <3>. QED  BY <1>3, <1>5, <1>7, <2>1, <3>1 DEF LastExact
    <2>. QED  BY <1>7, <2>1 DEF NackExact
  <1>. HIDE DEF top, bottom, ack, nack
  <1>13. acked' \subseteq filled
    BY <1>2, <1>7 DEF GInv, SenderInv
  <1>14. acked' \cup nacked' = (bottom + 1) .. RecvMax
    <2>1. acked \cup nacked = (cum + 1) .. RecvMax
      BY DEF GInv, SenderInv
    <2>2. RecvMax \in Nat /\ cum <= RecvMax
      BY <1>1, <1>5
    <2>3. ((cum + 1) .. RecvMax) \cup ((top + 1) .. cum) \cup ((bottom + 1) .. top) = (bottom + 1) .. RecvMax
      BY <1>8, <1>9, <2>2, Adjacent
    <2>. QED  BY <1>2, <2>1, <2>3
  <1>15. Runs <= limit => nacked' \cap filled = {}
    BY <1>2, <1>7 DEF GInv, SenderInv
  <1>16. RecvMax \in acked'
    <2>1. CASE i = 1
      BY <1>2, <1>9, <1>10, <1>11, <2>1
    <2>2. CASE i # 1
      <3>1. i > 1
        BY <1>1, <1>5, <2>2
      <3>. QED  BY <1>2, <3>1 DEF GInv, SenderInv
    <2>. QED  BY <2>1, <2>2
  <1>17. i = n => Min(filled) \in acked'
    <2>1. SUFFICES ASSUME i = n PROVE Min(filled) \in acked'
      OBVIOUS
    <2>2. top + 1 \in (top + 1) .. cum
      BY <1>9, <1>10, <2>1
    <2>3. top + 1 \in filled
      BY <1>7, <2>2
    <2>4. filled \in SUBSET Nat /\ filled # {}
      BY <1>1, <2>3
    <2>5. Min(filled) \in filled /\ Min(filled) <= top + 1
      BY <2>3, <2>4, MinIsLeast
    <2> DEFINE m == Min(filled)
    <2>6. m \in filled /\ m <= top + 1 /\ m \in 2 .. MaxWindow
      BY <1>1, <2>5
    <2>. HIDE DEF m
    <2>7. m \notin (bottom + 1) .. top
      BY <1>12, <2>1, <2>6
    <2>8. m = top + 1
      BY <1>8, <1>9, <1>12, <2>1, <2>6, <2>7
    <2>. QED  BY <1>2, <2>2, <2>8 DEF m
  <1>18. SenderInv'
    <2>1. next' \in 1 .. n + 1 /\ (next' > n => i = n)
      BY <1>1, <1>2, <1>5
    <2>2. cum' \in 0 .. RecvMax
      BY <1>1, <1>2, <1>5, <1>8, <1>9
    <2>. QED  BY <1>2, <1>4, <1>13, <1>14, <1>15, <1>16, <1>17, <2>1, <2>2 DEF SenderInv
  <1>19. cum' = pos[next' - 1]
    <2>1. next' - 1 = i
      BY <1>2, <1>5
    <2>. QED  BY <1>2, <1>7, <2>1
  <1>. QED  BY <1>2, <1>3, <1>4, <1>5, <1>18, <1>19 DEF GInv

(* After the last block the sender has reached recvTop: nothing is left to *)
(* acknowledge below it.                                                   *)
LEMMA AtTheTop ==
  ASSUME GInv, next = Len(blocks) + 1, phase # "encode"
  PROVE  cum = 0
  <1>1. PICK pos : pos[Len(blocks)] = iterator /\ cum = pos[next - 1]
    BY DEF GInv
  <1>2. next - 1 = Len(blocks)
    BY WindowFacts
  <1>. QED  BY <1>1, <1>2 DEF GInv

(* The end of the sender's loop. *)
LEMMA DecodeEndOK == ASSUME GInv, DecodeEnd PROVE GInv'
  <1>1. /\ UNCHANGED <<filled, limit, iterator, blocks, next, cum, nacked>>
        /\ phase' = "done" /\ phase = "decode" /\ next > Len(blocks)
        /\ acked' = acked \cup (1 .. cum)
    BY DEF DecodeEnd
  <1>2. PICK pos \in [0 .. Len(blocks) -> 0 .. MaxWindow] :
           /\ Describes(pos, blocks) /\ LastExact(pos, blocks)
           /\ pos[Len(blocks)] = iterator /\ cum = pos[next - 1]
    BY DEF GInv
  <1>3. Describes(pos, blocks)' /\ LastExact(pos, blocks)' /\ WindowInv' /\ RecvMax' = RecvMax /\ Runs' = Runs
    BY <1>1, <1>2, SameMeaning DEF GInv
  <1>4. next = Len(blocks) + 1
    BY <1>1, WindowFacts DEF GInv, SenderInv
  <1>5. cum = 0
    BY <1>1, <1>4, AtTheTop
  <1>6. acked' = acked
    BY <1>1, <1>5
  <1>7. SenderInv'
    BY <1>1, <1>3, <1>6 DEF GInv, SenderInv
  <1>. QED  BY <1>1, <1>2, <1>3, <1>4, <1>7 DEF GInv

(* Before the first block nothing is described. *)
LEMMA InitOK == ASSUME Init PROVE GInv
  <1> DEFINE pos == [i \in 0 .. 0 |-> RecvMax]
  <1>1. /\ filled \subseteq 2 .. MaxWindow /\ limit \in BlockLimits /\ phase = "encode"
        /\ iterator = RecvMax /\ blocks = <<>> /\ next = 1 /\ cum = RecvMax
        /\ acked = {} /\ nacked = {}
    BY DEF Init
  <1>2. /\ RecvMax \in 0 .. MaxWindow /\ \A q \in filled : q <= RecvMax
        /\ filled # {} => RecvMax \in filled
        /\ filled = {} => RecvMax = 0
    BY <1>1, RecvMaxFacts
  <1>3. limit \in Nat /\ limit >= 2 /\ MaxWindow \in Nat
    BY <1>1, GapsAssumption
  <1>4. Len(blocks) = 0 /\ blocks \in Seq(Block)
    BY <1>1
  <1>5. RunStarts(RecvMax) = {}
    <2> DEFINE top == RecvMax
    <2>1. top \in Nat /\ \A q \in filled : q \in Nat /\ q <= top
      BY <1>1, <1>2, <1>3
    <2>. HIDE DEF top
    <2>2. \A q \in filled : ~(top < q)
      BY <2>1
    <2>. QED  BY <2>2 DEF RunStarts, top
  <1>6. Cardinality(RunStarts(RecvMax)) = 0
    BY <1>5, FS_EmptySet
  <1>7. WindowInv
    BY <1>1, <1>2, <1>3, <1>4, <1>6 DEF WindowInv
  <1>8. SenderInv
    BY <1>1, <1>2, <1>3, <1>4 DEF SenderInv
  <1>9. pos \in [0 .. Len(blocks) -> 0 .. MaxWindow] /\ pos[0] = RecvMax
    BY <1>2, <1>4
  <1>10. Describes(pos, blocks) /\ LastExact(pos, blocks)
    BY <1>1, <1>4, <1>9 DEF Describes, LastExact
  <1>11. pos[Len(blocks)] = iterator /\ cum = pos[next - 1]
    <2>1. next - 1 = 0
      BY <1>1
    <2>. QED  BY <1>1, <1>4, <1>9, <2>1
  <1>. QED  BY <1>1, <1>7, <1>8, <1>9, <1>10, <1>11 DEF GInv
-----------------------------------------------------------------------------
(* The blocks describe the window in every state, while they are written,  *)
(* merged and read.                                                        *)
THEOREM GapsInvariance == Spec => []GInv
  <1>1. ASSUME GInv, [Next]_vars PROVE GInv'
    <2>1. CASE Next
      BY <1>1, <2>1, EncodeBlockOK, EncodeEndOK, DecodeBlockOK, DecodeEndOK DEF Next
    <2>2. CASE UNCHANGED vars
      <3>1. UNCHANGED <<filled, limit, phase, iterator, blocks, next, cum, acked, nacked>>
        BY <2>2 DEF vars
      <3>2. PICK pos \in [0 .. Len(blocks) -> 0 .. MaxWindow] :
               /\ Describes(pos, blocks) /\ LastExact(pos, blocks)
               /\ pos[Len(blocks)] = iterator /\ cum = pos[next - 1]
        BY <1>1 DEF GInv
      <3>3. Describes(pos, blocks)' /\ LastExact(pos, blocks)' /\ WindowInv' /\ RecvMax' = RecvMax /\ Runs' = Runs
        BY <1>1, <3>1, <3>2, SameMeaning DEF GInv
      <3>4. SenderInv'
        BY <1>1, <3>1, <3>3 DEF GInv, SenderInv
      <3>. QED  BY <1>1, <3>1, <3>2, <3>3, <3>4 DEF GInv
    <2>. QED  BY <1>1, <2>1, <2>2
  <1>2. Init => GInv
    BY InitOK
  <1>3. GInv /\ [Next]_vars => GInv'
    BY <1>1
  <1>. QED  BY <1>2, <1>3, PTL DEF Spec

(* No missing segment is ever freed by nabto_stream_ack_block, however few *)
(* blocks the packet had room for.                                         *)
THEOREM AckMeansAck == Spec => []AckIsAck
  <1>1. GInv => AckIsAck
    BY DEF GInv, SenderInv, AckIsAck
  <1>. QED  BY <1>1, GapsInvariance, PTL

(* The merging in add_ack_extension keeps the blocks within maxGapBlocks.  *)
THEOREM BlocksFit == Spec => []FitsPacket
  <1>1. GInv => FitsPacket
    BY DEF GInv, WindowInv, FitsPacket
  <1>. QED  BY <1>1, GapsInvariance, PTL

(* Walking the blocks ends exactly at recvTop, and every missing segment   *)
(* has been handed to nabto_stream_nack_block.                             *)
THEOREM WalkReachesTop == Spec => []ReachesTop
  <1>1. ASSUME GInv, phase = "done" PROVE cum = 0 /\ (1 .. RecvMax) \ filled \subseteq nacked
    <2>1. cum = 0
      BY <1>1, AtTheTop DEF GInv
    <2>2. acked \cup nacked = (cum + 1) .. RecvMax /\ acked \subseteq filled
      BY <1>1 DEF GInv, SenderInv
    <2>3. (cum + 1) .. RecvMax = 1 .. RecvMax
      BY <2>1
    <2>. QED  BY <2>1, <2>2, <2>3
  <1>2. GInv => ReachesTop
    BY <1>1 DEF ReachesTop
  <1>. QED  BY <1>2, GapsInvariance, PTL

(* With room for a block per run nothing is retransmitted that has arrived *)
(* already.                                                                *)
THEOREM RoomMeansExact == Spec => []ExactWithRoom
  <1>1. ASSUME GInv, phase = "done", Runs <= limit PROVE nacked = (1 .. RecvMax) \ filled
    <2>1. cum = 0
      BY <1>1, AtTheTop DEF GInv
    <2>2. /\ acked \cup nacked = (cum + 1) .. RecvMax /\ acked \subseteq filled
          /\ nacked \cap filled = {}
      BY <1>1 DEF GInv, SenderInv
    <2>3. (cum + 1) .. RecvMax = 1 .. RecvMax
      BY <2>1
    <2>. QED  BY <2>2, <2>3
  <1>2. GInv => ExactWithRoom
    BY <1>1 DEF ExactWithRoom
  <1>. QED  BY <1>2, GapsInvariance, PTL

(* Merging never takes the newest or the oldest received segment out of    *)
(* what is acknowledged.                                                   *)
THEOREM EndsStayAcked == Spec => []NewestAndOldest
  <1>1. ASSUME GInv, phase = "done", filled # {} PROVE {Max(filled), Min(filled)} \subseteq acked
    <2>1. RecvMax = Max(filled) /\ RecvMax \in filled /\ filled \subseteq 2 .. MaxWindow
      BY <1>1, WindowFacts
    <2>2. next = Len(blocks) + 1 /\ iterator = 0
      BY <1>1 DEF GInv
    <2>3. blocks # <<>>
      BY <2>1, <2>2, <1>1 DEF GInv, WindowInv
    <2>4. Len(blocks) \in Nat /\ Len(blocks) # 0
      BY <1>1, <2>3, WindowFacts
    <2>5. next > 1 /\ next > Len(blocks)
      BY <2>2, <2>4
    <2>6. RecvMax \in acked /\ Min(filled) \in acked
      BY <1>1, <2>5 DEF GInv, SenderInv
    <2>. QED  BY <2>1, <2>6
  <1>2. GInv => NewestAndOldest
    BY <1>1 DEF NewestAndOldest
  <1>. QED  BY <1>2, GapsInvariance, PTL
=============================================================================
