--------------------------- MODULE StreamSeqProofs ---------------------------
(* The comparison of sequence numbers and logical timestamps is the order  *)
(* of the unwrapped numbers, for every word size.                          *)
EXTENDS StreamSeq, TLAPS

(* A number is its word and a multiple of the number of words. *)
LEMMA WrapDivision ==
  ASSUME NEW n \in Nat
  PROVE  /\ Wrap(n) \in 0 .. (Words - 1)
         /\ n \div Words \in Nat
         /\ n = Words * (n \div Words) + Wrap(n)
  <1>1. Words \in Nat \ {0}
    BY SeqAssumption DEF Words
  <1>. QED  BY <1>1 DEF Wrap

(* Two multiples of the number of words that are less than two words'      *)
(* range apart are neighbours or equal.                                    *)
LEMMA Neighbours ==
  ASSUME NEW k \in Nat, NEW j \in Nat, NEW M \in Nat \ {0},
         M * k - M * j < 2 * M, M * j - M * k < 2 * M
  PROVE  k = j \/ k = j + 1 \/ j = k + 1
  <1>1. ASSUME k >= j + 2 PROVE FALSE
    <2>1. PICK d \in Nat : k = j + 2 + d
      <3>1. k - (j + 2) \in Nat
        BY <1>1
      <3>. QED  BY <3>1
    <2>2. M * k = M * j + 2 * M + M * d
      BY <2>1
    <2>3. M * d >= 0
      OBVIOUS
    <2>4. M * k \in Int /\ M * j \in Int /\ M * d \in Int
      OBVIOUS
    <2>. QED  BY <2>2, <2>3, <2>4
  <1>2. ASSUME j >= k + 2 PROVE FALSE
    <2>1. PICK d \in Nat : j = k + 2 + d
      <3>1. j - (k + 2) \in Nat
        BY <1>2
      <3>. QED  BY <3>1
    <2>2. M * j = M * k + 2 * M + M * d
      BY <2>1
    <2>3. M * d >= 0
      OBVIOUS
    <2>4. M * k \in Int /\ M * j \in Int /\ M * d \in Int
      OBVIOUS
    <2>. QED  BY <2>2, <2>3, <2>4
  <1>. QED  BY <1>1, <1>2

(* The sign of the difference of two words is the order of the numbers     *)
(* they stand for, when those are less than half the words apart.          *)
LEMMA SerialOrder ==
  ASSUME NEW x \in Nat, NEW y \in Nat, x - y < Half, y - x < Half
  PROVE  /\ SequenceLess(Wrap(x), Wrap(y)) <=> x < y
         /\ Wrap(x) = Wrap(y) => x = y
  <1> DEFINE k == x \div Words
             j == y \div Words
             a == Wrap(x)
             b == Wrap(y)
  <1>1. Words \in Nat \ {0} /\ Half \in Nat /\ Words = 2 * Half
    BY SeqAssumption DEF Words
  <1>2. a \in 0 .. (Words - 1) /\ k \in Nat /\ x = Words * k + a
    BY WrapDivision
  <1>3. b \in 0 .. (Words - 1) /\ j \in Nat /\ y = Words * j + b
    BY WrapDivision
  <1>4. Words * k \in Int /\ Words * j \in Int
    BY <1>1, <1>2, <1>3
  <1> HIDE DEF k, j, a, b
  <1>5. Words * k - Words * j < 2 * Words /\ Words * j - Words * k < 2 * Words
    BY <1>1, <1>2, <1>3, <1>4
  <1>6. k = j \/ k = j + 1 \/ j = k + 1
    BY <1>1, <1>2, <1>3, <1>5, Neighbours
  <1>7. Words * k - Words * j = 0 \/ Words * k - Words * j = Words \/ Words * j - Words * k = Words
    <2>1. CASE k = j
      BY <2>1, <1>4
    <2>2. CASE k = j + 1
      <3>1. Words * k = Words * j + Words
        BY <2>2, <1>1, <1>2, <1>3
      <3>. QED  BY <3>1, <1>1, <1>4
    <2>3. CASE j = k + 1
      <3>1. Words * j = Words * k + Words
        BY <2>3, <1>1, <1>2, <1>3
      <3>. QED  BY <3>1, <1>1, <1>4
    <2>. QED  BY <1>6, <2>1, <2>2, <2>3
  <1>8. x - y = a - b \/ x - y = a - b + Words \/ x - y = a - b - Words
    BY <1>1, <1>2, <1>3, <1>4, <1>7
  <1>9. SequenceLess(a, b) <=> x < y
    BY <1>1, <1>2, <1>3, <1>8 DEF SequenceLess, Minus
  <1>10. a = b => x = y
    BY <1>1, <1>2, <1>3, <1>8
  <1>. QED  BY <1>9, <1>10 DEF a, b

(* The span of the numbers in use stays below half of the words. *)
THEOREM SpanInvariant == Spec => []SpanOK
  <1>1. Init => SpanOK
    BY SeqAssumption DEF Init, SpanOK
  <1>2. SpanOK /\ [Next]_<<low, high>> => SpanOK'
    BY SeqAssumption DEF SpanOK, Next, GiveOut, Forget
  <1>. QED  BY <1>1, <1>2, PTL DEF Spec

(* nabto_stream_sequence_less, _less_equal and _max agree with the order   *)
(* of the unwrapped numbers in use, for every word size.                   *)
THEOREM WrapOrderInvariant == Spec => []WrapOrder
  <1>1. SpanOK => WrapOrder
    <2> SUFFICES ASSUME SpanOK, NEW x \in InUse, NEW y \in InUse
                 PROVE  /\ SequenceLess(Wrap(x), Wrap(y)) <=> x < y
                        /\ SequenceLessEqual(Wrap(x), Wrap(y)) <=> x <= y
                        /\ SequenceMax(Wrap(x), Wrap(y)) = Wrap(IF x < y THEN y ELSE x)
      BY DEF WrapOrder
    <2>1. x \in Nat /\ y \in Nat /\ x - y < Half /\ y - x < Half
      BY SeqAssumption DEF SpanOK, InUse
    <2>2. /\ SequenceLess(Wrap(x), Wrap(y)) <=> x < y
          /\ Wrap(x) = Wrap(y) => x = y
      BY <2>1, SerialOrder
    <2>3. SequenceLessEqual(Wrap(x), Wrap(y)) <=> x <= y
      BY <2>1, <2>2 DEF SequenceLessEqual
    <2>4. SequenceMax(Wrap(x), Wrap(y)) = Wrap(IF x < y THEN y ELSE x)
      BY <2>2 DEF SequenceMax
    <2>. QED  BY <2>2, <2>3, <2>4
  <1>. QED  BY <1>1, SpanInvariant, PTL
=============================================================================
