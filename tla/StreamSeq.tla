------------------------------ MODULE StreamSeq ------------------------------
(***************************************************************************)
(* Sequence numbers and logical timestamps are unsigned words of the       *)
(* protocol that wrap around and are compared by the sign of their         *)
(* difference.  StreamPair uses the unwrapped integers; this module says   *)
(* when that is right: as long as the numbers in use span less than half   *)
(* of the words.                                                           *)
(*                                                                         *)
(* low and high are the unwrapped bounds of the numbers in use, the oldest *)
(* one somebody still refers to and the newest one given out.              *)
(***************************************************************************)
EXTENDS Integers

CONSTANTS
  Half,      \* 2^31: half the number of words
  MaxHigh    \* bound: numbers given out

ASSUME SeqAssumption == Half \in Nat \ {0} /\ MaxHigh \in Nat

Words == 2 * Half

(* The word that represents an unwrapped number. *)
Wrap(n) == n % Words

(* The unsigned difference of two words. *)
Minus(a, b) == IF b <= a THEN a - b ELSE a - b + Words

(* Faulty variant: the words are compared as numbers. *)
PlainLess(a, b) == a < b

(* nabto_stream_sequence_less and nabto_stream_logical_stamp_less: the     *)
(* difference is negative as a signed word.                                *)
SequenceLess(a, b) == Half <= Minus(a, b)

(* nabto_stream_sequence_less_equal, nabto_stream_logical_stamp_less_or_equal. *)
SequenceLessEqual(a, b) == SequenceLess(a, b) \/ a = b

(* nabto_stream_sequence_max. *)
SequenceMax(a, b) == IF SequenceLess(a, b) THEN b ELSE a

VARIABLES low, high

InUse == low .. high

Init == low = 0 /\ high = 0

(* logicalTimestamp++, xmitMaxAllocated++: the span of the numbers in use  *)
(* is limited by the flight and the receive window, which stay below Half. *)
GiveOut ==
  /\ high < MaxHigh
  /\ high + 1 - low < Half
  /\ high' = high + 1
  /\ low' = low

(* The oldest number is acknowledged, read or superseded. *)
Forget ==
  /\ low < high
  /\ low' = low + 1
  /\ high' = high

Next == GiveOut \/ Forget

Spec == Init /\ [][Next]_<<low, high>>

(* The type and the span of the numbers in use. *)
SpanOK ==
  /\ low \in Nat /\ high \in Nat
  /\ low <= high
  /\ high - low < Half

(* The comparisons of the code decide the order of the numbers in use, and *)
(* its maximum is their maximum, across every wrap around.                 *)
WrapOrder ==
  \A x \in InUse, y \in InUse :
    /\ SequenceLess(Wrap(x), Wrap(y)) <=> x < y
    /\ SequenceLessEqual(Wrap(x), Wrap(y)) <=> x <= y
    /\ SequenceMax(Wrap(x), Wrap(y)) = Wrap(IF x < y THEN y ELSE x)
=============================================================================
