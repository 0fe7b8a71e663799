---------------------------- MODULE MCStreamPair ----------------------------
(* Constants of StreamPair for model checking. *)
EXTENDS StreamPair

AllZero == [e \in End |-> 0]
AllTwo == [e \in End |-> 2]
InitiatorWrites(n) == [e \in End |-> IF e = Initiator THEN n ELSE 0]
WriteOne == InitiatorWrites(1)
WriteTwo == InitiatorWrites(2)
WriteThree == InitiatorWrites(3)
=============================================================================
