------------------------------- MODULE MCCoap -------------------------------
(***************************************************************************)
(* Constants of CoapExchange for model checking.  Request 1 has a body and *)
(* a response in blocks, 2 and 3 are plain, 4 has no resource, 5 has a     *)
(* connection of its own, 6 and 7 have a critical option, 8 does not fit   *)
(* the send buffer; 9 to 13 observe: 10 may leave, 11 may also be removed, *)
(* 12 may be cancelled, and 13 has the connection that may be lost.        *)
(***************************************************************************)
EXTENDS CoapExchange

OnConnection == [r \in Request |-> IF r \in {5, 13} THEN "d" ELSE "c"]
Types == [r \in Request |-> IF r \in {3, 7, 9, 12, 13} THEN "NON" ELSE "CON"]
Bodies == [r \in Request |-> IF r = 1 THEN 3 ELSE 0]
Responses == [r \in Request |-> IF r = 1 THEN 2 ELSE 1]

Scenario(calls, server, troubles, changes) ==
  [calls |-> calls, peer |-> server, faults |-> troubles, updates |-> changes]

CallsAlone ==
  {Scenario(c, "own", 1, 0) : c \in {{1}, {2}, {3}, {4, 7}, {5}, {6}, {8}}}
    \cup {Scenario({2, 3}, "own", 0, 0), Scenario({1}, "other", 2, 0)}

(* One that stays, two that leave, and one that also is removed. *)
Observations ==
  {Scenario({9}, "own", 1, 2), Scenario({10}, "own", 0, 1),
   Scenario({11}, "own", 0, 1), Scenario({12}, "own", 1, 1), Scenario({13}, "own", 0, 1)}

Calls == CallsAlone \cup Observations

LateChunk == {Scenario({1}, "own", 1, 0)}

Changes == {Scenario({1}, "own", 1, 1)}
=============================================================================
