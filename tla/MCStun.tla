------------------------------- MODULE MCStun -------------------------------
(***************************************************************************)
(* Instances of StunClient for TLC.  The primary socket alone decides the  *)
(* verdict on the mapping and the secondary one that on the filtering, so  *)
(* not every pair of behaviours is tried.                                  *)
(***************************************************************************)
EXTENDS StunClient

Alike == {[mapping |-> b, filtering |-> b, defect |-> FALSE] : b \in Behaviours}

Mixed == [mapping |-> "ADDR_DEPENDENT", filtering |-> "ADDR_DEPENDENT", defect |-> TRUE]
Guarded == [mapping |-> "INDEPENDENT", filtering |-> "PORT_DEPENDENT", defect |-> TRUE]
Strict == [mapping |-> "PORT_DEPENDENT", filtering |-> "PORT_DEPENDENT", defect |-> FALSE]
Open == [mapping |-> "INDEPENDENT", filtering |-> "INDEPENDENT", defect |-> FALSE]

World(n, s, w, a) == [mapping |-> n.mapping, filtering |-> n.filtering,
                      defect |-> n.defect, servers |-> s, network |-> w,
                      analyses |-> a]

MCWorlds ==
  {World(n, "full", "lossy", 1) : n \in Alike}
    \union {World(Mixed, "full", "lossy", 2), World(Guarded, "full", "lossy", 1)}
    \union {World(n, "full", "failing", 1) : n \in {Open, Strict}}
    \union {World(Open, s, "lossy", 1) : s \in {"plain", "old"}}
=============================================================================
