---------------------------- MODULE CoapMessages ----------------------------
(***************************************************************************)
(* The messages of the coap component and the network between a client and *)
(* a server.  A message keeps the fields of nabto_coap_incoming_message    *)
(* that the two ends decide by: type, code, message id, token, the Block   *)
(* and Observe options and the payload.  Paths, content formats and the    *)
(* encoding are left out.                                                  *)
(*                                                                         *)
(* A payload is a sequence of units; a block of size exponent szx has      *)
(* 2^szx of them (16 * 2^szx bytes in the code).  The unit at place `at`   *)
(* of a response says from which version of the resource it was taken.     *)
(***************************************************************************)
EXTENDS Integers, Sequences, FiniteSets

CONSTANTS
  Request,     \* the requests of the client; a request's token is its name
  Conn,        \* connections
  ConnOf,      \* the connection of each request
  FaultKinds,  \* what may go wrong
  Breaks       \* connections that may be lost

ASSUME MessagesAssumption ==
  /\ Request \subseteq Nat \ {0}
  /\ ConnOf \in [Request -> Conn]
  /\ FaultKinds \subseteq {"lose", "delay", "copy"}
  /\ Breaks \subseteq Conn

VARIABLES
  net,         \* messages under way, in order, for each connection and direction
  late,        \* messages held back
  faults       \* bound on what else goes wrong

netVars == <<net, late, faults>>
Link == Conn \X {"client", "server"}

NoToken == 0
NoObserve == -1
NoBlock == [num |-> -1, more |-> FALSE, szx |-> 0]
HasBlock(b) == b.num >= 0

(* nabto_coap_block_size_from_szx and NABTO_COAP_BLOCK_OFFSET. *)
Size(szx) == 2 ^ szx
Offset(b) == b.num * Size(b.szx)

(* The part of a body that is its block `num` of size exponent szx. *)
BlockOf(body, num, szx) ==
  LET from == num * Size(szx)
      upto == IF from + Size(szx) < Len(body) THEN from + Size(szx) ELSE Len(body)
  IN  SubSeq(body, from + 1, upto)

Units(ver, n) == [i \in 1..n |-> [ver |-> ver, at |-> i]]

Message(to, type, code, mid, conn, token) ==
  [ to |-> to, type |-> type, code |-> code, mid |-> mid, conn |-> conn, token |-> token,
    b1 |-> NoBlock, b2 |-> NoBlock, obs |-> NoObserve, pay |-> <<>> ]

(* An empty ACK or RST: the message id is all that identifies it. *)
EmptyMessage(to, type, mid, conn) == Message(to, type, "EMPTY", mid, conn, NoToken)

IsSuccess(code) == code \in {"OK", "CONTINUE"}
Confirmable(m) == m.type = "CON"
-----------------------------------------------------------------------------
(***************************************************************************)
(* The network.  Messages arrive in the order they were sent, unless       *)
(* something goes wrong with one: it is lost, held back for any length of  *)
(* time, or copied, the copy being held back.                              *)
(***************************************************************************)
LinkOf(m) == <<m.conn, m.to>>

Sends(m) == net' = [net EXCEPT ![LinkOf(m)] = Append(@, m)] /\ UNCHANGED <<late, faults>>

(* The messages that may arrive next at one end. *)
Arriving(to, conns) ==
  {Head(net[l]) : l \in {<<c, to>> : c \in conns} \cap {k \in Link : net[k] # <<>>}}
    \cup {m \in late : m.to = to /\ m.conn \in conns}

OnTime(m) == net[LinkOf(m)] # <<>> /\ m = Head(net[LinkOf(m)])
Taking(m) == net' = [net EXCEPT ![LinkOf(m)] = Tail(@)]

Arrives(m) ==
  \/ OnTime(m) /\ Taking(m) /\ UNCHANGED <<late, faults>>
  \/ m \in late /\ late' = late \ {m} /\ UNCHANGED <<net, faults>>

Fault(kind) == kind \in FaultKinds /\ faults > 0 /\ faults' = faults - 1

Lose(m) == OnTime(m) /\ Fault("lose") /\ Taking(m) /\ UNCHANGED late
Delay(m) == OnTime(m) /\ Fault("delay") /\ Taking(m) /\ late' = late \cup {m}
Copy(m) == OnTime(m) /\ Fault("copy") /\ late' = late \cup {m} /\ UNCHANGED net

InitNet(bound) == net = [l \in Link |-> <<>>] /\ late = {} /\ faults = bound
=============================================================================
