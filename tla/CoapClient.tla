----------------------------- MODULE CoapClient -----------------------------
(***************************************************************************)
(* nabto_coap_client_impl.c: the requests of a client, one action per      *)
(* call of its owner, of the integrator's event loop and per packet kind.  *)
(*                                                                         *)
(* Time is left out: when a deadline passes is up to the composition.      *)
(* Malformed packets and failing allocations are left out, and every       *)
(* request has a timeout (configuredTimeoutMilliseconds is not 0).         *)
(***************************************************************************)
EXTENDS CoapMessages

CONSTANTS
  TypeOf,             \* CON or NON, for each request
  Observing,          \* the requests marked by request_observe
  BodyLen,            \* length of each request's payload
  ClientSzx,          \* block1Size of a new request
  MaxBlockNum,        \* NABTO_COAP_BLOCK_NUM_MAX
  MaxResponse,        \* settings.maxResponsePayload
  MaxRetransmits,     \* settings.maxRetransmits
  TooBig,             \* requests that do not fit the integrator's buffer
  Canceled,           \* requests their owner may cancel
  Leaving             \* observations their owner may deregister or free

(* Block sizes are at most 1024 bytes; the exponent 7 is reserved, and both *)
(* ends refuse it.                                                         *)
ASSUME ClientAssumption ==
  /\ TypeOf \in [Request -> {"CON", "NON"}]
  /\ Observing \subseteq Request /\ TooBig \subseteq Request /\ Canceled \subseteq Request
  /\ Leaving \subseteq Observing
  /\ BodyLen \in [Request -> Nat]
  /\ ClientSzx \in 0..6 /\ MaxBlockNum \in Nat /\ MaxResponse \in Nat
  /\ MaxRetransmits \in Nat

VARIABLES
  creq,        \* the client's requests
  cack, crst,  \* the ack and the rst to send, at most one of each
  cmid,        \* messageIdCounter
  cup,         \* connections the client has not lost
  ended,       \* how often the end handler was called for the last time
  plan         \* the requests the owner makes

clientVars == <<creq, cack, crst, cmid, cup, ended, plan>>

(* NEW and FREED are the states of a request that does not exist. *)
Waiting == {"WAIT_ACK", "WAIT_RESPONSE"}
Unfinished == {"IDLE", "SEND_REQUEST"} \cup Waiting
Exists(r) == creq[r].state \notin {"NEW", "FREED"}

NoResponse == [has |-> FALSE, code |-> "EMPTY", body |-> <<>>, obs |-> NoObserve]

NewRequest ==
  [ state |-> "NEW", mid |-> 0, retrans |-> 0, b1off |-> 0, b1size |-> ClientSzx,
    restarted |-> FALSE, b2 |-> NoBlock, dereg |-> FALSE, status |-> "OK", resp |-> NoResponse ]

InitClient(calls) ==
  /\ creq = [r \in Request |-> NewRequest]
  /\ cack = {} /\ crst = {}
  /\ cmid = 0
  /\ cup = {ConnOf[r] : r \in calls}
  /\ ended = [r \in Request |-> 0]
  /\ plan = calls

-----------------------------------------------------------------------------
(* The owner's calls. *)

New(r) ==
  /\ r \in plan /\ creq[r].state = "NEW"
  /\ \A s \in plan : s < r => creq[s].state # "NEW"
  /\ cmid' = cmid + 1
  /\ creq' = [creq EXCEPT ![r].state = "IDLE", ![r].mid = cmid + 1]
  /\ UNCHANGED <<cack, crst, cup, ended, plan, netVars>>

Send(r) ==
  /\ creq[r].state = "IDLE"
  /\ creq' = [creq EXCEPT ![r].state = "SEND_REQUEST"]
  /\ UNCHANGED <<cack, crst, cmid, cup, ended, plan, netVars>>

Finish(q, status) == [q EXCEPT !.state = "DONE_CALLBACK", !.status = status]

Cancel(r) ==
  /\ r \in Canceled
  /\ creq[r].state \in Waiting \cup {"SEND_REQUEST"}
  /\ creq' = [creq EXCEPT ![r] = Finish(@, "STOPPED")]
  /\ UNCHANGED <<cack, crst, cmid, cup, ended, plan, netVars>>

(* observe_deregister; only a request that waits for a response sends the  *)
(* deregistration as a packet of its own.                                  *)
Deregister(r) ==
  /\ r \in Leaving
  /\ Exists(r) /\ ~creq[r].dereg
  /\ \/ /\ creq[r].state = "WAIT_RESPONSE"
        /\ cmid' = cmid + 1
        /\ creq' = [creq EXCEPT ![r].dereg = TRUE, ![r].mid = cmid + 1, ![r].retrans = 0,
                                ![r].state = "SEND_REQUEST"]
     \/ /\ creq[r].state # "WAIT_RESPONSE"
        /\ creq' = [creq EXCEPT ![r].dereg = TRUE]
        /\ UNCHANGED cmid
  /\ UNCHANGED <<cack, crst, cup, ended, plan, netVars>>

(* The owner frees a request that has ended, or an observation at rest. *)
Free(r) ==
  /\ \/ creq[r].state = "DONE"
     \/ creq[r].state = "WAIT_RESPONSE" /\ creq[r].status = "OBSERVE_NOTIFICATION"
        /\ r \in Leaving
  /\ creq' = [creq EXCEPT ![r] = [NewRequest EXCEPT !.state = "FREED"]]
  /\ UNCHANGED <<cack, crst, cmid, cup, ended, plan, netVars>>

(* client_remove_connection; client_stop does the same on all connections. *)
RemoveClientConnection(c) ==
  /\ c \in cup \cap Breaks
  /\ cup' = cup \ {c}
  /\ creq' = [r \in Request |->
                IF ConnOf[r] = c /\ creq[r].state \in Unfinished
                  THEN Finish(creq[r], "STOPPED") ELSE creq[r]]
  /\ UNCHANGED <<cack, crst, cmid, ended, plan, netVars>>
-----------------------------------------------------------------------------
(* The event loop: get_next_event, create_packet, handle_callback and      *)
(* handle_timeout.                                                         *)

Due == {r \in Request : creq[r].state \in {"SEND_REQUEST", "DONE_CALLBACK"}}

(* The list of requests has the newest first; a newer one has a larger     *)
(* token.  The loops over the list act on the first request that fits.     *)
NextDue(r, state) ==
  /\ crst = {} /\ cack = {}
  /\ r \in Due /\ \A s \in Due : s <= r
  /\ creq[r].state = state

SendClientRst ==
  /\ \E m \in crst : Sends(m)
  /\ crst' = {}
  /\ UNCHANGED <<creq, cack, cmid, cup, ended, plan>>

SendClientAck ==
  /\ crst = {}
  /\ \E m \in cack : Sends(m)
  /\ cack' = {}
  /\ UNCHANGED <<creq, crst, cmid, cup, ended, plan>>

(* Mutant: whether more chunks follow is asked of the size of the start.   *)
PacketWithStaleSize(r) ==
  LET q == creq[r]
      size == Size(q.b1size)
      num == q.b1off \div size
  IN  [Message("server", TypeOf[r], "GET", q.mid, ConnOf[r], r) EXCEPT
         !.b2 = q.b2,
         !.b1 = [num |-> num, more |-> BodyLen[r] - q.b1off > Size(ClientSzx), szx |-> q.b1size],
         !.pay = BlockOf(Units(r, BodyLen[r]), num, q.b1size)]

(* request_create_packet.  No body goes with a request for a further block *)
(* of the response.                                                        *)
RequestPacket(r) ==
  LET q == creq[r]
      size == Size(q.b1size)
      carries == q.b2.num <= 0 /\ q.b1off < BodyLen[r]
      num == q.b1off \div size
  IN  [Message("server", TypeOf[r], "GET", q.mid, ConnOf[r], r) EXCEPT
         !.obs = IF r \in Observing THEN (IF q.dereg THEN 1 ELSE 0) ELSE NoObserve,
         !.b2 = q.b2,
         !.b1 = IF carries /\ BodyLen[r] > size
                  THEN [num |-> num, more |-> BodyLen[r] - q.b1off > size, szx |-> q.b1size]
                  ELSE NoBlock,
         !.pay = IF carries THEN BlockOf(Units(r, BodyLen[r]), num, q.b1size) ELSE <<>>]

SendRequest ==
  /\ \E r \in Request :
       /\ NextDue(r, "SEND_REQUEST")
       /\ \/ /\ r \notin TooBig
             /\ Sends(RequestPacket(r))
             /\ creq' = [creq EXCEPT ![r].state = IF TypeOf[r] = "NON" THEN "WAIT_RESPONSE"
                                                                      ELSE "WAIT_ACK"]
          \/ /\ r \in TooBig
             /\ creq' = [creq EXCEPT ![r] = Finish(@, "DECODE_ERROR")]
             /\ UNCHANGED netVars
  /\ UNCHANGED <<cack, crst, cmid, cup, ended, plan>>

(* handle_callback: a notification leaves the observation armed, anything  *)
(* else is the last call of the end handler.                               *)
Rearms(r) ==
  LET q == creq[r]
  IN  /\ r \in Observing /\ ~q.dereg
      /\ q.resp.has /\ q.resp.obs # NoObserve
      /\ q.status \notin {"STOPPED", "TIMEOUT", "RESET"}

HandleCallback ==
  /\ \E r \in Request :
       /\ NextDue(r, "DONE_CALLBACK")
       /\ \/ /\ Rearms(r)
             /\ creq' = [creq EXCEPT ![r].state = "WAIT_RESPONSE",
                                     ![r].status = "OBSERVE_NOTIFICATION"]
             /\ UNCHANGED ended
          \/ /\ ~Rearms(r)
             /\ creq' = [creq EXCEPT ![r].state = "DONE"]
             /\ ended' = [ended EXCEPT ![r] = @ + 1]
  /\ UNCHANGED <<cack, crst, cmid, cup, plan, netVars>>

(* Mutant: only the acknowledgement has a deadline. *)
NeedWaitForAck(r) == creq[r].state = "WAIT_ACK"

(* request_need_wait: an observation at rest has no timeout. *)
NeedWait(r) ==
  \/ creq[r].state = "WAIT_ACK"
  \/ creq[r].state = "WAIT_RESPONSE" /\ (r \in Observing => creq[r].dereg)

Retried(q) == [q EXCEPT !.state = "SEND_REQUEST", !.retrans = @ + 1]

(* Mutant: one retransmission too many. *)
TimeoutOnceMore(r) ==
  /\ NeedWait(r)
  /\ creq' = [creq EXCEPT ![r] =
                IF creq[r].state = "WAIT_ACK" /\ creq[r].retrans <= MaxRetransmits
                  THEN Retried(@) ELSE Finish(@, "TIMEOUT")]
  /\ UNCHANGED <<cack, crst, cmid, cup, ended, plan>>

HandleClientTimeout(r) ==
  /\ NeedWait(r)
  /\ creq' = [creq EXCEPT ![r] =
                IF creq[r].state = "WAIT_ACK" /\ creq[r].retrans < MaxRetransmits
                  THEN Retried(@) ELSE Finish(@, "TIMEOUT")]
  /\ UNCHANGED <<cack, crst, cmid, cup, ended, plan>>
-----------------------------------------------------------------------------
(* handle_packet. *)

(* handle_ack and handle_rst match by message id alone. *)
HandleAck(m) ==
  /\ m.type = "ACK" /\ m.code = "EMPTY"
  /\ Arrives(m)
  /\ creq' = [r \in Request |->
                IF creq[r].state = "WAIT_ACK" /\ creq[r].mid = m.mid /\ ConnOf[r] = m.conn
                  THEN [creq[r] EXCEPT !.state = "WAIT_RESPONSE"] ELSE creq[r]]
  /\ UNCHANGED <<cack, crst, cmid, cup, ended, plan>>

(* Mutant: a reset is taken in any state. *)
ResettableAlways(r) == Exists(r)

Resettable(r) ==
  \/ creq[r].state = "WAIT_ACK"
  \/ creq[r].state = "WAIT_RESPONSE" /\ TypeOf[r] = "NON"

HandleRst(m) ==
  /\ m.type = "RST"
  /\ Arrives(m)
  /\ creq' = [r \in Request |->
                IF Resettable(r) /\ creq[r].mid = m.mid /\ ConnOf[r] = m.conn
                  THEN Finish(creq[r], "RESET") ELSE creq[r]]
  /\ UNCHANGED <<cack, crst, cmid, cup, ended, plan>>

IsResponse(m) == m.type # "RST" /\ ~(m.type = "ACK" /\ m.code = "EMPTY")

(* No request with this token, or one that does not wait. *)
Unexpected(m) ==
  /\ IsResponse(m)
  /\ creq[m.token].state \notin Waiting
  /\ Arrives(m)
  /\ crst' = IF m.type \in {"CON", "NON"}
               THEN {EmptyMessage("server", "RST", m.mid, m.conn)} ELSE crst
  /\ UNCHANGED <<creq, cack, cmid, cup, ended, plan>>

(* The first lines of parse_and_handle_response: a message that is not a   *)
(* further block starts the response afresh.                               *)
Opened(q, m) ==
  LET further == Offset(m.b2) > 0
      keeps == q.resp.has /\ further
  IN  [q EXCEPT
         !.resp = [has |-> TRUE, code |-> m.code,
                   body |-> IF keeps THEN q.resp.body ELSE <<>>,
                   obs |-> IF m.obs = NoObserve /\ keeps THEN q.resp.obs ELSE m.obs],
         !.b2 = IF q.resp.has /\ ~further THEN NoBlock ELSE q.b2]

Held(q, m) == HasBlock(m.b2) /\ Offset(m.b2) < Len(q.resp.body)
Overlaps(q, m) == Offset(m.b2) + Len(m.pay) > Len(q.resp.body)

(* Mutant: a block is appended wherever it belongs. *)
MisplacedNever(q, m) == Len(q.resp.body) + Len(m.pay) > MaxResponse

Misplaced(q, m) ==
  \/ Len(q.resp.body) + Len(m.pay) > MaxResponse
  \/ /\ HasBlock(m.b2)
     /\ \/ Offset(m.b2) # Len(q.resp.body)
        \/ m.b2.more /\ Len(m.pay) # Size(m.b2.szx)

Stored(q, m) ==
  [q EXCEPT
     !.resp.body = @ \o m.pay,
     !.b2 = IF HasBlock(m.b2)
              THEN [num |-> m.b2.num + 1, more |-> FALSE, szx |-> m.b2.szx] ELSE @]

(* block1_adopt_size and block1_advance. *)
Adopts(r, q, szx) == szx < q.b1size /\ BodyLen[r] \div Size(szx) <= MaxBlockNum

Chunk(q) == q.b1off \div Size(q.b1size)

Advanced(r, q, b) ==
  [q EXCEPT
     !.b1off = IF BodyLen[r] - @ > Size(q.b1size) THEN @ + Size(q.b1size) ELSE BodyLen[r],
     !.b1size = IF Adopts(r, q, b.szx) THEN b.szx ELSE @]

SendAgain(q) == [q EXCEPT !.state = "SEND_REQUEST", !.mid = cmid + 1, !.retrans = 0]
Dropped(q) == [q EXCEPT !.resp = NoResponse]

(* What parse_and_handle_response leaves: the request and whether the      *)
(* message is acknowledged when it is confirmable.                         *)
Outcome(r, m) ==
  LET open == Opened(creq[r], m)
      q == Stored(open, m)
      acks == HasBlock(m.b1) /\ IsSuccess(m.code)
      restarts == /\ HasBlock(m.b1) /\ m.code = "TOO_LARGE"
                  /\ ~q.restarted /\ Adopts(r, q, m.b1.szx)
      next == IF acks THEN Advanced(r, q, m.b1) ELSE q
  IN  CASE Held(open, m) /\ Overlaps(open, m) -> [req |-> Dropped(open), ack |-> FALSE]
        [] Held(open, m) /\ ~Overlaps(open, m) -> [req |-> open, ack |-> TRUE]
        [] ~Held(open, m) /\ Misplaced(open, m) -> [req |-> Dropped(open), ack |-> FALSE]
        [] OTHER ->
           CASE restarts ->
                  [req |-> SendAgain([q EXCEPT !.b1size = m.b1.szx, !.b1off = 0,
                                               !.restarted = TRUE]),
                   ack |-> FALSE]
             [] acks /\ m.b1.num < Chunk(q) -> [req |-> q, ack |-> FALSE]
             [] acks /\ m.b1.num > Chunk(q) -> [req |-> Dropped(q), ack |-> FALSE]
             [] acks /\ m.b1.num = Chunk(q) /\ next.b1off < BodyLen[r] ->
                  [req |-> SendAgain(next), ack |-> FALSE]
             [] OTHER ->
                  [req |-> IF m.b2.more THEN SendAgain(next)
                                        ELSE [next EXCEPT !.state = "DONE_CALLBACK"],
                   ack |-> TRUE]

HandleResponse(m) ==
  /\ IsResponse(m)
  /\ creq[m.token].state \in Waiting
  /\ LET out == Outcome(m.token, m)
     IN  /\ creq' = [creq EXCEPT ![m.token] = out.req]
         /\ cmid' = IF out.req.state = "SEND_REQUEST" THEN cmid + 1 ELSE cmid
         /\ cack' = IF out.ack /\ Confirmable(m)
                      THEN {EmptyMessage("server", "ACK", m.mid, m.conn)} ELSE cack
  /\ Arrives(m)
  /\ UNCHANGED <<crst, cup, ended, plan>>

ClientHandles(m) == HandleAck(m) \/ HandleRst(m) \/ Unexpected(m) \/ HandleResponse(m)

ClientLoop == SendClientRst \/ SendClientAck \/ SendRequest \/ HandleCallback

ClientNext ==
  \/ \E r \in Request : New(r) \/ Send(r) \/ Cancel(r) \/ Deregister(r) \/ Free(r)
  \/ \E c \in Conn : RemoveClientConnection(c)
  \/ ClientLoop
  \/ \E m \in Arriving("client", cup) : ClientHandles(m)
=============================================================================
