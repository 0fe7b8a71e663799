----------------------------- MODULE CoapServer -----------------------------
(***************************************************************************)
(* nabto_coap_server_impl.c and nabto_coap_server_impl_incoming.c: the     *)
(* requests and observers of a server, one action per call of the          *)
(* application, of the integrator's event loop and per packet kind.        *)
(*                                                                         *)
(* A request is found by its token and connection and created only when    *)
(* none is found, so the token names it.  The same holds for an observer.  *)
(* The two lists keep the order in which the send loop looks at them.      *)
(* Time is left out: when a deadline passes is up to the composition.      *)
(* Malformed packets, failing allocations, content formats and the         *)
(* removal of a resource are left out.                                     *)
(***************************************************************************)
EXTENDS CoapMessages

CONSTANTS
  Unrouted,            \* requests whose path has no resource
  Critical,            \* requests with a critical option the server does not know
  RespLen,             \* length of the application's response to each request
  ServerSzx,           \* block2Size of a new request
  MaxRequests,         \* nabto_coap_server_limit_requests
  MaxRequestPayload,   \* nabto_coap_server_limit_request_size
  MaxObservers,        \* nabto_coap_server_limit_observers
  ServerRetransmits,   \* NABTO_COAP_MAX_RETRANSMITS
  Removable            \* observers the application may remove

ASSUME ServerAssumption ==
  /\ Unrouted \subseteq Request /\ Critical \subseteq Request /\ Removable \subseteq Request
  /\ RespLen \in [Request -> Nat]
  /\ ServerSzx \in 0..6 /\ MaxRequests \in Nat /\ MaxRequestPayload \in Nat
  /\ MaxObservers \in Nat /\ ServerRetransmits \in Nat

VARIABLES
  sreq, sorder,       \* the requests, and their order in the list
  sobs, soorder,      \* the observers, and their order in the list
  serr, sack, srst,   \* the error, the ack and the rst to send, at most one of each
  smid,               \* messageId
  sup,                \* connections the server has not lost
  ver,                \* how often the resource has changed
  updates             \* bound on the notifications still to come

serverVars == <<sreq, sorder, sobs, soorder, serr, sack, srst, smid, sup, ver, updates>>
requestVars == <<sreq, sorder>>
observerVars == <<sobs, soorder>>
slots == <<serr, sack, srst>>

NoAnswer == [ code |-> "EMPTY", body |-> <<>>, cur |-> 0, szx |-> ServerSzx, mid |-> 0,
              sendNow |-> FALSE, waiting |-> FALSE, retrans |-> 0 ]

(* A request that is not in the list. *)
Absent ==
  [ state |-> "NONE", conn |-> FALSE, type |-> "CON", mid |-> 0, body |-> <<>>, b1 |-> NoBlock,
    continue |-> FALSE, b2req |-> NoBlock, freed |-> FALSE, isObs |-> FALSE,
    observer |-> FALSE, resp |-> NoAnswer ]

NoObserver ==
  [ on |-> FALSE, conn |-> FALSE, seq |-> 0, mid |-> 0, sendNow |-> FALSE, waiting |-> FALSE,
    retrans |-> 0, val |-> 0, pending |-> {} ]

InitServer(conns, bound) ==
  /\ sreq = [r \in Request |-> Absent] /\ sorder = <<>>
  /\ sobs = [r \in Request |-> NoObserver] /\ soorder = <<>>
  /\ serr = {} /\ sack = {} /\ srst = {}
  /\ smid = 0
  /\ sup = conns
  /\ ver = 0 /\ updates = bound

(* SelectSeq(list, LAMBDA r : r \notin gone), said without recursion: what *)
(* stays keeps its order.                                                  *)
Rank(stays, i) == Cardinality({j \in stays : j <= i})

Without(list, gone) ==
  LET stays == {i \in 1..Len(list) : list[i] \notin gone}
  IN  [n \in 1..Cardinality(stays) |-> list[CHOOSE i \in stays : Rank(stays, i) = n]]

(* The first of S in the list. *)
First(r, list, S) ==
  \E i \in 1..Len(list) : list[i] = r /\ \A j \in 1..(i - 1) : list[j] \notin S

(* free_request: both the application and the server must be done. *)
Settled(q) == IF q.freed /\ q.state = "DONE" THEN Absent ELSE q

SetRequests(new) ==
  /\ sreq' = [r \in Request |-> Settled(new[r])]
  /\ sorder' = Without(sorder, {r \in Request : Settled(new[r]).state = "NONE"})

SetRequest(r, q) == SetRequests([sreq EXCEPT ![r] = q])

Discarded(q) == [q EXCEPT !.state = "DONE", !.freed = TRUE]
Over(q) == [q EXCEPT !.state = "DONE"]

(* Mutant: the request keeps its observer. *)
ForgettingNothing(reqs, gone) == reqs

(* observer_free: the request that registered it forgets it. *)
Forgetting(reqs, gone) ==
  [r \in Request |-> IF r \in gone THEN [reqs[r] EXCEPT !.observer = FALSE] ELSE reqs[r]]

FreeObservers(gone) ==
  /\ sobs' = [r \in Request |-> IF r \in gone THEN NoObserver ELSE sobs[r]]
  /\ soorder' = Without(soorder, gone)

(* The slots keep what is already waiting to be sent. *)
Queue(slot, m) == IF slot = {} THEN {m} ELSE slot
Answers(r, m) == sreq[r].conn /\ ConnOf[r] = m.conn
-----------------------------------------------------------------------------
(* The application's calls. *)

(* response_ready; a block the request asked for is served first.          *)
Ready(q, answer) ==
  LET b == q.b2req
      szx == IF HasBlock(b) /\ b.szx < answer.szx THEN b.szx ELSE answer.szx
      past == HasBlock(b) /\ Offset(b) # 0 /\ Offset(b) >= Len(answer.body)
      served == IF past THEN [answer EXCEPT !.code = "BAD_REQUEST", !.body = <<>>, !.cur = 0]
                ELSE IF HasBlock(b) THEN [answer EXCEPT !.cur = Offset(b) \div Size(szx)]
                ELSE answer
  IN  IF q.conn
        THEN [q EXCEPT !.state = "RESPONSE", !.b2req = NoBlock,
                       !.resp = [served EXCEPT !.szx = szx, !.sendNow = TRUE]]
        ELSE Over(q)

Respond(r) ==
  /\ sreq[r].state = "USER"
  /\ SetRequest(r, Ready(sreq[r], [sreq[r].resp EXCEPT !.code = "OK",
                                                       !.body = Units(ver, RespLen[r])]))
  /\ UNCHANGED <<observerVars, slots, smid, sup, ver, updates, netVars>>

(* request_free: a request without a response is answered with 5.00. *)
FreeRequest(r) ==
  /\ sreq[r].state \in {"USER", "RESPONSE", "DONE"} /\ ~sreq[r].freed
  /\ SetRequest(r,
       LET q == sreq[r]
           failed == Ready([q EXCEPT !.b2req = NoBlock],
                           [q.resp EXCEPT !.code = "ERROR", !.body = <<>>])
       IN  [(IF q.state = "USER" THEN failed ELSE q) EXCEPT !.freed = TRUE])
  /\ UNCHANGED <<observerVars, slots, smid, sup, ver, updates, netVars>>

(* accept_observe.  Only a registration that replaces none is held to the  *)
(* limit.                                                                  *)
AcceptObserve(r) ==
  /\ sreq[r].state = "USER" /\ sreq[r].isObs /\ ~sreq[r].observer
  /\ sobs[r].on \/ Len(soorder) < MaxObservers
  /\ sobs' = [sobs EXCEPT ![r] = [NoObserver EXCEPT !.on = TRUE, !.conn = sreq[r].conn]]
  /\ soorder' = <<r>> \o Without(soorder, {r})
  /\ sreq' = [sreq EXCEPT ![r].observer = TRUE]
  /\ UNCHANGED <<sorder, slots, smid, sup, ver, updates, netVars>>

(* A notification that takes over as the current one. *)
Current(o, v, mid) ==
  [o EXCEPT !.seq = @ + 1, !.val = v, !.mid = mid, !.retrans = 0, !.sendNow = TRUE]

(* The message ids of the observers that are not waiting, in list order. *)
NextMid(r) ==
  smid + Cardinality({i \in 1..Len(soorder) :
                        /\ ~sobs[soorder[i]].waiting
                        /\ \E j \in i..Len(soorder) : soorder[j] = r})

(* resource_notify *)
Notified(r) ==
  LET o == sobs[r]
  IN  CASE o.on /\ o.waiting -> [o EXCEPT !.pending = {ver + 1}]
        [] o.on /\ ~o.waiting -> Current(o, ver + 1, NextMid(r))
        [] OTHER -> o

Notify ==
  /\ updates > 0 /\ updates' = updates - 1
  /\ ver' = ver + 1
  /\ sobs' = [r \in Request |-> Notified(r)]
  /\ smid' = smid + Cardinality({r \in Request : sobs[r].on /\ ~sobs[r].waiting})
  /\ UNCHANGED <<requestVars, soorder, slots, sup, netVars>>

RemoveObserver(r) ==
  /\ r \in Removable /\ sobs[r].on
  /\ FreeObservers({r})
  /\ sreq' = Forgetting(sreq, {r})
  /\ UNCHANGED <<sorder, slots, smid, sup, ver, updates, netVars>>

(* server_remove_connection: a request with the application is finished    *)
(* when its response is ready.                                             *)
RemoveServerConnection(c) ==
  LET gone == {r \in Request : sobs[r].on /\ sobs[r].conn /\ ConnOf[r] = c}
      left(r) ==
        LET q == sreq[r]
        IN  CASE q.state = "REQUEST" -> Discarded(q)
              [] q.state = "RESPONSE" -> Over(q)
              [] OTHER -> [q EXCEPT !.conn = FALSE]
  IN  /\ c \in sup \cap Breaks
      /\ sup' = sup \ {c}
      /\ FreeObservers(gone)
      /\ SetRequests(Forgetting([r \in Request |->
                       IF sreq[r].conn /\ ConnOf[r] = c THEN left(r) ELSE sreq[r]], gone))
      /\ serr' = {m \in serr : m.conn # c}
      /\ sack' = {m \in sack : m.conn # c}
      /\ srst' = {m \in srst : m.conn # c}
      /\ UNCHANGED <<smid, ver, updates, netVars>>
-----------------------------------------------------------------------------
(* The event loop: handle_send and handle_timeout. *)

SendError ==
  /\ \E m \in serr : Sends(m)
  /\ serr' = {}
  /\ UNCHANGED <<requestVars, observerVars, sack, srst, smid, sup, ver, updates>>

SendAck ==
  /\ serr = {}
  /\ \E m \in sack : Sends(m)
  /\ sack' = {}
  /\ UNCHANGED <<requestVars, observerVars, serr, srst, smid, sup, ver, updates>>

SendRst ==
  /\ serr = {} /\ sack = {}
  /\ \E m \in srst : Sends(m)
  /\ srst' = {}
  /\ UNCHANGED <<requestVars, observerVars, serr, sack, smid, sup, ver, updates>>

Continues(r) == sreq[r].state \in {"REQUEST", "USER"} /\ sreq[r].continue
Responds(r) == sreq[r].state = "RESPONSE" /\ sreq[r].resp.sendNow
SendingRequests == {r \in Request : Continues(r) \/ Responds(r)}
SendingObservers == {r \in Request : sobs[r].on /\ sobs[r].sendNow}

(* What is sent on a connection the server has lost goes nowhere. *)
SendsOn(up, m) == IF up THEN Sends(m) ELSE UNCHANGED netVars

ContinuePacket(r) ==
  [Message("client", "ACK", "CONTINUE", sreq[r].mid, ConnOf[r], r) EXCEPT !.b1 = sreq[r].b1]

SendContinue ==
  /\ serr = {} /\ sack = {} /\ srst = {}
  /\ \E r \in SendingRequests :
       /\ First(r, sorder, SendingRequests) /\ Continues(r)
       /\ SendsOn(sreq[r].conn, ContinuePacket(r))
       /\ sreq' = [sreq EXCEPT ![r].continue = FALSE]
  /\ UNCHANGED <<sorder, observerVars, slots, smid, sup, ver, updates>>

ResponsePacket(r) ==
  LET p == sreq[r].resp
      size == Size(p.szx)
      at == p.cur * size
  IN  [Message("client", sreq[r].type, p.code, p.mid, ConnOf[r], r) EXCEPT
         !.obs = IF sreq[r].observer THEN sobs[r].seq ELSE NoObserve,
         !.b2 = IF Len(p.body) > size
                  THEN [num |-> p.cur, more |-> Len(p.body) - at > size, szx |-> p.szx]
                  ELSE NoBlock,
         !.b1 = IF at = 0 THEN sreq[r].b1 ELSE NoBlock,
         !.pay = BlockOf(p.body, p.cur, p.szx)]

(* A NON is never retransmitted: its count expires it. *)
SendResponse ==
  /\ serr = {} /\ sack = {} /\ srst = {}
  /\ \E r \in SendingRequests :
       /\ First(r, sorder, SendingRequests) /\ Responds(r)
       /\ Sends(ResponsePacket(r))
       /\ LET step == IF sreq[r].type = "NON" THEN ServerRetransmits + 2 ELSE 1
          IN  sreq' = [sreq EXCEPT ![r].resp.waiting = TRUE, ![r].resp.sendNow = FALSE,
                                   ![r].resp.retrans = @ + step]
  /\ UNCHANGED <<sorder, observerVars, slots, smid, sup, ver, updates>>

NotificationPacket(r) ==
  [Message("client", "CON", "OK", sobs[r].mid, ConnOf[r], r) EXCEPT
     !.obs = sobs[r].seq, !.pay = Units(sobs[r].val, RespLen[r])]

SendNotification ==
  /\ serr = {} /\ sack = {} /\ srst = {}
  /\ SendingRequests = {}
  /\ \E r \in SendingObservers :
       /\ First(r, soorder, SendingObservers)
       /\ SendsOn(sobs[r].conn, NotificationPacket(r))
       /\ sobs' = [sobs EXCEPT ![r].sendNow = FALSE, ![r].waiting = TRUE,
                               ![r].retrans = @ + 1]
  /\ UNCHANGED <<requestVars, soorder, slots, smid, sup, ver, updates>>

(* Mutant: a client that asks for no further block is waited for. *)
ExpireUnlessAcked(r) ==
  /\ \/ sreq[r].state = "REQUEST" /\ SetRequest(r, Discarded(sreq[r]))
     \/ /\ sreq[r].state = "RESPONSE" /\ sreq[r].resp.waiting
        /\ SetRequest(r, IF sreq[r].resp.retrans > ServerRetransmits
                           THEN Over(sreq[r])
                           ELSE [sreq[r] EXCEPT !.resp.sendNow = TRUE])
  /\ UNCHANGED <<observerVars, slots, smid, sup, ver, updates>>

(* The transfer deadline of a request being received, the retransmission   *)
(* deadline of a response, or the deadline for asking for the next block.  *)
ExpireRequest(r) ==
  /\ \/ /\ sreq[r].state = "REQUEST"
        /\ SetRequest(r, Discarded(sreq[r]))
     \/ /\ sreq[r].state = "RESPONSE" /\ sreq[r].resp.waiting
        /\ SetRequest(r, IF sreq[r].resp.retrans > ServerRetransmits
                           THEN Over(sreq[r])
                           ELSE [sreq[r] EXCEPT !.resp.sendNow = TRUE])
     \/ /\ sreq[r].state = "RESPONSE" /\ ~sreq[r].resp.waiting /\ ~sreq[r].resp.sendNow
        /\ SetRequest(r, Over(sreq[r]))
  /\ UNCHANGED <<observerVars, slots, smid, sup, ver, updates>>

(* Mutant: the notification is given up, and not the observer. *)
ExpireIntoSilence(r) ==
  /\ sobs[r].on /\ sobs[r].waiting
  /\ sobs' = [sobs EXCEPT ![r].waiting = FALSE]
  /\ UNCHANGED <<requestVars, soorder, slots, smid, sup, ver, updates>>

ExpireNotification(r) ==
  /\ sobs[r].on /\ sobs[r].waiting
  /\ \/ /\ sobs[r].retrans > ServerRetransmits
        /\ FreeObservers({r})
        /\ sreq' = Forgetting(sreq, {r})
     \/ /\ sobs[r].retrans <= ServerRetransmits
        /\ sobs' = [sobs EXCEPT ![r].waiting = FALSE, ![r].sendNow = TRUE]
        /\ UNCHANGED <<sreq, soorder>>
  /\ UNCHANGED <<sorder, slots, smid, sup, ver, updates>>
-----------------------------------------------------------------------------
(* handle_packet. *)

Asks(m) == m.type \in {"CON", "NON"} /\ m.token \notin Critical
Found(m) == sreq[m.token].state # "NONE" /\ Answers(m.token, m)
AckFor(m) == EmptyMessage("client", "ACK", m.mid, m.conn)

(* make_error_response; `mid` is the last message id in use. *)
MakeError(m, code, mid) ==
  LET new == serr = {} /\ ~Confirmable(m)
  IN  /\ serr' = Queue(serr, [Message("client", "ACK", code, m.mid, m.conn, m.token) EXCEPT
                                !.type = IF Confirmable(m) THEN "ACK" ELSE "NON",
                                !.mid = IF Confirmable(m) THEN @ ELSE mid + 1])
      /\ smid' = IF new THEN mid + 1 ELSE mid

(* validate_critical_options fails. *)
BadOption(m) ==
  /\ m.type \in {"CON", "NON"} /\ m.token \in Critical
  /\ Arrives(m)
  /\ \/ Confirmable(m) /\ MakeError(m, "BAD_OPTION", smid) /\ UNCHANGED srst
     \/ /\ ~Confirmable(m)
        /\ srst' = Queue(srst, EmptyMessage("client", "RST", m.mid, m.conn))
        /\ UNCHANGED <<serr, smid>>
  /\ UNCHANGED <<requestVars, observerVars, sack, sup, ver, updates>>

(* A copy of the latest message of a request. *)
Duplicate(m) ==
  /\ Asks(m) /\ Found(m) /\ sreq[m.token].mid = m.mid
  /\ Arrives(m)
  /\ \/ /\ Confirmable(m) /\ sreq[m.token].state = "REQUEST" /\ sreq[m.token].b1.more
        /\ sreq' = [sreq EXCEPT ![m.token].continue = TRUE]
        /\ UNCHANGED sack
     \/ /\ Confirmable(m) /\ ~(sreq[m.token].state = "REQUEST" /\ sreq[m.token].b1.more)
        /\ sack' = Queue(sack, AckFor(m))
        /\ UNCHANGED sreq
     \/ ~Confirmable(m) /\ UNCHANGED <<sreq, sack>>
  /\ UNCHANGED <<sorder, observerVars, serr, srst, smid, sup, ver, updates>>

(* Mutant: the place of a chunk is not looked at. *)
RefusalWithoutOffset(q, m) ==
  IF Len(q.body) + Len(m.pay) > MaxRequestPayload THEN "TOO_LARGE"
  ELSE IF HasBlock(m.b1) /\ m.b1.more /\ Len(m.pay) # Size(m.b1.szx) THEN "BAD_REQUEST"
  ELSE "NONE"

(* Why handle_data_for_request refuses a message. *)
Refusal(q, m) ==
  IF Len(q.body) + Len(m.pay) > MaxRequestPayload THEN "TOO_LARGE"
  ELSE IF HasBlock(m.b1) /\ Offset(m.b1) # Len(q.body) THEN "INCOMPLETE"
  ELSE IF HasBlock(m.b1) /\ m.b1.more /\ Len(m.pay) # Size(m.b1.szx) THEN "BAD_REQUEST"
  ELSE "NONE"

(* The last chunk hands the request to the resource's handler. *)
Taken(q, m) ==
  LET more == HasBlock(m.b1) /\ m.b1.more
      new == IF HasBlock(m.b1)
               THEN [q EXCEPT !.b1 = m.b1, !.mid = m.mid, !.body = @ \o m.pay,
                              !.continue = @ \/ more]
               ELSE [q EXCEPT !.body = IF m.pay = <<>> THEN @ ELSE m.pay]
  IN  [new EXCEPT !.b2req = IF HasBlock(m.b2) THEN m.b2 ELSE @,
                  !.state = IF more THEN "REQUEST" ELSE "USER"]

(* handle_data_for_request, on the requests as `reqs`. *)
Data(reqs, m, mid) ==
  LET q == reqs[m.token]
  IN  \/ /\ Refusal(q, m) # "NONE"
         /\ SetRequests([reqs EXCEPT ![m.token] = Discarded(q)])
         /\ MakeError(m, Refusal(q, m), mid)
         /\ UNCHANGED sack
      \/ /\ Refusal(q, m) = "NONE"
         /\ sreq' = [reqs EXCEPT ![m.token] = Taken(q, m)]
         /\ sorder' = IF sreq[m.token].state = "NONE" THEN <<m.token>> \o sorder ELSE sorder
         /\ sack' = IF Confirmable(m) /\ ~Taken(q, m).continue
                      THEN Queue(sack, AckFor(m)) ELSE sack
         /\ smid' = mid
         /\ UNCHANGED serr

(* handle_new_request.  A GET with Observe 1 ends the observation. *)
NewServerRequest(m) ==
  LET ends == {r \in {m.token} : m.obs = 1 /\ sobs[r].on /\ sobs[r].conn}
      q == [Absent EXCEPT !.state = "REQUEST", !.conn = TRUE, !.type = m.type, !.mid = m.mid,
                          !.isObs = m.obs = 0, !.resp.mid = smid + 1]
  IN  /\ m.token \notin Unrouted /\ Len(sorder) < MaxRequests
      /\ FreeObservers(ends)
      /\ Data([Forgetting(sreq, ends) EXCEPT ![m.token] = q], m, smid + 1)

NoRoom(m) ==
  /\ m.token \in Unrouted \/ Len(sorder) >= MaxRequests
  /\ MakeError(m, IF m.token \in Unrouted THEN "NOT_FOUND" ELSE "UNAVAILABLE", smid)
  /\ UNCHANGED <<requestVars, observerVars, sack>>

FirstMessage(m) ==
  /\ Asks(m) /\ ~Found(m)
  /\ Arrives(m)
  /\ NewServerRequest(m) \/ NoRoom(m)
  /\ UNCHANGED <<srst, sup, ver, updates>>

FurtherMessage(m) ==
  /\ Asks(m) /\ Found(m) /\ sreq[m.token].mid # m.mid
  /\ sreq[m.token].state = "REQUEST"
  /\ Arrives(m)
  /\ Data(sreq, m, smid)
  /\ UNCHANGED <<observerVars, srst, sup, ver, updates>>

(* handle_data_for_response *)
NextBlock(m) ==
  LET q == sreq[m.token]
      bad == Offset(m.b2) # 0 /\ Offset(m.b2) >= Len(q.resp.body)
  IN  /\ Asks(m) /\ Found(m) /\ q.mid # m.mid
      /\ q.state = "RESPONSE" /\ HasBlock(m.b2)
      /\ Arrives(m)
      /\ \/ /\ bad
            /\ SetRequest(m.token, Over(q))
            /\ MakeError(m, "BAD_REQUEST", smid)
            /\ UNCHANGED sack
         \/ /\ ~bad
            /\ SetRequest(m.token,
                 [q EXCEPT !.mid = m.mid,
                           !.resp = [@ EXCEPT !.cur = m.b2.num, !.szx = m.b2.szx,
                                              !.mid = smid + 1, !.sendNow = TRUE,
                                              !.waiting = FALSE, !.retrans = 0]])
            /\ smid' = smid + 1
            /\ sack' = IF Confirmable(m) THEN Queue(sack, AckFor(m)) ELSE sack
            /\ UNCHANGED serr
      /\ UNCHANGED <<observerVars, srst, sup, ver, updates>>

(* Nothing is done with a message in the other states, or with one that    *)
(* asks for no block of the response.                                      *)
Ignored(m) ==
  /\ Asks(m) /\ Found(m) /\ sreq[m.token].mid # m.mid
  /\ \/ sreq[m.token].state \in {"USER", "DONE"}
     \/ sreq[m.token].state = "RESPONSE" /\ ~HasBlock(m.b2)
  /\ Arrives(m)
  /\ UNCHANGED serverVars

(* response_in_flight and observer_notification_in_flight. *)
InFlight(r, m) ==
  /\ sreq[r].state = "RESPONSE" /\ sreq[r].resp.waiting
  /\ Answers(r, m) /\ sreq[r].resp.mid = m.mid

NotificationInFlight(r, m) ==
  /\ sobs[r].on /\ (sobs[r].waiting \/ (sobs[r].sendNow /\ sobs[r].retrans > 0))
  /\ sobs[r].conn /\ ConnOf[r] = m.conn /\ sobs[r].mid = m.mid

Matched(m) == {r \in Request : InFlight(r, m)}
MatchedObserver(m) == {r \in Request : NotificationInFlight(r, m)}

(* Mutant: the block after the acknowledged one counts as well. *)
LastBlockEarly(p) == (p.cur + 2) * Size(p.szx) >= Len(p.body)

(* The acknowledgement of the last block ends the request. *)
LastBlock(p) == (p.cur + 1) * Size(p.szx) >= Len(p.body)

AckResponse(m) ==
  /\ m.type = "ACK"
  /\ \E r \in Matched(m) :
       LET q == [sreq[r] EXCEPT !.resp.waiting = FALSE]
       IN  SetRequest(r, IF LastBlock(q.resp) THEN Over(q) ELSE [q EXCEPT !.resp.retrans = 0])
  /\ Arrives(m)
  /\ UNCHANGED <<observerVars, slots, smid, sup, ver, updates>>

(* Mutant: the slot is left alone. *)
PromotedNever(o) == [o EXCEPT !.sendNow = FALSE, !.waiting = FALSE]

(* An update that waited for the acknowledgement is sent now. *)
Promoted(o) ==
  LET idle == [o EXCEPT !.sendNow = FALSE, !.waiting = FALSE]
  IN  IF o.pending = {} THEN idle
      ELSE [Current(idle, CHOOSE v \in o.pending : TRUE, smid + 1) EXCEPT !.pending = {}]

AckNotification(m) ==
  /\ m.type = "ACK" /\ Matched(m) = {}
  /\ \E r \in MatchedObserver(m) :
       /\ sobs' = [sobs EXCEPT ![r] = Promoted(@)]
       /\ smid' = IF sobs[r].pending = {} THEN smid ELSE smid + 1
  /\ Arrives(m)
  /\ UNCHANGED <<requestVars, soorder, slots, sup, ver, updates>>

ResetResponse(m) ==
  /\ m.type = "RST"
  /\ \E r \in Matched(m) : SetRequest(r, Over(sreq[r]))
  /\ Arrives(m)
  /\ UNCHANGED <<observerVars, slots, smid, sup, ver, updates>>

ResetNotification(m) ==
  /\ m.type = "RST" /\ Matched(m) = {}
  /\ \E r \in MatchedObserver(m) : FreeObservers({r}) /\ sreq' = Forgetting(sreq, {r})
  /\ Arrives(m)
  /\ UNCHANGED <<sorder, slots, smid, sup, ver, updates>>

Unmatched(m) ==
  /\ m.type \in {"ACK", "RST"} /\ Matched(m) = {} /\ MatchedObserver(m) = {}
  /\ Arrives(m)
  /\ UNCHANGED serverVars

ServerHandles(m) ==
  \/ BadOption(m) \/ Duplicate(m) \/ FirstMessage(m) \/ FurtherMessage(m)
  \/ NextBlock(m) \/ Ignored(m)
  \/ AckResponse(m) \/ AckNotification(m) \/ ResetResponse(m) \/ ResetNotification(m)
  \/ Unmatched(m)

ServerLoop == SendError \/ SendAck \/ SendRst \/ SendContinue \/ SendResponse \/ SendNotification

ServerNext ==
  \/ \E r \in Request : \/ Respond(r) \/ FreeRequest(r) \/ AcceptObserve(r)
                        \/ RemoveObserver(r)
  \/ \E c \in Conn : RemoveServerConnection(c)
  \/ Notify
  \/ ServerLoop
  \/ \E m \in Arriving("server", sup) : ServerHandles(m)
=============================================================================
