---------------------------- MODULE CoapExchange ----------------------------
(***************************************************************************)
(* A coap client and a coap server of this repository, the application     *)
(* behind the server, and the network between them.  The client may have   *)
(* another server for a peer instead.                                      *)
(***************************************************************************)
EXTENDS CoapClient, CoapServer, CoapOther

CONSTANT
  Scenarios    \* the requests made, the peer, and bounds on faults and updates

(* The other server keeps what it has of one request only.                 *)
ASSUME ScenariosAssumption ==
  /\ Scenarios \subseteq
       [calls : SUBSET Request, peer : {"own", "other"}, faults : Nat, updates : Nat]
  /\ \A s \in Scenarios : s.peer = "other" => \A q, r \in s.calls : q = r

VARIABLES
  peer,        \* the server at the other end
  handled      \* history: the requests the resource's handler has been given

vars == <<clientVars, serverVars, netVars, other, peer, handled>>

Init ==
  \E s \in Scenarios :
    /\ InitClient(s.calls) /\ InitServer({ConnOf[r] : r \in s.calls}, s.updates)
    /\ InitNet(s.faults) /\ InitOther
    /\ peer = s.peer /\ handled = {}

InClient(A) == A /\ UNCHANGED <<serverVars, other, peer>>
InServer(A) == peer = "own" /\ A /\ UNCHANGED <<clientVars, other, peer>>
InOther(A) == peer = "other" /\ A /\ UNCHANGED <<clientVars, serverVars, peer>>

(* Deadlines are seconds and the event loops run in between: one passes    *)
(* while nothing but a message held back is under way or waits to be sent. *)
Idle ==
  /\ \A l \in Link : net[l] = <<>>
  /\ cack = {} /\ crst = {} /\ Due = {}
  /\ serr = {} /\ sack = {} /\ srst = {} /\ SendingRequests = {} /\ SendingObservers = {}

ClientTimer(r) == Idle /\ InClient(HandleClientTimeout(r) /\ UNCHANGED netVars)
ServerTimer(r) ==
  Idle /\ InServer((ExpireRequest(r) \/ ExpireNotification(r)) /\ UNCHANGED netVars)

OnTimeFor(to, conns) == {m \in Arriving(to, conns) : OnTime(m)}

Trouble ==
  /\ \E m \in OnTimeFor("client", Conn) \cup OnTimeFor("server", Conn) :
       Lose(m) \/ Delay(m) \/ Copy(m)
  /\ UNCHANGED <<clientVars, serverVars, other, peer>>

(* A message for an end that has lost the connection goes nowhere. *)
Undeliverable ==
  /\ \E m \in Arriving("client", Conn \ cup) \cup Arriving("server", Conn \ sup) : Arrives(m)
  /\ UNCHANGED <<clientVars, serverVars, other, peer>>

(* The last chunk of a request makes the handler be called with it. *)
Handling == handled' = handled \cup {r \in Request : sreq'[r].state = "USER"}

Step ==
  \/ InClient(ClientNext) \/ InServer(ServerNext) \/ InOther(OtherNext)
  \/ Trouble \/ Undeliverable
  \/ \E r \in Request : ClientTimer(r) \/ ServerTimer(r)

Next == Step /\ Handling

Spec == Init /\ [][Next]_vars

(* What happens by itself: the event loops run, a message that is not held *)
(* back arrives, an armed deadline passes, and the application answers and *)
(* frees the requests it is given.                                         *)
ByItself ==
  \/ InClient(ClientLoop \/ \E m \in OnTimeFor("client", cup) : ClientHandles(m))
  \/ InServer(\/ ServerLoop
              \/ \E m \in OnTimeFor("server", sup) : ServerHandles(m)
              \/ \E r \in Request : Respond(r) \/ FreeRequest(r))
  \/ InOther(\E m \in OnTimeFor("server", Conn) : OtherHandles(m))
  \/ Undeliverable
  \/ \E r \in Request : ClientTimer(r) \/ ServerTimer(r)

Progress == ByItself /\ Handling

(* The integrators keep running both ends while one of them has something  *)
(* to do.  Nothing is assumed of the client's owner, of updates of the     *)
(* resource or of messages held back.                                      *)
FairSpec == Spec /\ WF_vars(Progress)
-----------------------------------------------------------------------------
(* The types of the two ends: retransmissions stay within the settings, a  *)
(* slot holds one packet, and the lists name what exists.                  *)
TypeOK ==
  /\ \A r \in Request : creq[r].retrans \in 0..MaxRetransmits
  /\ \A slot \in {cack, crst, serr, sack, srst} : Cardinality(slot) <= 1
  /\ cup \subseteq Conn /\ sup \subseteq Conn
  /\ sorder \in Seq({r \in Request : sreq[r].state # "NONE"})
  /\ soorder \in Seq({r \in Request : sobs[r].on})
  /\ Len(sorder) <= MaxRequests /\ Len(soorder) <= MaxObservers

(* A request that ends with a response of the resource has all of it:      *)
(* every unit once and in its place, whatever blocks and acknowledgements  *)
(* of blocks were lost, repeated or late (parse_and_handle_response).      *)
Succeeded(r) ==
  /\ creq[r].state = "DONE" /\ creq[r].status \in {"OK", "OBSERVE_NOTIFICATION"}
  /\ creq[r].resp.code = "OK"

ResponseIntact ==
  \A r \in Request : Succeeded(r) =>
    LET b == creq[r].resp.body
    IN  /\ Len(b) = IF peer = "own" THEN RespLen[r] ELSE OtherLen
        /\ \A i \in 1..Len(b) : b[i].at = i

(* The resource's handler is given a request's body whole the first time   *)
(* it is called, whatever chunks are lost, repeated, late or come after    *)
(* the transfer was discarded.  It is called again when a message is left  *)
(* of a request the server has forgotten, and is then given a part of the  *)
(* body from its start, or nothing (handle_data_for_request).              *)
Called(r) == sreq[r].state # "USER" /\ sreq'[r].state = "USER"

RequestIntact ==
  [][\A r \in Request : Called(r) =>
       LET whole == Units(r, BodyLen[r])
           got == sreq'[r].body
       IN  /\ got = SubSeq(whole, 1, Len(got))
           /\ r \notin handled => got = whole]_vars

(* A server that asks for smaller chunks in the middle of a transfer, or   *)
(* refuses the first chunk and names a size, has the body when it has the  *)
(* last chunk (block1_adopt_size, block1_advance).                         *)
OtherIntact == other.done => \E r \in Request : other.body = Units(r, BodyLen[r])

(* The end handler is called for the last time once, however acks, resets, *)
(* responses, timeouts, cancels and the loss of the connection meet.       *)
EndsOnce == \A r \in Request : ended[r] <= 1

(* When an acknowledgement lets the server forget a response, the client's *)
(* request has ended: with the response, which ResponseIntact says is then *)
(* all of it, or by a timeout or a cancel.  Repeated acknowledgements of   *)
(* earlier blocks do not end the transfer (handle_ack).                    *)
LastAckEnds ==
  [][\A r \in Request \ Observing :
       (/\ sreq[r].state = "RESPONSE" /\ sreq[r].resp.code = "OK"
        /\ \E m \in Arriving("server", sup) : AckResponse(m)
        /\ sreq'[r].state \in {"DONE", "NONE"})
          => creq[r].state \in {"DONE_CALLBACK", "DONE", "FREED"}]_vars

(* A request of the server that has an observer has one that was not freed *)
(* (observer_free).                                                        *)
NoDangling == \A r \in Request : sreq[r].observer => sobs[r].on

(* Every request that is sent ends, and its owner is told: no loss, copy   *)
(* or delay leaves it waiting without a deadline.                          *)
AllEnded ==
  \A r \in Request \ Observing : creq[r].state \in {"NEW", "IDLE", "DONE", "FREED"}

Ends == []<>AllEnded

(* The server lets go of every request, also when the client falls silent  *)
(* between two chunks or two blocks, or its connection is lost.            *)
Released == []<>(\A r \in Request : sreq[r].state = "NONE")

(* An update that was put aside while a notification is unacknowledged is  *)
(* sent in the end, unless the observer goes.                              *)
PendingIsSent == []<>(\A r \in Request : sobs[r].pending = {})

(* An observer whose client is gone is removed by its next notification:   *)
(* the client rejects it, or nobody answers and it expires.  A late copy   *)
(* of the registration may make it anew.                                   *)
Gone(r) == creq[r].state \in {"DONE", "FREED"}

Forgotten ==
  (\E r \in Request : Gone(r) /\ sobs[r].on /\ sobs[r].sendNow /\ sobs[r].retrans = 0)
    ~> (\A r \in Request : Gone(r) => ~sobs[r].on \/ sobs[r].mid = 0)

(* The comment in nabto_coap_server_handle_timeout: a transfer of which the *)
(* server has acknowledged a chunk, and which it has discarded before its  *)
(* handler saw it, is not begun again by a late chunk: that gets 4.08.     *)
LateChunkRefused ==
  [][\A r \in Request :
       sreq[r].state = "NONE" /\ creq[r].b1off > 0 /\ r \notin handled
         => sreq'[r].state = "NONE"]_vars

(* README.md of the coap component: every block of a transfer comes from   *)
(* the same representation of the resource.                                *)
OneRepresentation ==
  \A r \in Request : Succeeded(r) =>
    \A i, j \in 1..Len(creq[r].resp.body) :
      creq[r].resp.body[i].ver = creq[r].resp.body[j].ver
=============================================================================
