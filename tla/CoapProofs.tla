----------------------------- MODULE CoapProofs -----------------------------
(***************************************************************************)
(* Theorems on CoapExchange, for every set of requests, every scenario,    *)
(* every limit and any number of faults.                                   *)
(*                                                                         *)
(* The invariants of the first two parts need no type of the messages:     *)
(* what a packet carries never decides whether a request that has ended    *)
(* stays ended.  The third part is about what the packets carry, and the   *)
(* last two about which of them an acknowledgement is for, and about which *)
(* requests the resource's handler has been given.                         *)
(***************************************************************************)
EXTENDS CoapExchange, FiniteSetTheorems, WellFoundedInduction, TLAPS

(* A record with a given field, whatever its other fields hold. *)
HasField(q, field) == q = [f \in DOMAIN q |-> q[f]] /\ field \in DOMAIN q

IsArray(a) == a = [r \in Request |-> a[r]]

Finished == {"DONE", "FREED"}

EndInv ==
  /\ IsArray(creq)
  /\ ended \in [Request -> 0..1]
  /\ \A r \in Request : HasField(creq[r], "state")
  /\ \A r \in Request : ended[r] = 1 => creq[r].state \in Finished

(* A step that calls no end handler for the last time and takes no request *)
(* out of a final state keeps the invariant.                               *)
Lasting ==
  /\ ended' = ended
  /\ IsArray(creq')
  /\ \A r \in Request : HasField(creq'[r], "state")
  /\ \A r \in Request : creq[r].state \in Finished => creq'[r].state \in Finished

LEMMA LastingKeeps ==
  ASSUME EndInv, Lasting
  PROVE  EndInv'
BY DEF EndInv, Lasting

LEMMA UnchangedKeeps ==
  ASSUME EndInv, UNCHANGED clientVars
  PROVE  EndInv'
BY DEF EndInv, clientVars

LEMMA InitEnd ==
  ASSUME Init
  PROVE  EndInv
<1>1. PICK s \in Scenarios : InitClient(s.calls)
  BY DEF Init
<1>2. HasField(NewRequest, "state") /\ NewRequest.state = "NEW"
  BY DEF HasField, NewRequest
<1> QED
  BY <1>1, <1>2 DEF InitClient, EndInv, IsArray
-----------------------------------------------------------------------------
(* What an owner calls. *)

LEMMA FinishShape ==
  ASSUME NEW q, NEW status, HasField(q, "state")
  PROVE  HasField(Finish(q, status), "state")
BY DEF HasField, Finish

LEMMA NewEnd ==
  ASSUME EndInv, NEW r \in Request, New(r)
  PROVE  EndInv'
<1>1. Lasting
  BY DEF EndInv, New, Lasting, HasField, IsArray, Finished
<1> QED
  BY <1>1, LastingKeeps

LEMMA SendEnd ==
  ASSUME EndInv, NEW r \in Request, Send(r)
  PROVE  EndInv'
<1>1. Lasting
  BY DEF EndInv, Send, Lasting, HasField, IsArray, Finished
<1> QED
  BY <1>1, LastingKeeps

LEMMA CancelEnd ==
  ASSUME EndInv, NEW r \in Request, Cancel(r)
  PROVE  EndInv'
<1>1. HasField(Finish(creq[r], "STOPPED"), "state")
  BY FinishShape DEF EndInv
<1>2. creq[r].state \notin Finished
  BY DEF Cancel, Waiting, Finished
<1>3. creq' = [creq EXCEPT ![r] = Finish(creq[r], "STOPPED")] /\ ended' = ended
  BY DEF Cancel
<1>4. Lasting
  BY <1>1, <1>2, <1>3 DEF EndInv, Lasting, IsArray
<1> QED
  BY <1>4, LastingKeeps

LEMMA DeregisterEnd ==
  ASSUME EndInv, NEW r \in Request, Deregister(r)
  PROVE  EndInv'
<1>1. CASE creq[r].state = "WAIT_RESPONSE"
  <2>1. Lasting
    BY <1>1 DEF EndInv, Deregister, Lasting, HasField, IsArray, Finished
  <2> QED
    BY <2>1, LastingKeeps
<1>2. CASE creq[r].state # "WAIT_RESPONSE"
  <2>1. Lasting
    BY <1>2 DEF EndInv, Deregister, Lasting, HasField, IsArray, Finished
  <2> QED
    BY <2>1, LastingKeeps
<1> QED
  BY <1>1, <1>2

LEMMA FreeEnd ==
  ASSUME EndInv, NEW r \in Request, Free(r)
  PROVE  EndInv'
<1>1. HasField([NewRequest EXCEPT !.state = "FREED"], "state")
        /\ [NewRequest EXCEPT !.state = "FREED"].state = "FREED"
  BY DEF HasField, NewRequest
<1>2. Lasting
  BY <1>1 DEF EndInv, Free, Lasting, IsArray, Finished
<1> QED
  BY <1>2, LastingKeeps

LEMMA RemoveConnectionEnd ==
  ASSUME EndInv, NEW c \in Conn, RemoveClientConnection(c)
  PROVE  EndInv'
<1>1. \A r \in Request : HasField(Finish(creq[r], "STOPPED"), "state")
  BY FinishShape DEF EndInv
<1>2. Lasting
  BY <1>1 DEF EndInv, RemoveClientConnection, Lasting, IsArray, Finished, Unfinished, Waiting
<1> QED
  BY <1>2, LastingKeeps
-----------------------------------------------------------------------------
(* The event loop. *)

LEMMA SendSlotsEnd ==
  ASSUME EndInv, SendClientRst \/ SendClientAck
  PROVE  EndInv'
BY DEF EndInv, SendClientRst, SendClientAck

LEMMA SendRequestEnd ==
  ASSUME EndInv, SendRequest
  PROVE  EndInv'
<1>1. PICK r \in Request :
        /\ creq[r].state = "SEND_REQUEST"
        /\ \/ creq' = [creq EXCEPT ![r].state = IF TypeOf[r] = "NON" THEN "WAIT_RESPONSE"
                                                                     ELSE "WAIT_ACK"]
           \/ creq' = [creq EXCEPT ![r] = Finish(creq[r], "DECODE_ERROR")]
  BY DEF SendRequest, NextDue
<1>2. HasField(Finish(creq[r], "DECODE_ERROR"), "state")
  BY FinishShape DEF EndInv
<1>3. ended' = ended
  BY DEF SendRequest
<1>4. CASE creq' = [creq EXCEPT ![r] = Finish(creq[r], "DECODE_ERROR")]
  <2>1. Lasting
    BY <1>1, <1>2, <1>3, <1>4 DEF EndInv, Lasting, IsArray, Finished
  <2> QED
    BY <2>1, LastingKeeps
<1>5. CASE creq' = [creq EXCEPT ![r].state = IF TypeOf[r] = "NON" THEN "WAIT_RESPONSE"
                                                                  ELSE "WAIT_ACK"]
  <2>1. Lasting
    BY <1>1, <1>3, <1>5 DEF EndInv, Lasting, HasField, IsArray, Finished
  <2> QED
    BY <2>1, LastingKeeps
<1> QED
  BY <1>1, <1>4, <1>5

(* The one step that ends a request: it was in DONE_CALLBACK, so no end    *)
(* handler had been called for the last time.                              *)
LEMMA HandleCallbackEnd ==
  ASSUME EndInv, HandleCallback
  PROVE  EndInv'
<1>1. PICK r \in Request :
        /\ creq[r].state = "DONE_CALLBACK"
        /\ \/ /\ creq' = [creq EXCEPT ![r].state = "WAIT_RESPONSE",
                                      ![r].status = "OBSERVE_NOTIFICATION"]
              /\ ended' = ended
           \/ /\ creq' = [creq EXCEPT ![r].state = "DONE"]
              /\ ended' = [ended EXCEPT ![r] = @ + 1]
  BY DEF HandleCallback, NextDue
<1>2. CASE ended' = ended
           /\ creq' = [creq EXCEPT ![r].state = "WAIT_RESPONSE",
                                   ![r].status = "OBSERVE_NOTIFICATION"]
  <2>1. Lasting
    BY <1>1, <1>2 DEF EndInv, Lasting, HasField, IsArray, Finished
  <2> QED
    BY <2>1, LastingKeeps
<1>3. CASE /\ creq' = [creq EXCEPT ![r].state = "DONE"]
           /\ ended' = [ended EXCEPT ![r] = @ + 1]
  <2>1. ended[r] = 0
    BY <1>1 DEF EndInv, Finished
  <2>2. ended' \in [Request -> 0..1]
    BY <1>3, <2>1 DEF EndInv
  <2>3. \A s \in Request : s # r => creq'[s] = creq[s] /\ ended'[s] = ended[s]
    BY <1>3 DEF EndInv, IsArray
  <2>4. IsArray(creq') /\ HasField(creq'[r], "state") /\ creq'[r].state = "DONE"
    BY <1>3 DEF EndInv, IsArray, HasField
  <2> QED
    BY <2>2, <2>3, <2>4 DEF EndInv, Finished
<1> QED
  BY <1>1, <1>2, <1>3

LEMMA TimeoutEnd ==
  ASSUME EndInv, NEW r \in Request, HandleClientTimeout(r)
  PROVE  EndInv'
<1>1. HasField(Finish(creq[r], "TIMEOUT"), "state")
  BY FinishShape DEF EndInv
<1>2. HasField(Retried(creq[r]), "state")
  BY DEF EndInv, HasField, Retried
<1>3. creq[r].state \notin Finished /\ ended' = ended
  BY DEF HandleClientTimeout, NeedWait, Finished
<1>4. \/ creq' = [creq EXCEPT ![r] = Retried(creq[r])]
      \/ creq' = [creq EXCEPT ![r] = Finish(creq[r], "TIMEOUT")]
  BY DEF HandleClientTimeout
<1>5. Lasting
  BY <1>1, <1>2, <1>3, <1>4 DEF EndInv, Lasting, IsArray
<1> QED
  BY <1>5, LastingKeeps
-----------------------------------------------------------------------------
(* Packets. *)

LEMMA AckEnd ==
  ASSUME EndInv, NEW m, HandleAck(m)
  PROVE  EndInv'
<1>1. \A r \in Request : HasField([creq[r] EXCEPT !.state = "WAIT_RESPONSE"], "state")
  BY DEF EndInv, HasField
<1>2. Lasting
  BY <1>1 DEF EndInv, HandleAck, Lasting, IsArray, Finished
<1> QED
  BY <1>2, LastingKeeps

LEMMA RstEnd ==
  ASSUME EndInv, NEW m, HandleRst(m)
  PROVE  EndInv'
<1>1. \A r \in Request : HasField(Finish(creq[r], "RESET"), "state")
  BY FinishShape DEF EndInv
<1>2. Lasting
  BY <1>1 DEF EndInv, HandleRst, Resettable, Lasting, IsArray, Finished
<1> QED
  BY <1>2, LastingKeeps

LEMMA UnexpectedEnd ==
  ASSUME EndInv, NEW m, Unexpected(m)
  PROVE  EndInv'
BY DEF EndInv, Unexpected

(* parse_and_handle_response leaves a request, whatever the message. *)
LEMMA OpenedShape ==
  ASSUME NEW q, NEW m, HasField(q, "state")
  PROVE  HasField(Opened(q, m), "state")
BY DEF HasField, Opened

LEMMA StoredShape ==
  ASSUME NEW q, NEW m, HasField(q, "state")
  PROVE  HasField(Stored(q, m), "state")
BY DEF HasField, Stored

LEMMA AdvancedShape ==
  ASSUME NEW r, NEW q, NEW b, HasField(q, "state")
  PROVE  HasField(Advanced(r, q, b), "state")
BY DEF HasField, Advanced

LEMMA SendAgainShape ==
  ASSUME NEW q, HasField(q, "state")
  PROVE  HasField(SendAgain(q), "state")
BY DEF HasField, SendAgain

LEMMA DroppedShape ==
  ASSUME NEW q, HasField(q, "state")
  PROVE  HasField(Dropped(q), "state")
BY DEF HasField, Dropped

LEMMA OutcomeShape ==
  ASSUME NEW r, NEW m, HasField(creq[r], "state")
  PROVE  HasField(Outcome(r, m).req, "state")
<1> DEFINE open == Opened(creq[r], m)
           q == Stored(open, m)
           acks == HasBlock(m.b1) /\ IsSuccess(m.code)
           next == IF acks THEN Advanced(r, q, m.b1) ELSE q
           again == [q EXCEPT !.b1size = m.b1.szx, !.b1off = 0, !.restarted = TRUE]
           over == [next EXCEPT !.state = "DONE_CALLBACK"]
<1>1. HasField(open, "state")
  BY OpenedShape
<1>2. HasField(q, "state")
  BY <1>1, StoredShape
<1>3. HasField(next, "state")
  BY <1>2, AdvancedShape
<1>4. HasField(again, "state")
  BY <1>2 DEF HasField
<1>5. HasField(over, "state")
  BY <1>3 DEF HasField
<1>6. Outcome(r, m).req \in {Dropped(open), open, SendAgain(again), q, Dropped(q),
                             SendAgain(next), over}
  BY DEF Outcome
<1> HIDE DEF open, q, next, again, over
<1> QED
  BY <1>1, <1>2, <1>3, <1>4, <1>5, <1>6, SendAgainShape, DroppedShape

LEMMA ResponseEnd ==
  ASSUME EndInv, NEW m, HandleResponse(m)
  PROVE  EndInv'
<1> DEFINE new == Outcome(m.token, m).req
<1>1. creq' = [creq EXCEPT ![m.token] = new] /\ ended' = ended
  BY DEF HandleResponse
<1>2. creq[m.token].state \notin Finished
  BY DEF HandleResponse, Waiting, Finished
<1>3. m.token \in Request => HasField(new, "state")
  BY OutcomeShape DEF EndInv
<1> HIDE DEF new
<1>4. Lasting
  BY <1>1, <1>2, <1>3 DEF EndInv, Lasting, IsArray
<1> QED
  BY <1>4, LastingKeeps
-----------------------------------------------------------------------------
LEMMA ClientEnd ==
  ASSUME EndInv, ClientNext
  PROVE  EndInv'
<1>1. CASE \E r \in Request : New(r) \/ Send(r) \/ Cancel(r) \/ Deregister(r) \/ Free(r)
  BY <1>1, NewEnd, SendEnd, CancelEnd, DeregisterEnd, FreeEnd
<1>2. CASE \E c \in Conn : RemoveClientConnection(c)
  BY <1>2, RemoveConnectionEnd
<1>3. CASE ClientLoop
  BY <1>3, SendSlotsEnd, SendRequestEnd, HandleCallbackEnd DEF ClientLoop
<1>4. CASE \E m \in Arriving("client", cup) : ClientHandles(m)
  BY <1>4, AckEnd, RstEnd, UnexpectedEnd, ResponseEnd DEF ClientHandles
<1> QED
  BY <1>1, <1>2, <1>3, <1>4 DEF ClientNext

LEMMA NextEnd ==
  ASSUME EndInv, [Next]_vars
  PROVE  EndInv'
<1>1. CASE InClient(ClientNext)
  BY <1>1, ClientEnd DEF InClient
<1>2. CASE InServer(ServerNext)
  BY <1>2, UnchangedKeeps DEF InServer
<1>3. CASE InOther(OtherNext)
  BY <1>3, UnchangedKeeps DEF InOther
<1>4. CASE Trouble \/ Undeliverable
  BY <1>4, UnchangedKeeps DEF Trouble, Undeliverable
<1>5. CASE \E r \in Request : ClientTimer(r)
  BY <1>5, TimeoutEnd DEF ClientTimer, InClient
<1>6. CASE \E r \in Request : ServerTimer(r)
  BY <1>6, UnchangedKeeps DEF ServerTimer, InServer
<1>7. CASE UNCHANGED vars
  BY <1>7, UnchangedKeeps DEF vars
<1> QED
  BY <1>1, <1>2, <1>3, <1>4, <1>5, <1>6, <1>7 DEF Next, Step

(* The end handler of a request is called for the last time at most once,  *)
(* whatever calls of the owner, packets, timeouts and losses of the        *)
(* connection meet (nabto_coap_client_handle_callback).                    *)
THEOREM CalledOnce == Spec => []EndsOnce
<1>1. Init => EndInv
  BY InitEnd
<1>2. EndInv /\ [Next]_vars => EndInv'
  BY NextEnd
<1>3. EndInv => EndsOnce
  BY DEF EndInv, EndsOnce
<1> QED
  BY <1>1, <1>2, <1>3, PTL DEF Spec
-----------------------------------------------------------------------------
(***************************************************************************)
(* The server: the observer of a request is an observer that exists.       *)
(***************************************************************************)
Sound(reqs, obs) ==
  /\ IsArray(reqs) /\ IsArray(obs)
  /\ \A r \in Request : HasField(reqs[r], "observer") /\ HasField(obs[r], "on")
  /\ \A r \in Request : reqs[r].observer = TRUE => obs[r].on = TRUE

ObsInv == Sound(sreq, sobs)

(* A request that has gained no observer. *)
Follows(q, p) == HasField(p, "observer") /\ (p.observer = TRUE => q.observer = TRUE)

LEMMA AbsentShape == HasField(Absent, "observer") /\ Absent.observer = FALSE
BY DEF HasField, Absent

LEMMA NoObserverShape == HasField(NoObserver, "on")
BY DEF HasField, NoObserver

LEMMA SettledFollows ==
  ASSUME NEW q, HasField(q, "observer")
  PROVE  Follows(q, Settled(q))
BY AbsentShape DEF Follows, Settled

LEMMA SetRequestsSound ==
  ASSUME NEW new, Sound(new, sobs'), SetRequests(new)
  PROVE  ObsInv'
<1>1. \A r \in Request : Follows(new[r], Settled(new[r]))
  BY SettledFollows DEF Sound
<1>2. sreq' = [r \in Request |-> Settled(new[r])]
  BY DEF SetRequests
<1> QED
  BY <1>1, <1>2 DEF ObsInv, Sound, IsArray, Follows

LEMMA UpdateSound ==
  ASSUME ObsInv, NEW r, NEW q, r \in Request => Follows(sreq[r], q)
  PROVE  Sound([sreq EXCEPT ![r] = q], sobs)
BY DEF ObsInv, Sound, IsArray, Follows

LEMMA SetRequestSound ==
  ASSUME ObsInv, NEW r, NEW q, r \in Request => Follows(sreq[r], q),
         SetRequest(r, q), sobs' = sobs
  PROVE  ObsInv'
<1>1. Sound([sreq EXCEPT ![r] = q], sobs')
  BY UpdateSound
<1> QED
  BY <1>1, SetRequestsSound DEF SetRequest

LEMMA ForgettingSound ==
  ASSUME NEW reqs, NEW gone, Sound(reqs, sobs), FreeObservers(gone)
  PROVE  Sound(Forgetting(reqs, gone), sobs')
<1>1. \A r \in Request : /\ HasField([reqs[r] EXCEPT !.observer = FALSE], "observer")
                         /\ [reqs[r] EXCEPT !.observer = FALSE].observer = FALSE
  BY DEF Sound, HasField
<1>2. sobs' = [r \in Request |-> IF r \in gone THEN NoObserver ELSE sobs[r]]
  BY DEF FreeObservers
<1> QED
  BY <1>1, <1>2, NoObserverShape DEF Sound, Forgetting, IsArray

LEMMA UnchangedSound ==
  ASSUME ObsInv, UNCHANGED <<sreq, sobs>>
  PROVE  ObsInv'
BY DEF ObsInv, Sound

LEMMA InitSound ==
  ASSUME Init
  PROVE  ObsInv
<1>1. PICK s \in Scenarios : InitServer({ConnOf[q] : q \in s.calls}, s.updates)
  BY DEF Init
<1> QED
  BY <1>1, AbsentShape, NoObserverShape DEF InitServer, ObsInv, Sound, IsArray
-----------------------------------------------------------------------------
(* What the application calls. *)

LEMMA OverFollows ==
  ASSUME NEW q, HasField(q, "observer")
  PROVE  Follows(q, Over(q)) /\ Follows(q, Discarded(q))
BY DEF Follows, HasField, Over, Discarded

LEMMA ReadyFollows ==
  ASSUME NEW q, NEW answer, HasField(q, "observer")
  PROVE  Follows(q, Ready(q, answer))
<1>1. \A x : Follows(q, [q EXCEPT !.state = "RESPONSE", !.b2req = NoBlock, !.resp = x])
  BY DEF Follows, HasField
<1>2. \/ Ready(q, answer) = Over(q)
      \/ \E x : Ready(q, answer)
                  = [q EXCEPT !.state = "RESPONSE", !.b2req = NoBlock, !.resp = x]
  BY DEF Ready
<1> QED
  BY <1>1, <1>2, OverFollows

LEMMA RespondSound ==
  ASSUME ObsInv, NEW r \in Request, Respond(r)
  PROVE  ObsInv'
<1>1. HasField(sreq[r], "observer")
  BY DEF ObsInv, Sound
<1> QED
  BY <1>1, ReadyFollows, SetRequestSound DEF Respond, observerVars

LEMMA FreeRequestSound ==
  ASSUME ObsInv, NEW r \in Request, FreeRequest(r)
  PROVE  ObsInv'
<1> DEFINE q == sreq[r]
           asked == [q EXCEPT !.b2req = NoBlock]
           failed == Ready(asked, [q.resp EXCEPT !.code = "ERROR", !.body = <<>>])
           left == IF q.state = "USER" THEN failed ELSE q
           new == [left EXCEPT !.freed = TRUE]
<1>1. HasField(q, "observer")
  BY DEF ObsInv, Sound
<1>2. Follows(q, asked)
  BY <1>1 DEF Follows, HasField
<1>3. Follows(asked, failed)
  BY <1>2, ReadyFollows DEF Follows
<1>4. Follows(q, left)
  BY <1>1, <1>2, <1>3 DEF Follows
<1>5. Follows(left, new)
  BY <1>4 DEF Follows, HasField
<1>6. SetRequest(r, new) /\ sobs' = sobs
  BY DEF FreeRequest, observerVars
<1>7. Follows(q, new)
  BY <1>4, <1>5 DEF Follows
<1> QED
  BY <1>6, <1>7, SetRequestSound

LEMMA AcceptObserveSound ==
  ASSUME ObsInv, NEW r \in Request, AcceptObserve(r)
  PROVE  ObsInv'
<1> DEFINE o == [NoObserver EXCEPT !.on = TRUE, !.conn = sreq[r].conn]
<1>1. HasField(o, "on") /\ o.on = TRUE
  BY DEF HasField, NoObserver
<1>2. HasField([sreq[r] EXCEPT !.observer = TRUE], "observer")
  BY DEF ObsInv, Sound, HasField
<1>3. sobs' = [sobs EXCEPT ![r] = o] /\ sreq' = [sreq EXCEPT ![r].observer = TRUE]
  BY DEF AcceptObserve
<1> HIDE DEF o
<1> QED
  BY <1>1, <1>2, <1>3 DEF ObsInv, Sound, IsArray

LEMMA RemoveObserverSound ==
  ASSUME ObsInv, NEW r \in Request, RemoveObserver(r)
  PROVE  ObsInv'
BY ForgettingSound DEF RemoveObserver, ObsInv

LEMMA RemoveServerConnectionSound ==
  ASSUME ObsInv, NEW c \in Conn, RemoveServerConnection(c)
  PROVE  ObsInv'
<1> DEFINE gone == {r \in Request : sobs[r].on /\ sobs[r].conn /\ ConnOf[r] = c}
           left(r) ==
             CASE sreq[r].state = "REQUEST" -> Discarded(sreq[r])
               [] sreq[r].state = "RESPONSE" -> Over(sreq[r])
               [] OTHER -> [sreq[r] EXCEPT !.conn = FALSE]
           reqs == [r \in Request |->
                      IF sreq[r].conn /\ ConnOf[r] = c THEN left(r) ELSE sreq[r]]
<1>1. \A r \in Request : HasField(sreq[r], "observer")
  BY DEF ObsInv, Sound
<1>2. \A r \in Request : Follows(sreq[r], [sreq[r] EXCEPT !.conn = FALSE])
  BY <1>1 DEF Follows, HasField
<1>3. \A r \in Request : Follows(sreq[r], left(r))
  BY <1>1, <1>2, OverFollows
<1>4. FreeObservers(gone) /\ SetRequests(Forgetting(reqs, gone))
  BY DEF RemoveServerConnection
<1> HIDE DEF left, gone
<1>5. \A r \in Request : Follows(sreq[r], reqs[r])
  BY <1>1, <1>3 DEF Follows
<1>6. IsArray(reqs)
  BY DEF IsArray
<1> HIDE DEF reqs
<1>7. Sound(reqs, sobs)
  BY <1>5, <1>6 DEF ObsInv, Sound, Follows
<1>8. Sound(Forgetting(reqs, gone), sobs')
  BY <1>4, <1>7, ForgettingSound
<1> QED
  BY <1>4, <1>8, SetRequestsSound

(* An observer that stays one, and is the same for the requests. *)
LEMMA ObserverSound ==
  ASSUME ObsInv, IsArray(sobs'), sreq' = sreq,
         \A r \in Request : HasField(sobs'[r], "on") /\ sobs'[r].on = sobs[r].on
  PROVE  ObsInv'
BY DEF ObsInv, Sound

LEMMA CurrentShape ==
  ASSUME NEW o, NEW v, NEW mid, HasField(o, "on")
  PROVE  HasField(Current(o, v, mid), "on") /\ Current(o, v, mid).on = o.on
BY DEF HasField, Current

LEMMA NotifySound ==
  ASSUME ObsInv, Notify
  PROVE  ObsInv'
<1> DEFINE kept(r) == [sobs[r] EXCEPT !.pending = {ver + 1}]
<1>1. \A r \in Request : HasField(sobs[r], "on")
  BY DEF ObsInv, Sound
<1>2. \A r \in Request : HasField(kept(r), "on") /\ kept(r).on = sobs[r].on
  BY <1>1 DEF HasField
<1>3. \A r \in Request :
        Notified(r) \in {kept(r), Current(sobs[r], ver + 1, NextMid(r)), sobs[r]}
  BY DEF Notified
<1> HIDE DEF kept
<1>4. \A r \in Request : HasField(Notified(r), "on") /\ Notified(r).on = sobs[r].on
  BY <1>1, <1>2, <1>3, CurrentShape
<1>5. sobs' = [r \in Request |-> Notified(r)] /\ sreq' = sreq
  BY DEF Notify, requestVars
<1>6. IsArray(sobs')
  BY <1>5 DEF IsArray
<1> QED
  BY <1>4, <1>5, <1>6, ObserverSound
-----------------------------------------------------------------------------
(* The event loop and the deadlines. *)

LEMMA SlotsSound ==
  ASSUME ObsInv, SendError \/ SendAck \/ SendRst
  PROVE  ObsInv'
BY UnchangedSound DEF SendError, SendAck, SendRst, requestVars, observerVars

LEMMA SendContinueSound ==
  ASSUME ObsInv, SendContinue
  PROVE  ObsInv'
<1>1. PICK r : sreq' = [sreq EXCEPT ![r].continue = FALSE]
  BY DEF SendContinue
<1>2. r \in Request => Follows(sreq[r], [sreq[r] EXCEPT !.continue = FALSE])
  BY DEF ObsInv, Sound, Follows, HasField
<1>3. sobs' = sobs
  BY DEF SendContinue, observerVars
<1> QED
  BY <1>1, <1>2, <1>3, UpdateSound DEF ObsInv

LEMMA SendResponseSound ==
  ASSUME ObsInv, SendResponse
  PROVE  ObsInv'
<1>1. PICK r, step :
        sreq' = [sreq EXCEPT ![r].resp.waiting = TRUE, ![r].resp.sendNow = FALSE,
                             ![r].resp.retrans = @ + step]
  BY DEF SendResponse
<1>2. sobs' = sobs
  BY DEF SendResponse, observerVars
<1>3. IsArray(sreq')
  BY <1>1 DEF ObsInv, Sound, IsArray
<1>4. \A s \in Request : Follows(sreq[s], sreq'[s])
  BY <1>1 DEF ObsInv, Sound, Follows, HasField, IsArray
<1> QED
  BY <1>2, <1>3, <1>4 DEF ObsInv, Sound, Follows

LEMMA SendNotificationSound ==
  ASSUME ObsInv, SendNotification
  PROVE  ObsInv'
<1>1. PICK r : sobs' = [sobs EXCEPT ![r].sendNow = FALSE, ![r].waiting = TRUE,
                                    ![r].retrans = @ + 1]
  BY DEF SendNotification
<1>2. sreq' = sreq
  BY DEF SendNotification, requestVars
<1>3. IsArray(sobs')
  BY <1>1 DEF ObsInv, Sound, IsArray
<1>4. \A s \in Request : HasField(sobs'[s], "on") /\ sobs'[s].on = sobs[s].on
  BY <1>1 DEF ObsInv, Sound, HasField, IsArray
<1> QED
  BY <1>2, <1>3, <1>4, ObserverSound

LEMMA ExpireRequestSound ==
  ASSUME ObsInv, NEW r \in Request, ExpireRequest(r)
  PROVE  ObsInv'
<1> DEFINE again == [sreq[r] EXCEPT !.resp.sendNow = TRUE]
<1>1. HasField(sreq[r], "observer")
  BY DEF ObsInv, Sound
<1>2. Follows(sreq[r], again)
  BY <1>1 DEF Follows, HasField
<1>3. sobs' = sobs
  BY DEF ExpireRequest, observerVars
<1>4. \/ SetRequest(r, Discarded(sreq[r]))
      \/ SetRequest(r, Over(sreq[r]))
      \/ SetRequest(r, again)
  BY DEF ExpireRequest
<1> HIDE DEF again
<1> QED
  BY <1>1, <1>2, <1>3, <1>4, OverFollows, SetRequestSound

LEMMA ExpireNotificationSound ==
  ASSUME ObsInv, NEW r \in Request, ExpireNotification(r)
  PROVE  ObsInv'
<1>1. CASE FreeObservers({r}) /\ sreq' = Forgetting(sreq, {r})
  BY <1>1, ForgettingSound DEF ObsInv
<1>2. CASE sobs' = [sobs EXCEPT ![r].waiting = FALSE, ![r].sendNow = TRUE] /\ sreq' = sreq
  <2>1. IsArray(sobs')
    BY <1>2 DEF ObsInv, Sound, IsArray
  <2>2. \A s \in Request : HasField(sobs'[s], "on") /\ sobs'[s].on = sobs[s].on
    BY <1>2 DEF ObsInv, Sound, HasField, IsArray
  <2> QED
    BY <1>2, <2>1, <2>2, ObserverSound
<1> QED
  BY <1>1, <1>2 DEF ExpireNotification
-----------------------------------------------------------------------------
(* Packets. *)

LEMMA DuplicateSound ==
  ASSUME ObsInv, NEW m, Duplicate(m)
  PROVE  ObsInv'
<1> DEFINE told == [sreq[m.token] EXCEPT !.continue = TRUE]
<1>1. sreq' = [sreq EXCEPT ![m.token] = told] \/ sreq' = sreq
  BY DEF Duplicate
<1>2. m.token \in Request => Follows(sreq[m.token], told)
  BY DEF ObsInv, Sound, Follows, HasField
<1>3. sobs' = sobs
  BY DEF Duplicate, observerVars
<1> HIDE DEF told
<1>4. Sound([sreq EXCEPT ![m.token] = told], sobs)
  BY <1>2, UpdateSound
<1> QED
  BY <1>1, <1>3, <1>4, UnchangedSound DEF ObsInv

LEMMA OtherFieldsFollow ==
  ASSUME NEW q, NEW b2req, NEW state, HasField(q, "observer")
  PROVE  Follows(q, [q EXCEPT !.b2req = b2req, !.state = state])
BY DEF Follows, HasField

LEMMA TakenFollows ==
  ASSUME NEW q, NEW m, HasField(q, "observer")
  PROVE  Follows(q, Taken(q, m))
<1> DEFINE more == HasBlock(m.b1) /\ m.b1.more
           new == IF HasBlock(m.b1)
                    THEN [q EXCEPT !.b1 = m.b1, !.mid = m.mid, !.body = @ \o m.pay,
                                   !.continue = @ \/ more]
                    ELSE [q EXCEPT !.body = IF m.pay = <<>> THEN @ ELSE m.pay]
<1>1. Follows(q, new)
  BY DEF Follows, HasField
<1>2. PICK b2req, state : Taken(q, m) = [new EXCEPT !.b2req = b2req, !.state = state]
  BY DEF Taken
<1> HIDE DEF new, more
<1>3. HasField(new, "observer")
  BY <1>1 DEF Follows
<1>4. Follows(new, [new EXCEPT !.b2req = b2req, !.state = state])
  BY <1>3, OtherFieldsFollow
<1> QED
  BY <1>1, <1>2, <1>4 DEF Follows

(* handle_data_for_request, on requests that may have been changed in the  *)
(* same step.                                                              *)
LEMMA DataSound ==
  ASSUME NEW reqs, NEW m, NEW mid, Sound(reqs, sobs'), Data(reqs, m, mid)
  PROVE  ObsInv'
<1>1. m.token \in Request => HasField(reqs[m.token], "observer")
  BY DEF Sound
<1>2. \A q : (m.token \in Request => Follows(reqs[m.token], q))
               => Sound([reqs EXCEPT ![m.token] = q], sobs')
  BY DEF Sound, IsArray, Follows
<1>3. CASE SetRequests([reqs EXCEPT ![m.token] = Discarded(reqs[m.token])])
  BY <1>1, <1>2, <1>3, OverFollows, SetRequestsSound
<1>4. CASE sreq' = [reqs EXCEPT ![m.token] = Taken(reqs[m.token], m)]
  BY <1>1, <1>2, <1>4, TakenFollows DEF ObsInv
<1> QED
  BY <1>3, <1>4 DEF Data

LEMMA FirstMessageSound ==
  ASSUME ObsInv, NEW m, FirstMessage(m)
  PROVE  ObsInv'
<1>1. CASE NoRoom(m)
  BY <1>1, UnchangedSound DEF NoRoom, requestVars, observerVars
<1>2. CASE NewServerRequest(m)
  <2> DEFINE ends == {r \in {m.token} : m.obs = 1 /\ sobs[r].on /\ sobs[r].conn}
             q == [Absent EXCEPT !.state = "REQUEST", !.conn = TRUE, !.type = m.type,
                                 !.mid = m.mid, !.isObs = m.obs = 0, !.resp.mid = smid + 1]
             reqs == [Forgetting(sreq, ends) EXCEPT ![m.token] = q]
  <2>1. FreeObservers(ends) /\ Data(reqs, m, smid + 1)
    BY <1>2 DEF NewServerRequest
  <2>2. HasField(q, "observer") /\ q.observer = FALSE
    BY DEF HasField, Absent
  <2> HIDE DEF q, ends
  <2>3. Sound(Forgetting(sreq, ends), sobs')
    BY <2>1, ForgettingSound DEF ObsInv
  <2>4. Sound(reqs, sobs')
    BY <2>2, <2>3 DEF Sound, IsArray
  <2> QED
    BY <2>1, <2>4, DataSound
<1> QED
  BY <1>1, <1>2 DEF FirstMessage

LEMMA FurtherMessageSound ==
  ASSUME ObsInv, NEW m, FurtherMessage(m)
  PROVE  ObsInv'
<1>1. Sound(sreq, sobs')
  BY DEF ObsInv, FurtherMessage, observerVars
<1> QED
  BY <1>1, DataSound DEF FurtherMessage

LEMMA NextBlockSound ==
  ASSUME ObsInv, NEW m, NextBlock(m)
  PROVE  ObsInv'
<1>1. m.token \in Request => HasField(sreq[m.token], "observer")
  BY DEF ObsInv, Sound
<1>2. ASSUME m.token \in Request, NEW x
      PROVE  Follows(sreq[m.token], [sreq[m.token] EXCEPT !.mid = m.mid, !.resp = x])
  BY <1>1, <1>2 DEF Follows, HasField
<1>3. \/ SetRequest(m.token, Over(sreq[m.token]))
      \/ \E x : SetRequest(m.token, [sreq[m.token] EXCEPT !.mid = m.mid, !.resp = x])
  BY DEF NextBlock
<1>4. sobs' = sobs
  BY DEF NextBlock, observerVars
<1> QED
  BY <1>1, <1>2, <1>3, <1>4, OverFollows, SetRequestSound

LEMMA AckResponseSound ==
  ASSUME ObsInv, NEW m, AckResponse(m)
  PROVE  ObsInv'
<1> DEFINE acked(r) == [sreq[r] EXCEPT !.resp.waiting = FALSE]
           rested(r) == [acked(r) EXCEPT !.resp.retrans = 0]
<1>1. PICK r \in Request :
        SetRequest(r, IF LastBlock(acked(r).resp) THEN Over(acked(r)) ELSE rested(r))
  BY DEF AckResponse, Matched
<1>2. HasField(sreq[r], "observer")
  BY DEF ObsInv, Sound
<1>3. Follows(sreq[r], acked(r))
  BY <1>2 DEF Follows, HasField
<1>4. Follows(acked(r), rested(r))
  BY <1>3 DEF Follows, HasField
<1>5. sobs' = sobs
  BY DEF AckResponse, observerVars
<1> HIDE DEF acked, rested
<1>6. Follows(sreq[r], Over(acked(r))) /\ Follows(sreq[r], rested(r))
  BY <1>3, <1>4, OverFollows DEF Follows
<1> QED
  BY <1>1, <1>5, <1>6, SetRequestSound

LEMMA AckNotificationSound ==
  ASSUME ObsInv, NEW m, AckNotification(m)
  PROVE  ObsInv'
<1> DEFINE idle(o) == [o EXCEPT !.sendNow = FALSE, !.waiting = FALSE]
<1>1. PICK r : sobs' = [sobs EXCEPT ![r] = Promoted(sobs[r])]
  BY DEF AckNotification
<1>2. ASSUME NEW o, HasField(o, "on")
      PROVE  HasField(idle(o), "on") /\ idle(o).on = o.on
  BY <1>2 DEF HasField
<1>3. ASSUME NEW o, HasField(o, "on")
      PROVE  /\ HasField([o EXCEPT !.pending = {}], "on")
             /\ [o EXCEPT !.pending = {}].on = o.on
  BY <1>3 DEF HasField
<1>4. ASSUME NEW o
      PROVE  \/ Promoted(o) = idle(o)
             \/ \E v : Promoted(o) = [Current(idle(o), v, smid + 1) EXCEPT !.pending = {}]
  BY DEF Promoted
<1> HIDE DEF idle
<1>5. ASSUME NEW o, HasField(o, "on")
      PROVE  HasField(Promoted(o), "on") /\ Promoted(o).on = o.on
  <2>1. CASE Promoted(o) = idle(o)
    BY <1>2, <1>5, <2>1
  <2>2. ASSUME NEW v, Promoted(o) = [Current(idle(o), v, smid + 1) EXCEPT !.pending = {}]
        PROVE  HasField(Promoted(o), "on") /\ Promoted(o).on = o.on
    <3>1. HasField(idle(o), "on") /\ idle(o).on = o.on
      BY <1>2, <1>5
    <3>2. /\ HasField(Current(idle(o), v, smid + 1), "on")
          /\ Current(idle(o), v, smid + 1).on = o.on
      BY <3>1, CurrentShape
    <3> QED
      BY <1>3, <2>2, <3>2
  <2> QED
    BY <1>4, <2>1, <2>2
<1>6. sreq' = sreq
  BY DEF AckNotification, requestVars
<1>7. IsArray(sobs')
  BY <1>1 DEF ObsInv, Sound, IsArray
<1>8. \A s \in Request : HasField(sobs'[s], "on") /\ sobs'[s].on = sobs[s].on
  BY <1>1, <1>5 DEF ObsInv, Sound, IsArray
<1> QED
  BY <1>6, <1>7, <1>8, ObserverSound

LEMMA ResetSound ==
  ASSUME ObsInv, NEW m, ResetResponse(m) \/ ResetNotification(m)
  PROVE  ObsInv'
<1>1. CASE ResetResponse(m)
  <2>1. PICK r \in Request : SetRequest(r, Over(sreq[r]))
    BY <1>1 DEF ResetResponse, Matched
  <2>2. HasField(sreq[r], "observer")
    BY DEF ObsInv, Sound
  <2>3. sobs' = sobs
    BY <1>1 DEF ResetResponse, observerVars
  <2> QED
    BY <2>1, <2>2, <2>3, OverFollows, SetRequestSound
<1>2. CASE ResetNotification(m)
  BY <1>2, ForgettingSound DEF ResetNotification, ObsInv
<1> QED
  BY <1>1, <1>2

LEMMA WithoutEffectSound ==
  ASSUME ObsInv, NEW m, BadOption(m) \/ Ignored(m) \/ Unmatched(m)
  PROVE  ObsInv'
BY UnchangedSound DEF BadOption, Ignored, Unmatched, serverVars, requestVars, observerVars
-----------------------------------------------------------------------------
LEMMA ServerSound ==
  ASSUME ObsInv, ServerNext
  PROVE  ObsInv'
<1>1. CASE \E r \in Request : \/ Respond(r) \/ FreeRequest(r) \/ AcceptObserve(r)
                              \/ RemoveObserver(r)
  BY <1>1, RespondSound, FreeRequestSound, AcceptObserveSound, RemoveObserverSound
<1>2. CASE \E c \in Conn : RemoveServerConnection(c)
  BY <1>2, RemoveServerConnectionSound
<1>3. CASE Notify
  BY <1>3, NotifySound
<1>4. CASE ServerLoop
  BY <1>4, SlotsSound, SendContinueSound, SendResponseSound, SendNotificationSound
     DEF ServerLoop
<1>5. CASE \E m \in Arriving("server", sup) : ServerHandles(m)
  BY <1>5, DuplicateSound, FirstMessageSound, FurtherMessageSound, NextBlockSound,
     AckResponseSound, AckNotificationSound, ResetSound, WithoutEffectSound
     DEF ServerHandles
<1> QED
  BY <1>1, <1>2, <1>3, <1>4, <1>5 DEF ServerNext

LEMMA NextSound ==
  ASSUME ObsInv, [Next]_vars
  PROVE  ObsInv'
<1>1. CASE InServer(ServerNext)
  BY <1>1, ServerSound DEF InServer
<1>2. CASE \E r \in Request : ServerTimer(r)
  BY <1>2, ExpireRequestSound, ExpireNotificationSound DEF ServerTimer, InServer
<1>3. CASE InClient(ClientNext) \/ InOther(OtherNext) \/ Trouble \/ Undeliverable
  BY <1>3, UnchangedSound DEF InClient, InOther, Trouble, Undeliverable, serverVars
<1>4. CASE \E r \in Request : ClientTimer(r)
  BY <1>4, UnchangedSound DEF ClientTimer, InClient, serverVars
<1>5. CASE UNCHANGED vars
  BY <1>5, UnchangedSound DEF vars, serverVars
<1> QED
  BY <1>1, <1>2, <1>3, <1>4, <1>5 DEF Next, Step

(* No request of the server refers to an observer that has been freed,     *)
(* whichever of the ways an observer can go is taken and whatever becomes  *)
(* of the request in the meantime (nabto_coap_server_observer_free).       *)
THEOREM NothingDangles == Spec => []NoDangling
<1>1. Init => ObsInv
  BY InitSound
<1>2. ObsInv /\ [Next]_vars => ObsInv'
  BY NextSound
<1>3. ObsInv => NoDangling
  BY DEF ObsInv, Sound, NoDangling
<1> QED
  BY <1>1, <1>2, <1>3, PTL DEF Spec
-----------------------------------------------------------------------------
(***************************************************************************)
(* The bodies of requests and responses.                                   *)
(*                                                                         *)
(* `p` is the server at the other end, `r` names the request.              *)
(***************************************************************************)
HasFields(q, F) == q = [f \in DOMAIN q |-> q[f]] /\ F \subseteq DOMAIN q

Szx == 0..6
Unit == [ver : Nat, at : Nat]
Blocks == {NoBlock} \cup [num : Nat, more : BOOLEAN, szx : Szx]

(* The Block1 options of a client that keeps the size it starts with: one  *)
(* that says more chunks follow leaves a part of the body for them.        *)
LeavesMore(b, r) == b.more = TRUE => Offset(b) + Size(b.szx) < BodyLen[r]

Chunks(r) ==
  {NoBlock} \cup {b \in [num : Nat, more : BOOLEAN, szx : {ClientSzx}] : LeavesMore(b, r)}

(* The units of a body that follow the first `from` ones. *)
Piece(pay, from) ==
  /\ pay \in Seq(Unit)
  /\ \A i \in 1..Len(pay) : pay[i].at = from + i

Place(m) == IF HasBlock(m.b2) THEN Offset(m.b2) ELSE 0
Total(p, r) == IF p = "own" THEN RespLen[r] ELSE OtherLen

(* A message to the client: the block it names, and the last one ends the  *)
(* body.                                                                   *)
Answer(p, m) ==
  /\ m.to = "client" /\ m.conn \in Conn
  /\ m.b2 \in Blocks
  /\ Piece(m.pay, Place(m))
  /\ m.code = "OK" /\ m.b2.more = FALSE => Place(m) + Len(m.pay) = Total(p, m.token)
  /\ p = "own" => m.b1 \in Chunks(m.token)

Whole(r) == Units(r, BodyLen[r])
Prefix(body, r) == \E n \in 0..BodyLen[r] : body = SubSeq(Whole(r), 1, n)

(* The chunk that a message names, and the last one ends the body. *)
Chunked(m) ==
  /\ m.b1 \in Chunks(m.token)
  /\ IF HasBlock(m.b1)
       THEN \E upto \in Offset(m.b1)..BodyLen[m.token] :
              /\ m.pay = SubSeq(Whole(m.token), Offset(m.b1) + 1, upto)
              /\ m.b1.more = FALSE => upto = BodyLen[m.token]
       ELSE m.pay \in {<<>>, Whole(m.token)}

Question(p, m) ==
  /\ m.to = "server" /\ m.conn \in Conn
  /\ m.type \in {"CON", "NON"} =>
       /\ m.token \in Request /\ m.b2 \in Blocks
       /\ p = "own" => Chunked(m)

Good(p, m) == Answer(p, m) \/ Question(p, m)

Boundary(off, r) ==
  /\ off \in Nat
  /\ off < BodyLen[r] => \E k \in Nat : off = k * Size(ClientSzx)

AskedFields == {"state", "b1off", "b1size", "b2", "status", "resp"}

Going(p, q, r) ==
  /\ HasFields(q, AskedFields)
  /\ HasFields(q.resp, {"code", "body"})
  /\ q.b2 \in Blocks
  /\ Piece(q.resp.body, 0)
  /\ p = "own" => q.b1size = ClientSzx /\ Boundary(q.b1off, r)

Ended(q) == q.state \in {"DONE_CALLBACK", "DONE"} /\ q.status \in {"OK", "OBSERVE_NOTIFICATION"}

Asked(p, q, r) ==
  /\ Going(p, q, r)
  /\ Ended(q) /\ q.resp.code = "OK" => Len(q.resp.body) = Total(p, r)

Outgoing == cack \cup crst

AskedInv ==
  /\ IsArray(creq)
  /\ \A r \in Request : Asked(peer, creq[r], r)
  /\ \A m \in Outgoing : Question(peer, m)

AnswerFields == {"code", "body", "cur", "szx"}

(* What the application has put into a response, and the place in it. *)
Answering(a, r) ==
  /\ HasFields(a, AnswerFields)
  /\ a.szx \in Szx /\ a.cur \in Nat
  /\ Piece(a.body, 0)
  /\ a.code = "OK" => Len(a.body) = RespLen[r]
  /\ a.cur = 0 \/ a.cur * Size(a.szx) < Len(a.body)

ServedFields == {"state", "body", "b1", "b2req", "resp"}

Receiving(q, r) ==
  /\ q.state \in {"REQUEST", "USER"} => Prefix(q.body, r) /\ q.resp.cur = 0
  /\ q.state = "REQUEST" => q.b1.more = TRUE
  /\ q.state = "USER" /\ q.b1.more = FALSE => q.body \in {<<>>, Whole(r)}

Holding(q, r) ==
  /\ HasFields(q, ServedFields)
  /\ q.b1 \in Chunks(r) /\ q.b2req \in Blocks
  /\ Answering(q.resp, r)

Served(q, r) == Holding(q, r) /\ Receiving(q, r)

AllServed(reqs) == IsArray(reqs) /\ \A r \in Request : Served(reqs[r], r)

Observer(o) == HasFields(o, {"val", "pending"}) /\ o.val \in Nat /\ o.pending \subseteq Nat

AllObserve(obs) == IsArray(obs) /\ \A r \in Request : Observer(obs[r])

Replies == serr \cup sack \cup srst

ServedInv ==
  /\ AllServed(sreq) /\ AllObserve(sobs) /\ ver \in Nat
  /\ peer = "own" => \A m \in Replies : Answer("own", m)

OtherInv ==
  /\ HasFields(other, {"replies"})
  /\ peer = "other" => \A m \in other.replies : Answer(peer, m)

(* The messages under way are good ones, each on the link to its end.      *)
Carried(p, n, h) ==
  \E S : /\ \A m \in S : Good(p, m)
         /\ h \subseteq S
         /\ n \in [Link -> Seq(S)]
         /\ \A l \in Link : \A i \in 1..Len(n[l]) : LinkOf(n[l][i]) = l

NetInv == Carried(peer, net, late)
-----------------------------------------------------------------------------
LEMMA SeqGrows ==
  ASSUME NEW S, NEW T, S \subseteq T, NEW s \in Seq(S)
  PROVE  s \in Seq(T)
<1>1. Len(s) \in Nat /\ s \in [1..Len(s) -> S]
  OBVIOUS
<1>2. s \in [1..Len(s) -> T]
  BY <1>1
<1> QED
  BY <1>1, <1>2

LEMMA GoodLink ==
  ASSUME NEW p, NEW m, Good(p, m)
  PROVE  LinkOf(m) \in Link /\ LinkOf(m)[2] = m.to
BY DEF Good, Answer, Question, LinkOf, Link

LEMMA SendsCarried ==
  ASSUME NEW p, NEW m, Good(p, m), Carried(p, net, late), Sends(m)
  PROVE  Carried(p, net', late')
<1>1. PICK S : /\ \A x \in S : Good(p, x)
               /\ late \subseteq S
               /\ net \in [Link -> Seq(S)]
               /\ \A l \in Link : \A i \in 1..Len(net[l]) : LinkOf(net[l][i]) = l
  BY DEF Carried
<1> DEFINE T == S \cup {m}
           k == LinkOf(m)
<1>2. net' = [net EXCEPT ![k] = Append(net[k], m)] /\ late' = late
  BY DEF Sends
<1>3. k \in Link /\ k[2] = m.to
  BY GoodLink
<1> HIDE DEF k
<1>4. \A l \in Link : net[l] \in Seq(T)
  BY <1>1, SeqGrows
<1>5. Append(net[k], m) \in Seq(T)
  BY <1>3, <1>4
<1>6. net' \in [Link -> Seq(T)]
  BY <1>1, <1>2, <1>3, <1>4, <1>5
<1>7. ASSUME NEW l \in Link, NEW i \in 1..Len(net'[l]) PROVE LinkOf(net'[l][i]) = l
  <2>1. CASE l # k
    BY <1>1, <1>2, <1>7, <2>1
  <2>2. CASE l = k
    <3>1. net'[l] = Append(net[k], m) /\ net[k] \in Seq(T)
      BY <1>1, <1>2, <1>3, <1>4, <2>2
    <3>2. i \in 1..Len(net[k]) => net'[l][i] = net[k][i]
      BY <3>1, <1>7
    <3>3. i = Len(net[k]) + 1 => net'[l][i] = m
      BY <3>1, <1>7
    <3>4. i \in 1..Len(net[k]) \/ i = Len(net[k]) + 1
      BY <3>1, <1>7
    <3> QED
      BY <3>2, <3>3, <3>4, <1>1, <1>3, <2>2 DEF k
  <2> QED
    BY <2>1, <2>2
<1>8. \A x \in T : Good(p, x)
  BY <1>1
<1>9. late' \subseteq T
  BY <1>1, <1>2
<1> QED
  BY <1>6, <1>7, <1>8, <1>9 DEF Carried

(* The first message on a link. *)
LEMMA HeadGood ==
  ASSUME NEW p, Carried(p, net, late), NEW l \in Link, net[l] # <<>>
  PROVE  Good(p, Head(net[l])) /\ LinkOf(Head(net[l])) = l
<1>1. PICK S : /\ \A x \in S : Good(p, x)
               /\ net \in [Link -> Seq(S)]
               /\ \A k \in Link : \A i \in 1..Len(net[k]) : LinkOf(net[k][i]) = k
  BY DEF Carried
<1>2. net[l] \in Seq(S) /\ 1 \in 1..Len(net[l])
  BY <1>1
<1>3. Head(net[l]) = net[l][1] /\ Head(net[l]) \in S
  BY <1>2
<1> QED
  BY <1>1, <1>2, <1>3

LEMMA ArrivingGood ==
  ASSUME NEW p, Carried(p, net, late), NEW to, NEW conns, NEW m \in Arriving(to, conns)
  PROVE  /\ Good(p, m) /\ m.to = to
         /\ m \in late \/ OnTime(m)
<1>1. CASE \E c \in conns : <<c, to>> \in Link /\ net[<<c, to>>] # <<>> /\ m = Head(net[<<c, to>>])
  BY <1>1, HeadGood DEF LinkOf, OnTime
<1>2. CASE m \in late /\ m.to = to
  BY <1>2 DEF Carried
<1> QED
  BY <1>1, <1>2 DEF Arriving

LEMMA TakingCarried ==
  ASSUME NEW p, NEW m, Good(p, m), Carried(p, net, late), OnTime(m), Taking(m)
  PROVE  /\ \E S : /\ \A x \in S : Good(p, x)
                   /\ late \subseteq S /\ m \in S
                   /\ net' \in [Link -> Seq(S)]
         /\ \A l \in Link : \A i \in 1..Len(net'[l]) : LinkOf(net'[l][i]) = l
<1>1. PICK S : /\ \A x \in S : Good(p, x)
               /\ late \subseteq S
               /\ net \in [Link -> Seq(S)]
               /\ \A l \in Link : \A i \in 1..Len(net[l]) : LinkOf(net[l][i]) = l
  BY DEF Carried
<1> DEFINE k == LinkOf(m)
<1>2. net' = [net EXCEPT ![k] = Tail(net[k])] /\ net[k] # <<>> /\ m = Head(net[k])
  BY DEF Taking, OnTime
<1>3. k \in Link
  BY GoodLink
<1> HIDE DEF k
<1>4. net[k] \in Seq(S)
  BY <1>1, <1>3
<1>5. Tail(net[k]) \in Seq(S) /\ Len(Tail(net[k])) = Len(net[k]) - 1 /\ m \in S
  BY <1>2, <1>4
<1>6. \A i \in 1..Len(Tail(net[k])) : Tail(net[k])[i] = net[k][i + 1] /\ i + 1 \in 1..Len(net[k])
  BY <1>2, <1>4, <1>5
<1>7. net' \in [Link -> Seq(S)]
  BY <1>1, <1>2, <1>5
<1>8. \A l \in Link : \A i \in 1..Len(net'[l]) : LinkOf(net'[l][i]) = l
  BY <1>1, <1>2, <1>3, <1>6
<1> QED
  BY <1>1, <1>5, <1>7, <1>8

LEMMA ArrivesCarried ==
  ASSUME NEW p, NEW m, Good(p, m), Carried(p, net, late), Arrives(m)
  PROVE  Carried(p, net', late')
<1>1. CASE OnTime(m) /\ Taking(m) /\ UNCHANGED <<late, faults>>
  BY <1>1, TakingCarried DEF Carried
<1>2. CASE m \in late /\ late' = late \ {m} /\ UNCHANGED <<net, faults>>
  BY <1>2 DEF Carried
<1> QED
  BY <1>1, <1>2 DEF Arrives

LEMMA TroubleCarried ==
  ASSUME NEW p, NEW m, Good(p, m), Carried(p, net, late), Lose(m) \/ Delay(m) \/ Copy(m)
  PROVE  Carried(p, net', late')
<1>1. CASE Lose(m)
  BY <1>1, TakingCarried DEF Carried, Lose
<1>2. CASE Delay(m)
  <2>1. PICK S : /\ \A x \in S : Good(p, x)
                 /\ late \subseteq S /\ m \in S
                 /\ net' \in [Link -> Seq(S)]
    BY <1>2, TakingCarried DEF Delay
  <2>2. \A l \in Link : \A i \in 1..Len(net'[l]) : LinkOf(net'[l][i]) = l
    BY <1>2, TakingCarried DEF Delay
  <2>3. late' \subseteq S
    BY <1>2, <2>1 DEF Delay
  <2> QED
    BY <2>1, <2>2, <2>3 DEF Carried
<1>3. CASE Copy(m)
  <2>1. PICK S : /\ \A x \in S : Good(p, x)
                 /\ late \subseteq S
                 /\ net \in [Link -> Seq(S)]
                 /\ \A l \in Link : \A i \in 1..Len(net[l]) : LinkOf(net[l][i]) = l
    BY DEF Carried
  <2> DEFINE T == S \cup {m}
  <2>2. \A l \in Link : net[l] \in Seq(T)
    BY <2>1, SeqGrows
  <2>3. net' = net /\ late' = late \cup {m}
    BY <1>3 DEF Copy
  <2>4. net \in [Link -> Seq(T)]
    BY <2>1, <2>2
  <2>5. (\A x \in T : Good(p, x)) /\ late' \subseteq T
    BY <2>1, <2>3
  <2> HIDE DEF T
  <2> QED
    BY <2>1, <2>3, <2>4, <2>5 DEF Carried
<1> QED
  BY <1>1, <1>2, <1>3

LEMMA InitCarried ==
  ASSUME NEW p, NEW bound, InitNet(bound)
  PROVE  Carried(p, net, late)
<1>1. net \in [Link -> Seq({})] /\ late \subseteq {} /\ \A l \in Link : Len(net[l]) = 0
  BY DEF InitNet
<1>2. \A x \in {} : Good(p, x)
  OBVIOUS
<1>3. \A l \in Link : \A i \in 1..Len(net[l]) : LinkOf(net[l][i]) = l
  BY <1>1
<1> QED
  BY <1>1, <1>2, <1>3 DEF Carried
-----------------------------------------------------------------------------
(* Block sizes. *)

LEMMA SizeValues ==
  ASSUME NEW szx \in Szx
  PROVE  Size(szx) \in {1, 2, 4, 8, 16, 32, 64}
<1>1. CASE szx = 0
  BY <1>1 DEF Size
<1>2. CASE szx = 1
  BY <1>2 DEF Size
<1>3. CASE szx = 2
  BY <1>3 DEF Size
<1>4. CASE szx = 3
  BY <1>4 DEF Size
<1>5. CASE szx = 4
  BY <1>5 DEF Size
<1>6. CASE szx = 5
  BY <1>6 DEF Size
<1>7. CASE szx = 6
  BY <1>7 DEF Size
<1> QED
  BY <1>1, <1>2, <1>3, <1>4, <1>5, <1>6, <1>7 DEF Szx

LEMMA SizePositive ==
  ASSUME NEW szx \in Szx
  PROVE  Size(szx) \in Nat /\ Size(szx) > 0
BY SizeValues

LEMMA ClientSize == ClientSzx \in Szx /\ Size(ClientSzx) \in Nat /\ Size(ClientSzx) > 0
BY ClientAssumption, SizePositive DEF Szx

(* Which block a place is in. *)
LEMMA Division ==
  ASSUME NEW szx \in Szx, NEW x \in Nat
  PROVE  /\ x \div Size(szx) \in Nat
         /\ (x \div Size(szx)) * Size(szx) <= x
         /\ \A k \in Nat : x = k * Size(szx) => x \div Size(szx) = k
<1> DEFINE s == Size(szx)
<1>0. s \in {1, 2, 4, 8, 16, 32, 64}
  BY SizeValues
<1> HIDE DEF s
<1>1. CASE s = 1
  BY <1>1 DEF s
<1>2. CASE s = 2
  BY <1>2 DEF s
<1>3. CASE s = 4
  BY <1>3 DEF s
<1>4. CASE s = 8
  BY <1>4 DEF s
<1>5. CASE s = 16
  BY <1>5 DEF s
<1>6. CASE s = 32
  BY <1>6 DEF s
<1>7. CASE s = 64
  BY <1>7 DEF s
<1>8. /\ x \div s \in Nat
      /\ (x \div s) * s <= x
      /\ \A k \in Nat : x = k * s => x \div s = k
  BY <1>0, <1>1, <1>2, <1>3, <1>4, <1>5, <1>6, <1>7
<1> QED
  BY <1>8 DEF s

(* Products of block numbers and sizes. *)
LEMMA Products ==
  ASSUME NEW szx \in Szx, NEW k \in Nat
  PROVE  /\ k * Size(szx) \in Nat
         /\ k > 0 => k * Size(szx) >= Size(szx)
         /\ (k + 1) * Size(szx) = k * Size(szx) + Size(szx)
         /\ 0 * Size(szx) = 0
<1> DEFINE s == Size(szx)
<1>0. s \in {1, 2, 4, 8, 16, 32, 64}
  BY SizeValues
<1> HIDE DEF s
<1>1. CASE s = 1
  BY <1>1 DEF s
<1>2. CASE s = 2
  BY <1>2 DEF s
<1>3. CASE s = 4
  BY <1>3 DEF s
<1>4. CASE s = 8
  BY <1>4 DEF s
<1>5. CASE s = 16
  BY <1>5 DEF s
<1>6. CASE s = 32
  BY <1>6 DEF s
<1>7. CASE s = 64
  BY <1>7 DEF s
<1>8. /\ k * s \in Nat
      /\ k > 0 => k * s >= s
      /\ (k + 1) * s = k * s + s
      /\ 0 * s = 0
  BY <1>0, <1>1, <1>2, <1>3, <1>4, <1>5, <1>6, <1>7
<1> QED
  BY <1>8 DEF s
-----------------------------------------------------------------------------
(* Bodies and their parts. *)

LEMMA NoBlockPlace == ~HasBlock(NoBlock) /\ Offset(NoBlock) = -1 /\ NoBlock.more = FALSE
                        /\ NoBlock.num = -1 /\ NoBlock.szx = 0
<1>1. 0 \in Szx
  BY DEF Szx
<1>2. Size(0) = 1
  BY DEF Size
<1> QED
  BY <1>2 DEF NoBlock, HasBlock, Offset

LEMMA BlockTypes ==
  ASSUME NEW b \in Blocks
  PROVE  /\ b.num \in Int /\ b.szx \in Szx /\ b.more \in BOOLEAN
         /\ HasBlock(b) => b.num \in Nat /\ Offset(b) \in Nat
         /\ ~HasBlock(b) => b = NoBlock
<1>1. CASE b = NoBlock
  <2>1. b.num = -1 /\ b.szx = 0 /\ ~HasBlock(b)
    BY <1>1, NoBlockPlace
  <2>2. b.more \in BOOLEAN
    BY <1>1, NoBlockPlace
  <2> QED
    BY <1>1, <2>1, <2>2 DEF Szx
<1>2. CASE b \in [num : Nat, more : BOOLEAN, szx : Szx]
  BY <1>2, Products DEF HasBlock, Offset
<1> QED
  BY <1>1, <1>2 DEF Blocks

LEMMA ChunksAreBlocks == ASSUME NEW r PROVE Chunks(r) \subseteq Blocks
BY ClientSize DEF Chunks, Blocks

LEMMA EmptyPiece == ASSUME NEW from PROVE Piece(<<>>, from) /\ Len(<<>>) = 0
BY DEF Piece

LEMMA UnitsPiece ==
  ASSUME NEW v \in Nat, NEW n \in Nat
  PROVE  Piece(Units(v, n), 0) /\ Len(Units(v, n)) = n
<1>1. Units(v, n) \in [1..n -> Unit]
  BY DEF Units, Unit
<1>2. Units(v, n) \in Seq(Unit) /\ Len(Units(v, n)) = n
  BY <1>1
<1>3. \A i \in 1..n : Units(v, n)[i].at = 0 + i
  BY DEF Units
<1> QED
  BY <1>2, <1>3 DEF Piece

LEMMA JoinPieces ==
  ASSUME NEW a, NEW b, Piece(a, 0), Piece(b, Len(a))
  PROVE  Piece(a \o b, 0) /\ Len(a \o b) = Len(a) + Len(b)
<1>1. a \in Seq(Unit) /\ b \in Seq(Unit)
  BY DEF Piece
<1>2. a \o b \in Seq(Unit) /\ Len(a \o b) = Len(a) + Len(b)
  BY <1>1
<1>3. ASSUME NEW i \in 1..Len(a \o b) PROVE (a \o b)[i].at = 0 + i
  <2>1. CASE i <= Len(a)
    BY <1>1, <1>2, <1>3, <2>1 DEF Piece
  <2>2. CASE i > Len(a)
    <3>1. (a \o b)[i] = b[i - Len(a)] /\ i - Len(a) \in 1..Len(b)
      BY <1>1, <1>2, <1>3, <2>2
    <3>2. b[i - Len(a)].at = Len(a) + (i - Len(a))
      BY <3>1 DEF Piece
    <3> QED
      BY <1>1, <3>1, <3>2
  <2> QED
    BY <1>1, <1>2, <1>3, <2>1, <2>2
<1> QED
  BY <1>2, <1>3 DEF Piece

(* A block of a body is the piece at the block's place. *)
LEMMA PartPiece ==
  ASSUME NEW body, Piece(body, 0), NEW from \in Nat, NEW upto \in from..Len(body)
  PROVE  /\ Piece(SubSeq(body, from + 1, upto), from)
         /\ Len(SubSeq(body, from + 1, upto)) = upto - from
<1> DEFINE s == SubSeq(body, from + 1, upto)
<1>1. body \in Seq(Unit) /\ Len(body) \in Nat /\ upto \in Nat
  BY DEF Piece
<1>2. s \in Seq(Unit) /\ Len(s) = upto - from
  BY <1>1
<1>3. \A i \in 1..(upto - from) : s[i] = body[from + i] /\ from + i \in 1..Len(body)
  BY <1>1
<1>4. \A i \in 1..Len(s) : s[i].at = from + i
  BY <1>1, <1>2, <1>3 DEF Piece
<1> QED
  BY <1>2, <1>4 DEF Piece

(* A prefix and the chunk that follows it make a longer prefix. *)
LEMMA JoinParts ==
  ASSUME NEW body \in Seq(Unit), NEW n \in 0..Len(body), NEW k \in n..Len(body)
  PROVE  SubSeq(body, 1, n) \o SubSeq(body, n + 1, k) = SubSeq(body, 1, k)
<1> DEFINE a == SubSeq(body, 1, n)
           b == SubSeq(body, n + 1, k)
           c == SubSeq(body, 1, k)
<1>1. a \in Seq(Unit) /\ Len(a) = n /\ \A i \in 1..n : a[i] = body[i]
  OBVIOUS
<1>2. b \in Seq(Unit) /\ Len(b) = k - n /\ \A i \in 1..(k - n) : b[i] = body[n + i]
  OBVIOUS
<1>3. c \in Seq(Unit) /\ Len(c) = k /\ \A i \in 1..k : c[i] = body[i]
  OBVIOUS
<1> HIDE DEF a, b, c
<1>0. n \in Nat /\ k \in Nat
  OBVIOUS
<1>4. a \o b \in Seq(Unit) /\ Len(a \o b) = k
  BY <1>0, <1>1, <1>2
<1>5. \A i \in 1..k : (a \o b)[i] = c[i]
  <2> TAKE i \in 1..k
  <2>0. i <= n \/ i > n
    BY <1>0
  <2>1. CASE i <= n
    BY <1>1, <1>2, <1>3, <2>1
  <2>2. CASE i > n
    <3>1. (a \o b)[i] = b[i - n] /\ i - n \in 1..(k - n)
      BY <1>1, <1>2, <2>2
    <3>2. b[i - n] = body[n + (i - n)]
      BY <1>2, <3>1
    <3> QED
      BY <1>3, <3>1, <3>2
  <2> QED
    BY <2>0, <2>1, <2>2
<1> QED
  BY <1>3, <1>4, <1>5 DEF a, b, c

LEMMA WholeShape ==
  ASSUME NEW r \in Request
  PROVE  /\ r \in Nat /\ BodyLen[r] \in Nat
         /\ Whole(r) \in Seq(Unit) /\ Len(Whole(r)) = BodyLen[r]
         /\ SubSeq(Whole(r), 1, BodyLen[r]) = Whole(r)
<1>1. r \in Nat /\ BodyLen[r] \in Nat
  BY MessagesAssumption, ClientAssumption
<1>2. Whole(r) \in Seq(Unit) /\ Len(Whole(r)) = BodyLen[r]
  BY <1>1, UnitsPiece DEF Whole, Piece
<1>3. SubSeq(Whole(r), 1, BodyLen[r]) = Whole(r)
  BY <1>1, <1>2
<1> QED
  BY <1>1, <1>2, <1>3

LEMMA PrefixLength ==
  ASSUME NEW r \in Request, NEW n \in 0..BodyLen[r]
  PROVE  Len(SubSeq(Whole(r), 1, n)) = n
BY WholeShape
-----------------------------------------------------------------------------
(***************************************************************************)
(* The client.                                                             *)
(***************************************************************************)
(* A request that has changed its state, and has not ended well by that.   *)
Restated(q, n) ==
  /\ HasFields(n, AskedFields)
  /\ n.b2 = q.b2 /\ n.resp = q.resp /\ n.b1off = q.b1off /\ n.b1size = q.b1size
  /\ Ended(n) => Ended(q)

LEMMA RestatedAsked ==
  ASSUME NEW p, NEW r, NEW q, NEW n, Asked(p, q, r), Restated(q, n)
  PROVE  Asked(p, n, r)
<1>1. Ended(n) /\ n.resp.code = "OK" => Len(n.resp.body) = Total(p, r)
  BY DEF Asked, Going, Restated, Ended
<1> QED
  BY <1>1 DEF Asked, Going, Restated, Ended, AskedFields

LEMMA SameRestated ==
  ASSUME NEW p, NEW r, NEW q, Asked(p, q, r)
  PROVE  Restated(q, q)
BY DEF Asked, Going, Restated, AskedFields

LEMMA ClientKeeps ==
  ASSUME AskedInv, peer' = peer, IsArray(creq'), UNCHANGED <<cack, crst>>,
         \A r \in Request : Restated(creq[r], creq'[r])
  PROVE  AskedInv'
<1>1. \A r \in Request : Asked(peer, creq'[r], r)
  BY RestatedAsked DEF AskedInv
<1>2. \A m \in Outgoing' : Question(peer, m)
  BY DEF AskedInv, Outgoing
<1> QED
  BY <1>1, <1>2 DEF AskedInv

(* One request changes. *)
LEMMA OneKeeps ==
  ASSUME AskedInv, peer' = peer, UNCHANGED <<cack, crst>>,
         NEW r \in Request, NEW n, creq' = [creq EXCEPT ![r] = n], Restated(creq[r], n)
  PROVE  AskedInv'
<1>1. IsArray(creq')
  BY DEF AskedInv, IsArray
<1>2. \A s \in Request : Restated(creq[s], creq'[s])
  BY SameRestated DEF AskedInv, IsArray
<1> QED
  BY <1>1, <1>2, ClientKeeps

LEMMA FinishRestated ==
  ASSUME NEW p, NEW r, NEW q, Asked(p, q, r),
         NEW status \in {"STOPPED", "TIMEOUT", "RESET", "DECODE_ERROR"}
  PROVE  Restated(q, Finish(q, status))
<1>1. HasFields(q, AskedFields)
  BY DEF Asked, Going, AskedFields
<1>2. HasFields(Finish(q, status), AskedFields)
  BY <1>1 DEF HasFields, Finish, AskedFields
<1>3. /\ Finish(q, status).b2 = q.b2 /\ Finish(q, status).resp = q.resp
      /\ Finish(q, status).b1off = q.b1off /\ Finish(q, status).b1size = q.b1size
      /\ Finish(q, status).status = status
  BY <1>1 DEF HasFields, Finish, AskedFields
<1>4. ~Ended(Finish(q, status))
  BY <1>3 DEF Ended
<1> QED
  BY <1>2, <1>3, <1>4 DEF Restated

LEMMA StateRestated ==
  ASSUME NEW p, NEW r, NEW q, Asked(p, q, r), NEW n, HasFields(n, AskedFields),
         n.b2 = q.b2, n.resp = q.resp, n.b1off = q.b1off, n.b1size = q.b1size,
         n.state \notin {"DONE_CALLBACK", "DONE"}
  PROVE  Restated(q, n)
BY DEF Restated, Ended

LEMMA FreshAsked ==
  ASSUME NEW p, NEW r \in Request, NEW state, state \notin {"DONE_CALLBACK", "DONE"}
  PROVE  Asked(p, [NewRequest EXCEPT !.state = state], r)
<1> DEFINE n == [NewRequest EXCEPT !.state = state]
<1>1. HasFields(n, AskedFields) /\ n.state = state
  BY DEF HasFields, NewRequest, AskedFields
<1>2. n.b2 = NoBlock /\ n.resp = NoResponse /\ n.b1off = 0 /\ n.b1size = ClientSzx
  BY DEF NewRequest
<1>3. HasFields(NoResponse, {"code", "body"}) /\ NoResponse.body = <<>> /\ NoResponse.code = "EMPTY"
  BY DEF HasFields, NoResponse
<1>4. Boundary(0, r)
  BY ClientSize, Products, WholeShape DEF Boundary
<1>5. NoBlock \in Blocks
  BY DEF Blocks
<1> HIDE DEF n
<1>6. Asked(p, n, r)
  BY <1>1, <1>2, <1>3, <1>4, <1>5, EmptyPiece DEF Asked, Going, AskedFields
<1> QED
  BY <1>6 DEF n

LEMMA NewAsked ==
  ASSUME AskedInv, peer' = peer, NEW r \in Request, New(r)
  PROVE  AskedInv'
<1> DEFINE n == [creq[r] EXCEPT !.state = "IDLE", !.mid = cmid + 1]
<1>1. HasFields(n, AskedFields) /\ n.state = "IDLE" /\ n.b2 = creq[r].b2
        /\ n.resp = creq[r].resp /\ n.b1off = creq[r].b1off /\ n.b1size = creq[r].b1size
  BY DEF AskedInv, Asked, Going, HasFields, AskedFields
<1>2. creq' = [creq EXCEPT ![r] = n] /\ UNCHANGED <<cack, crst>>
  BY DEF New, AskedInv, IsArray
<1> HIDE DEF n
<1>3. Restated(creq[r], n)
  BY <1>1, StateRestated DEF AskedInv
<1> QED
  BY <1>2, <1>3, OneKeeps

LEMMA SendAsked ==
  ASSUME AskedInv, peer' = peer, NEW r \in Request, Send(r)
  PROVE  AskedInv'
<1> DEFINE n == [creq[r] EXCEPT !.state = "SEND_REQUEST"]
<1>1. HasFields(n, AskedFields) /\ n.state = "SEND_REQUEST" /\ n.b2 = creq[r].b2
        /\ n.resp = creq[r].resp /\ n.b1off = creq[r].b1off /\ n.b1size = creq[r].b1size
  BY DEF AskedInv, Asked, Going, HasFields, AskedFields
<1>2. creq' = [creq EXCEPT ![r] = n] /\ UNCHANGED <<cack, crst>>
  BY DEF Send, AskedInv, IsArray
<1> HIDE DEF n
<1>3. Restated(creq[r], n)
  BY <1>1, StateRestated DEF AskedInv
<1> QED
  BY <1>2, <1>3, OneKeeps

LEMMA CancelAsked ==
  ASSUME AskedInv, peer' = peer, NEW r \in Request, Cancel(r)
  PROVE  AskedInv'
<1>1. creq' = [creq EXCEPT ![r] = Finish(creq[r], "STOPPED")] /\ UNCHANGED <<cack, crst>>
  BY DEF Cancel
<1>2. Restated(creq[r], Finish(creq[r], "STOPPED"))
  BY FinishRestated DEF AskedInv
<1> QED
  BY <1>1, <1>2, OneKeeps

LEMMA DeregisterAsked ==
  ASSUME AskedInv, peer' = peer, NEW r \in Request, Deregister(r)
  PROVE  AskedInv'
<1> DEFINE n == [creq[r] EXCEPT !.dereg = TRUE, !.mid = cmid + 1, !.retrans = 0,
                                !.state = "SEND_REQUEST"]
           d == [creq[r] EXCEPT !.dereg = TRUE]
<1>1. HasFields(n, AskedFields) /\ n.state = "SEND_REQUEST" /\ n.b2 = creq[r].b2
        /\ n.resp = creq[r].resp /\ n.b1off = creq[r].b1off /\ n.b1size = creq[r].b1size
  BY DEF AskedInv, Asked, Going, HasFields, AskedFields
<1>2. HasFields(d, AskedFields) /\ d.state = creq[r].state /\ d.b2 = creq[r].b2
        /\ d.resp = creq[r].resp /\ d.b1off = creq[r].b1off /\ d.b1size = creq[r].b1size
        /\ d.status = creq[r].status
  BY DEF AskedInv, Asked, Going, HasFields, AskedFields
<1>3. creq' = [creq EXCEPT ![r] = n] \/ creq' = [creq EXCEPT ![r] = d]
  BY DEF Deregister, AskedInv, IsArray
<1>4. UNCHANGED <<cack, crst>>
  BY DEF Deregister
<1> HIDE DEF n, d
<1>5. Restated(creq[r], n)
  BY <1>1, StateRestated DEF AskedInv
<1>6. Restated(creq[r], d)
  BY <1>2 DEF Restated, Ended
<1> QED
  BY <1>3, <1>4, <1>5, <1>6, OneKeeps

LEMMA FreeAsked ==
  ASSUME AskedInv, peer' = peer, NEW r \in Request, Free(r)
  PROVE  AskedInv'
<1> DEFINE n == [NewRequest EXCEPT !.state = "FREED"]
<1>1. creq' = [creq EXCEPT ![r] = n] /\ UNCHANGED <<cack, crst>>
  BY DEF Free
<1>2. Asked(peer, n, r)
  BY FreshAsked
<1> HIDE DEF n
<1>3. IsArray(creq') /\ \A s \in Request : Asked(peer, creq'[s], s)
  BY <1>1, <1>2 DEF AskedInv, IsArray
<1> QED
  BY <1>1, <1>3 DEF AskedInv, Outgoing

LEMMA RemoveConnectionAsked ==
  ASSUME AskedInv, peer' = peer, NEW c \in Conn, RemoveClientConnection(c)
  PROVE  AskedInv'
<1>1. \A r \in Request : Restated(creq[r], Finish(creq[r], "STOPPED"))
  BY FinishRestated DEF AskedInv
<1>2. \A r \in Request : Restated(creq[r], creq[r])
  BY SameRestated DEF AskedInv
<1>3. creq' = [r \in Request |->
                IF ConnOf[r] = c /\ creq[r].state \in Unfinished
                  THEN Finish(creq[r], "STOPPED") ELSE creq[r]]
  BY DEF RemoveClientConnection
<1>4. IsArray(creq')
  BY <1>3 DEF IsArray
<1>5. \A r \in Request : Restated(creq[r], creq'[r])
  BY <1>1, <1>2, <1>3
<1>6. UNCHANGED <<cack, crst>>
  BY DEF RemoveClientConnection
<1> QED
  BY <1>4, <1>5, <1>6, ClientKeeps

LEMMA TimeoutAsked ==
  ASSUME AskedInv, peer' = peer, NEW r \in Request, HandleClientTimeout(r)
  PROVE  AskedInv'
<1> DEFINE n == Retried(creq[r])
<1>1. HasFields(n, AskedFields) /\ n.state = "SEND_REQUEST" /\ n.b2 = creq[r].b2
        /\ n.resp = creq[r].resp /\ n.b1off = creq[r].b1off /\ n.b1size = creq[r].b1size
  BY DEF AskedInv, Asked, Going, HasFields, AskedFields, Retried
<1>2. creq' = [creq EXCEPT ![r] = n] \/ creq' = [creq EXCEPT ![r] = Finish(creq[r], "TIMEOUT")]
  BY DEF HandleClientTimeout
<1>3. UNCHANGED <<cack, crst>>
  BY DEF HandleClientTimeout
<1> HIDE DEF n
<1>4. Restated(creq[r], n) /\ Restated(creq[r], Finish(creq[r], "TIMEOUT"))
  BY <1>1, StateRestated, FinishRestated DEF AskedInv
<1> QED
  BY <1>2, <1>3, <1>4, OneKeeps

LEMMA CallbackAsked ==
  ASSUME AskedInv, peer' = peer, HandleCallback
  PROVE  AskedInv' /\ UNCHANGED netVars
<1>1. PICK r \in Request :
        /\ creq[r].state = "DONE_CALLBACK"
        /\ \/ creq' = [creq EXCEPT ![r].state = "WAIT_RESPONSE",
                                   ![r].status = "OBSERVE_NOTIFICATION"]
           \/ creq' = [creq EXCEPT ![r].state = "DONE"]
  BY DEF HandleCallback, NextDue
<1> DEFINE n == [creq[r] EXCEPT !.state = "WAIT_RESPONSE", !.status = "OBSERVE_NOTIFICATION"]
           d == [creq[r] EXCEPT !.state = "DONE"]
<1>2. HasFields(n, AskedFields) /\ n.state = "WAIT_RESPONSE" /\ n.b2 = creq[r].b2
        /\ n.resp = creq[r].resp /\ n.b1off = creq[r].b1off /\ n.b1size = creq[r].b1size
  BY DEF AskedInv, Asked, Going, HasFields, AskedFields
<1>3. HasFields(d, AskedFields) /\ d.b2 = creq[r].b2
        /\ d.resp = creq[r].resp /\ d.b1off = creq[r].b1off /\ d.b1size = creq[r].b1size
        /\ d.status = creq[r].status
  BY DEF AskedInv, Asked, Going, HasFields, AskedFields
<1>4. creq' = [creq EXCEPT ![r] = n] \/ creq' = [creq EXCEPT ![r] = d]
  BY <1>1 DEF AskedInv, IsArray
<1>5. UNCHANGED <<cack, crst, netVars>>
  BY DEF HandleCallback
<1> HIDE DEF n, d
<1>6. Restated(creq[r], n)
  BY <1>2, StateRestated DEF AskedInv
<1>7. Restated(creq[r], d)
  BY <1>1, <1>3 DEF Restated, Ended
<1> QED
  BY <1>4, <1>5, <1>6, <1>7, OneKeeps
-----------------------------------------------------------------------------
(* What the client sends. *)

LEMMA BlockOfPart ==
  ASSUME NEW body \in Seq(Unit), NEW num \in Nat, NEW szx \in Szx,
         num * Size(szx) <= Len(body)
  PROVE  /\ num * Size(szx) \in Nat
         /\ \E upto \in (num * Size(szx))..Len(body) :
              /\ BlockOf(body, num, szx) = SubSeq(body, num * Size(szx) + 1, upto)
              /\ num * Size(szx) + Size(szx) >= Len(body) => upto = Len(body)
<1> DEFINE from == num * Size(szx)
           s == Size(szx)
           upto == IF from + s < Len(body) THEN from + s ELSE Len(body)
<1>1. from \in Nat /\ s \in Nat /\ s > 0
  BY Products, SizePositive
<1>2. Len(body) \in Nat /\ from <= Len(body)
  OBVIOUS
<1>3. BlockOf(body, num, szx) = SubSeq(body, from + 1, upto)
  BY DEF BlockOf
<1> HIDE DEF from, s
<1>4. upto \in from..Len(body) /\ (from + s >= Len(body) => upto = Len(body))
  BY <1>1, <1>2
<1> HIDE DEF upto
<1>5. \E x \in from..Len(body) :
        /\ BlockOf(body, num, szx) = SubSeq(body, from + 1, x)
        /\ from + s >= Len(body) => x = Len(body)
  BY <1>3, <1>4
<1> QED
  BY <1>1, <1>5 DEF from, s

LEMMA RequestPacketGood ==
  ASSUME NEW p, NEW r \in Request, Asked(p, creq[r], r)
  PROVE  Question(p, RequestPacket(r))
<1> DEFINE q == creq[r]
           m == RequestPacket(r)
           size == Size(q.b1size)
           carries == q.b2.num <= 0 /\ q.b1off < BodyLen[r]
           num == q.b1off \div size
<1>1. /\ m.to = "server" /\ m.conn = ConnOf[r] /\ m.token = r /\ m.b2 = q.b2
      /\ m.b1 = IF carries /\ BodyLen[r] > size
                  THEN [num |-> num, more |-> BodyLen[r] - q.b1off > size, szx |-> q.b1size]
                  ELSE NoBlock
      /\ m.pay = IF carries THEN BlockOf(Whole(r), num, q.b1size) ELSE <<>>
  BY DEF RequestPacket, Message, Whole
<1> HIDE DEF m
<1>2. m.conn \in Conn /\ m.b2 \in Blocks
  BY <1>1, MessagesAssumption DEF Asked, Going
<1>3. ASSUME p = "own" PROVE Chunked(m)
  <2>1. q.b1size = ClientSzx /\ Boundary(q.b1off, r)
    BY <1>3 DEF Asked, Going
  <2>2. BodyLen[r] \in Nat /\ Whole(r) \in Seq(Unit) /\ Len(Whole(r)) = BodyLen[r]
    BY WholeShape
  <2>3. CASE ~carries
    BY <1>1, <2>3, NoBlockPlace DEF Chunked, Chunks
  <2>4. CASE carries
    <3>1. PICK k \in Nat : q.b1off = k * Size(ClientSzx)
      BY <2>1, <2>4 DEF Boundary
    <3>2. num = k
      BY <2>1, <3>1, ClientSize, Division, Products
    <3>3. PICK upto \in (k * Size(ClientSzx))..BodyLen[r] :
            /\ m.pay = SubSeq(Whole(r), k * Size(ClientSzx) + 1, upto)
            /\ k * Size(ClientSzx) + Size(ClientSzx) >= BodyLen[r] => upto = BodyLen[r]
      <4>1. k * Size(ClientSzx) <= Len(Whole(r))
        <5>1. q.b1off \in Nat /\ q.b1off < BodyLen[r]
          BY <2>1, <2>4 DEF Boundary
        <5> QED
          BY <2>2, <3>1, <5>1
      <4>2. m.pay = BlockOf(Whole(r), k, ClientSzx)
        BY <1>1, <2>1, <2>4, <3>2
      <4> HIDE DEF carries, num, q, size
      <4> QED
        BY <2>2, <4>1, <4>2, ClientSize, BlockOfPart
    <3>4. CASE BodyLen[r] > size
      <4>1. m.b1 = [num |-> k, more |-> BodyLen[r] - q.b1off > size, szx |-> ClientSzx]
        BY <1>1, <2>1, <2>4, <3>2, <3>4
      <4>2. m.b1.num = k /\ m.b1.szx = ClientSzx
        BY <4>1
      <4>3. HasBlock(m.b1) /\ Offset(m.b1) = k * Size(ClientSzx)
        BY <4>2 DEF HasBlock, Offset
      <4>5. m.b1.more = (BodyLen[r] - q.b1off > size)
        BY <4>1
      <4>4. m.b1 \in Chunks(m.token)
        <5>1. m.b1.more = TRUE => k * Size(ClientSzx) + Size(ClientSzx) < BodyLen[r]
          <6>1. k * Size(ClientSzx) \in Nat /\ Size(ClientSzx) \in Nat
            BY ClientSize, Products
          <6>2. SUFFICES ASSUME m.b1.more = TRUE
                         PROVE  k * Size(ClientSzx) + Size(ClientSzx) < BodyLen[r]
            OBVIOUS
          <6> DEFINE off == k * Size(ClientSzx)
                     one == Size(ClientSzx)
          <6>3. BodyLen[r] - off > one
            BY <2>1, <3>1, <4>5, <6>2
          <6> HIDE DEF off, one
          <6>4. off + one < BodyLen[r]
            BY <2>2, <6>1, <6>3 DEF off, one
          <6> QED
            BY <6>4 DEF off, one
        <5>2. LeavesMore(m.b1, r)
          BY <4>2, <4>3, <5>1 DEF LeavesMore
        <5>3. m.b1 \in [num : Nat, more : BOOLEAN, szx : {ClientSzx}]
          BY <4>1
        <5> QED
          BY <1>1, <5>2, <5>3 DEF Chunks
      <4>6. m.b1.more = FALSE => upto = BodyLen[r]
        <5>1. k * Size(ClientSzx) \in Nat /\ Size(ClientSzx) \in Nat
          BY ClientSize, Products
        <5>2. SUFFICES ASSUME m.b1.more = FALSE PROVE upto = BodyLen[r]
          OBVIOUS
        <5>3. ~(BodyLen[r] - q.b1off > size)
          BY <4>5, <5>2
        <5> DEFINE off == k * Size(ClientSzx)
                   one == Size(ClientSzx)
        <5>4. ~(BodyLen[r] - off > one)
          BY <2>1, <3>1, <5>3
        <5> HIDE DEF off, one
        <5>5. off + one >= BodyLen[r]
          BY <2>2, <5>1, <5>4 DEF off, one
        <5> QED
          BY <3>3, <5>5 DEF off, one
      <4> QED
        BY <1>1, <3>3, <4>3, <4>4, <4>6 DEF Chunked
    <3>5. CASE ~(BodyLen[r] > size)
      <4>1. k * Size(ClientSzx) \in Nat /\ Size(ClientSzx) \in Nat
              /\ (k > 0 => k * Size(ClientSzx) >= Size(ClientSzx)) /\ 0 * Size(ClientSzx) = 0
        BY ClientSize, Products
      <4>2. k * Size(ClientSzx) < BodyLen[r] /\ BodyLen[r] <= Size(ClientSzx)
        BY <2>1, <2>2, <2>4, <3>1, <3>5, <4>1
      <4>3. k = 0
        BY <2>2, <4>1, <4>2
      <4>4. k * Size(ClientSzx) = 0
        BY <4>1, <4>3
      <4>5. upto = BodyLen[r]
        <5> DEFINE off == k * Size(ClientSzx)
                   one == Size(ClientSzx)
        <5>1. off = 0 /\ one \in Nat /\ BodyLen[r] <= one
          BY <4>1, <4>2, <4>4
        <5> HIDE DEF off, one
        <5>2. off + one >= BodyLen[r]
          BY <2>2, <5>1
        <5> QED
          BY <3>3, <5>2 DEF off, one
      <4>6. m.pay = Whole(r)
        BY <3>3, <4>4, <4>5, WholeShape
      <4>7. m.b1 = NoBlock
        BY <1>1, <3>5
      <4> QED
        BY <1>1, <4>6, <4>7, NoBlockPlace DEF Chunked, Chunks
    <3> QED
      BY <3>4, <3>5
  <2> QED
    BY <2>3, <2>4
<1>4. Question(p, m)
  BY <1>1, <1>2, <1>3 DEF Question
<1> QED
  BY <1>4 DEF m

LEMMA EmptyToServer ==
  ASSUME NEW p, NEW type \in {"ACK", "RST"}, NEW mid, NEW conn \in Conn
  PROVE  Question(p, EmptyMessage("server", type, mid, conn))
BY DEF Question, EmptyMessage, Message

LEMMA ClientSlots ==
  ASSUME AskedInv, NetInv, peer' = peer, SendClientRst \/ SendClientAck
  PROVE  AskedInv' /\ NetInv'
<1>1. PICK m \in Outgoing : Sends(m)
  BY DEF SendClientRst, SendClientAck, Outgoing
<1>2. Good(peer, m)
  BY DEF AskedInv, Good
<1>3. NetInv'
  BY <1>1, <1>2, SendsCarried DEF NetInv
<1>4. Outgoing' \subseteq Outgoing /\ creq' = creq
  BY DEF SendClientRst, SendClientAck, Outgoing
<1> QED
  BY <1>3, <1>4 DEF AskedInv

LEMMA SendRequestAsked ==
  ASSUME AskedInv, NetInv, peer' = peer, SendRequest
  PROVE  AskedInv' /\ NetInv'
<1>1. PICK r \in Request :
        \/ /\ Sends(RequestPacket(r))
           /\ creq' = [creq EXCEPT ![r].state = IF TypeOf[r] = "NON" THEN "WAIT_RESPONSE"
                                                                    ELSE "WAIT_ACK"]
        \/ /\ creq' = [creq EXCEPT ![r] = Finish(creq[r], "DECODE_ERROR")]
           /\ UNCHANGED netVars
  BY DEF SendRequest
<1>2. UNCHANGED <<cack, crst>>
  BY DEF SendRequest
<1>3. CASE Sends(RequestPacket(r))
             /\ creq' = [creq EXCEPT ![r].state = IF TypeOf[r] = "NON" THEN "WAIT_RESPONSE"
                                                                      ELSE "WAIT_ACK"]
  <2> DEFINE state == IF TypeOf[r] = "NON" THEN "WAIT_RESPONSE" ELSE "WAIT_ACK"
             n == [creq[r] EXCEPT !.state = state]
  <2>1. Good(peer, RequestPacket(r))
    BY RequestPacketGood DEF AskedInv, Good
  <2>2. NetInv'
    BY <1>3, <2>1, SendsCarried DEF NetInv
  <2>3. creq' = [creq EXCEPT ![r] = n]
    BY <1>3 DEF AskedInv, IsArray
  <2>4. state \notin {"DONE_CALLBACK", "DONE"}
    OBVIOUS
  <2> HIDE DEF state
  <2>5. HasFields(n, AskedFields) /\ n.state = state /\ n.b2 = creq[r].b2
          /\ n.resp = creq[r].resp /\ n.b1off = creq[r].b1off /\ n.b1size = creq[r].b1size
    BY DEF AskedInv, Asked, Going, HasFields, AskedFields
  <2> HIDE DEF n
  <2>6. Restated(creq[r], n)
    BY <2>4, <2>5, StateRestated DEF AskedInv
  <2> QED
    BY <1>2, <2>2, <2>3, <2>6, OneKeeps
<1>4. CASE creq' = [creq EXCEPT ![r] = Finish(creq[r], "DECODE_ERROR")] /\ UNCHANGED netVars
  <2>1. Restated(creq[r], Finish(creq[r], "DECODE_ERROR"))
    BY FinishRestated DEF AskedInv
  <2>2. AskedInv'
    BY <1>2, <1>4, <2>1, OneKeeps
  <2> QED
    BY <1>4, <2>2 DEF NetInv, netVars
<1> QED
  BY <1>1, <1>3, <1>4
-----------------------------------------------------------------------------
(* What the client receives. *)

LEMMA AckAsked ==
  ASSUME AskedInv, peer' = peer, NEW m, HandleAck(m)
  PROVE  AskedInv'
<1> DEFINE n(r) == [creq[r] EXCEPT !.state = "WAIT_RESPONSE"]
<1>1. \A r \in Request : HasFields(n(r), AskedFields) /\ n(r).state = "WAIT_RESPONSE"
        /\ n(r).b2 = creq[r].b2 /\ n(r).resp = creq[r].resp
        /\ n(r).b1off = creq[r].b1off /\ n(r).b1size = creq[r].b1size
  BY DEF AskedInv, Asked, Going, HasFields, AskedFields
<1>2. creq' = [r \in Request |->
                IF creq[r].state = "WAIT_ACK" /\ creq[r].mid = m.mid /\ ConnOf[r] = m.conn
                  THEN n(r) ELSE creq[r]]
  BY DEF HandleAck
<1> HIDE DEF n
<1>3. \A r \in Request : Restated(creq[r], n(r)) /\ Restated(creq[r], creq[r])
  BY <1>1, StateRestated, SameRestated DEF AskedInv
<1>4. IsArray(creq') /\ \A r \in Request : Restated(creq[r], creq'[r])
  BY <1>2, <1>3 DEF IsArray
<1>5. UNCHANGED <<cack, crst>>
  BY DEF HandleAck
<1> QED
  BY <1>4, <1>5, ClientKeeps

LEMMA RstAsked ==
  ASSUME AskedInv, peer' = peer, NEW m, HandleRst(m)
  PROVE  AskedInv'
<1>1. creq' = [r \in Request |->
                IF Resettable(r) /\ creq[r].mid = m.mid /\ ConnOf[r] = m.conn
                  THEN Finish(creq[r], "RESET") ELSE creq[r]]
  BY DEF HandleRst
<1>2. \A r \in Request : /\ Restated(creq[r], Finish(creq[r], "RESET"))
                         /\ Restated(creq[r], creq[r])
  BY FinishRestated, SameRestated DEF AskedInv
<1>3. IsArray(creq') /\ \A r \in Request : Restated(creq[r], creq'[r])
  BY <1>1, <1>2 DEF IsArray
<1>4. UNCHANGED <<cack, crst>>
  BY DEF HandleRst
<1> QED
  BY <1>3, <1>4, ClientKeeps

LEMMA UnexpectedAsked ==
  ASSUME AskedInv, peer' = peer, NEW m, m.conn \in Conn, Unexpected(m)
  PROVE  AskedInv'
<1>1. creq' = creq /\ Outgoing' \subseteq Outgoing \cup {EmptyMessage("server", "RST", m.mid, m.conn)}
  BY DEF Unexpected, Outgoing
<1>2. \A x \in Outgoing' : Question(peer, x)
  BY <1>1, EmptyToServer DEF AskedInv
<1> QED
  BY <1>1, <1>2 DEF AskedInv
-----------------------------------------------------------------------------
(* parse_and_handle_response. *)

LEMMA OpenedGoing ==
  ASSUME NEW p, NEW r, NEW q, Going(p, q, r), NEW m
  PROVE  /\ Going(p, Opened(q, m), r)
         /\ Opened(q, m).state = q.state /\ Opened(q, m).resp.code = m.code
<1> DEFINE further == Offset(m.b2) > 0
           keeps == q.resp.has /\ further
           resp == [has |-> TRUE, code |-> m.code,
                    body |-> IF keeps THEN q.resp.body ELSE <<>>,
                    obs |-> IF m.obs = NoObserve /\ keeps THEN q.resp.obs ELSE m.obs]
           b2 == IF q.resp.has /\ ~further THEN NoBlock ELSE q.b2
           o == [q EXCEPT !.resp = resp, !.b2 = b2]
<1>1. Opened(q, m) = o
  BY DEF Opened
<1>2. HasFields(resp, {"code", "body"}) /\ resp.code = m.code
  BY DEF HasFields
<1>3. Piece(resp.body, 0)
  BY EmptyPiece DEF Going
<1>5. b2 \in Blocks
  BY DEF Going, Blocks
<1> HIDE DEF resp, b2, keeps, further
<1>6. /\ HasFields(o, AskedFields)
      /\ o.resp = resp /\ o.b2 = b2 /\ o.state = q.state
      /\ o.b1off = q.b1off /\ o.b1size = q.b1size
  BY DEF Going, HasFields, AskedFields
<1> HIDE DEF o
<1> QED
  BY <1>1, <1>2, <1>3, <1>5, <1>6 DEF Going

(* A message that is no block starts the body afresh. *)
LEMMA OpenedEmpty ==
  ASSUME NEW p, NEW r, NEW q, Going(p, q, r), NEW m, m.b2 = NoBlock
  PROVE  Opened(q, m).resp.body = <<>>
<1>1. ~(Offset(m.b2) > 0)
  BY NoBlockPlace
<1>2. HasFields(q, AskedFields)
  BY DEF Going
<1> QED
  BY <1>1, <1>2 DEF Opened, HasFields, AskedFields

LEMMA StoredGoing ==
  ASSUME NEW p, NEW r, NEW q, Going(p, q, r), NEW m, Answer(p, m),
         ~HasBlock(m.b2) => q.resp.body = <<>>, ~Held(q, m), ~Misplaced(q, m)
  PROVE  /\ Going(p, Stored(q, m), r)
         /\ Stored(q, m).state = q.state /\ Stored(q, m).resp.code = q.resp.code
         /\ Len(Stored(q, m).resp.body) = Place(m) + Len(m.pay)
<1> DEFINE resp == [q.resp EXCEPT !.body = q.resp.body \o m.pay]
           b2 == IF HasBlock(m.b2)
                   THEN [num |-> m.b2.num + 1, more |-> FALSE, szx |-> m.b2.szx] ELSE q.b2
           n == [q EXCEPT !.resp = resp, !.b2 = b2]
<1>1. Stored(q, m) = n
  BY DEF Stored
<1>2. HasFields(resp, {"code", "body"}) /\ resp.code = q.resp.code
        /\ resp.body = q.resp.body \o m.pay
  BY DEF Going, HasFields
<1>3. Len(q.resp.body) = Place(m)
  <2>1. CASE HasBlock(m.b2)
    BY <2>1 DEF Misplaced, Place
  <2>2. CASE ~HasBlock(m.b2)
    BY <2>2, EmptyPiece DEF Place
  <2> QED
    BY <2>1, <2>2
<1>4. Piece(resp.body, 0) /\ Len(resp.body) = Place(m) + Len(m.pay)
  <2>1. Piece(q.resp.body, 0) /\ Piece(m.pay, Place(m))
    BY DEF Going, Answer
  <2>2. Piece(m.pay, Len(q.resp.body))
    BY <1>3, <2>1
  <2>3. /\ Piece(q.resp.body \o m.pay, 0)
        /\ Len(q.resp.body \o m.pay) = Len(q.resp.body) + Len(m.pay)
    BY <2>1, <2>2, JoinPieces
  <2> HIDE DEF resp
  <2> QED
    BY <1>2, <1>3, <2>3
<1>5. b2 \in Blocks
  <2>1. CASE HasBlock(m.b2)
    <3>1. m.b2 \in Blocks /\ m.b2.num \in Nat /\ m.b2.szx \in Szx
      BY <2>1, BlockTypes DEF Answer
    <3>2. m.b2.num + 1 \in Nat
      BY <3>1
    <3> QED
      BY <2>1, <3>1, <3>2 DEF Blocks
  <2>2. CASE ~HasBlock(m.b2)
    BY <2>2 DEF Going
  <2> QED
    BY <2>1, <2>2
<1> HIDE DEF resp, b2
<1>6. /\ HasFields(n, AskedFields)
      /\ n.resp = resp /\ n.b2 = b2 /\ n.state = q.state
      /\ n.b1off = q.b1off /\ n.b1size = q.b1size
  BY DEF Going, HasFields, AskedFields
<1> HIDE DEF n
<1> QED
  BY <1>1, <1>2, <1>4, <1>5, <1>6 DEF Going

(* The next chunk begins where the acknowledged one ends. *)
LEMMA AdvancedGoing ==
  ASSUME NEW p, NEW r \in Request, NEW q, Going(p, q, r), NEW b, HasBlock(b),
         p = "own" => b \in Chunks(r)
  PROVE  Going(p, Advanced(r, q, b), r) /\ Advanced(r, q, b).resp = q.resp
           /\ Advanced(r, q, b).state = q.state
<1> DEFINE off == IF BodyLen[r] - q.b1off > Size(q.b1size) THEN q.b1off + Size(q.b1size)
                                                          ELSE BodyLen[r]
           size == IF Adopts(r, q, b.szx) THEN b.szx ELSE q.b1size
           n == [q EXCEPT !.b1off = off, !.b1size = size]
<1>1. Advanced(r, q, b) = n
  BY DEF Advanced
<1>2. ASSUME p = "own" PROVE size = ClientSzx /\ Boundary(off, r)
  <2>1. b.szx = ClientSzx
    BY <1>2, NoBlockPlace DEF Chunks
  <2>2. q.b1size = ClientSzx /\ Boundary(q.b1off, r)
    BY <1>2 DEF Going
  <2>3. ~Adopts(r, q, b.szx)
    BY <2>1, <2>2, ClientAssumption DEF Adopts
  <2>4. BodyLen[r] \in Nat /\ q.b1off \in Nat /\ Size(ClientSzx) \in Nat
    BY <2>2, WholeShape, ClientSize DEF Boundary
  <2>5. CASE BodyLen[r] - q.b1off > Size(ClientSzx)
    <3>1. off = q.b1off + Size(ClientSzx) /\ q.b1off < BodyLen[r]
      BY <2>2, <2>4, <2>5
    <3>2. PICK k \in Nat : q.b1off = k * Size(ClientSzx)
      BY <2>2, <3>1 DEF Boundary
    <3>3. (k + 1) * Size(ClientSzx) = k * Size(ClientSzx) + Size(ClientSzx) /\ k + 1 \in Nat
      BY ClientSize, Products
    <3>4. off = (k + 1) * Size(ClientSzx) /\ off \in Nat
      BY <2>4, <3>1, <3>2, <3>3
    <3> HIDE DEF off, size
    <3>5. Boundary(off, r)
      BY <3>3, <3>4 DEF Boundary
    <3> QED
      BY <2>2, <2>3, <3>5 DEF size
  <2>6. CASE ~(BodyLen[r] - q.b1off > Size(ClientSzx))
    <3>1. off = BodyLen[r]
      BY <2>2, <2>6
    <3>2. Boundary(BodyLen[r], r)
      BY <2>4 DEF Boundary
    <3> QED
      BY <2>2, <2>3, <3>1, <3>2
  <2> QED
    BY <2>5, <2>6
<1> HIDE DEF off, size
<1>3. /\ HasFields(n, AskedFields)
      /\ n.resp = q.resp /\ n.b2 = q.b2 /\ n.state = q.state
      /\ n.b1off = off /\ n.b1size = size
  BY DEF Going, HasFields, AskedFields
<1> HIDE DEF n
<1> QED
  BY <1>1, <1>2, <1>3 DEF Going

LEMMA AgainGoing ==
  ASSUME NEW p, NEW r, NEW q, Going(p, q, r)
  PROVE  Going(p, SendAgain(q), r) /\ SendAgain(q).state = "SEND_REQUEST"
<1> DEFINE n == SendAgain(q)
<1>1. /\ HasFields(n, AskedFields)
      /\ n.resp = q.resp /\ n.b2 = q.b2 /\ n.state = "SEND_REQUEST"
      /\ n.b1off = q.b1off /\ n.b1size = q.b1size
  BY DEF Going, HasFields, AskedFields, SendAgain
<1> HIDE DEF n
<1>2. Going(p, n, r)
  BY <1>1 DEF Going
<1> QED
  BY <1>1, <1>2 DEF n

LEMMA DroppedGoing ==
  ASSUME NEW p, NEW r, NEW q, Going(p, q, r)
  PROVE  Going(p, Dropped(q), r) /\ Dropped(q).state = q.state
<1> DEFINE n == Dropped(q)
<1>1. /\ HasFields(n, AskedFields)
      /\ n.resp = NoResponse /\ n.b2 = q.b2 /\ n.state = q.state
      /\ n.b1off = q.b1off /\ n.b1size = q.b1size
  BY DEF Going, HasFields, AskedFields, Dropped
<1>2. HasFields(NoResponse, {"code", "body"}) /\ NoResponse.body = <<>>
  BY DEF HasFields, NoResponse
<1> HIDE DEF n
<1>3. Going(p, n, r)
  BY <1>1, <1>2, EmptyPiece DEF Going
<1> QED
  BY <1>1, <1>3 DEF n

LEMMA UnfinishedAsked ==
  ASSUME NEW p, NEW r, NEW q, Going(p, q, r), q.state \notin {"DONE_CALLBACK", "DONE"}
  PROVE  Asked(p, q, r)
BY DEF Asked, Ended

LEMMA OutcomeAsked ==
  ASSUME NEW p, NEW r \in Request, NEW m, Asked(p, creq[r], r), creq[r].state \in Waiting,
         Answer(p, m), m.token = r
  PROVE  Asked(p, Outcome(r, m).req, r)
<1> DEFINE open == Opened(creq[r], m)
           q == Stored(open, m)
           acks == HasBlock(m.b1) /\ IsSuccess(m.code)
           restarts == /\ HasBlock(m.b1) /\ m.code = "TOO_LARGE"
                       /\ ~q.restarted /\ Adopts(r, q, m.b1.szx)
           next == IF acks THEN Advanced(r, q, m.b1) ELSE q
           again == [q EXCEPT !.b1size = m.b1.szx, !.b1off = 0, !.restarted = TRUE]
           over == [next EXCEPT !.state = "DONE_CALLBACK"]
           out == Outcome(r, m).req
<1>1. \/ out = Dropped(open)
      \/ out = open
      \/ /\ ~Held(open, m) /\ ~Misplaced(open, m)
         /\ \/ restarts /\ out = SendAgain(again)
            \/ out = q
            \/ out = Dropped(q)
            \/ out = SendAgain(next)
            \/ ~m.b2.more /\ out = over
  BY DEF Outcome
<1>2. ~HasBlock(m.b2) => m.b2 = NoBlock
  BY BlockTypes DEF Answer
<1>3. Going(p, creq[r], r)
  BY DEF Asked
<1>4. Going(p, open, r) /\ open.state = creq[r].state /\ open.resp.code = m.code
        /\ (~HasBlock(m.b2) => open.resp.body = <<>>)
  <2>1. Going(p, open, r) /\ open.state = creq[r].state /\ open.resp.code = m.code
          /\ (m.b2 = NoBlock => open.resp.body = <<>>)
    BY <1>3, OpenedGoing, OpenedEmpty
  <2> HIDE DEF open
  <2> QED
    BY <1>2, <2>1
<1>5. open.state \notin {"DONE_CALLBACK", "DONE"}
  BY <1>4 DEF Waiting
<1> HIDE DEF open
<1>6. Dropped(open).state = open.state /\ Going(p, Dropped(open), r)
  BY <1>4, DroppedGoing
<1>7. CASE out = Dropped(open) \/ out = open
  BY <1>4, <1>5, <1>6, <1>7, UnfinishedAsked
<1>8. CASE ~Held(open, m) /\ ~Misplaced(open, m)
  <2>1. Going(p, q, r) /\ q.state = open.state /\ q.resp.code = m.code
          /\ Len(q.resp.body) = Place(m) + Len(m.pay)
    BY <1>4, <1>8, StoredGoing
  <2> HIDE DEF q
  <2>2. Going(p, next, r) /\ next.resp = q.resp
    BY <2>1, AdvancedGoing DEF Answer
  <2>3. ASSUME restarts PROVE Going(p, again, r)
    <3>1. p # "own"
      <4>1. SUFFICES ASSUME p = "own" PROVE FALSE
        OBVIOUS
      <4>2. m.b1.szx = ClientSzx
        BY <2>3, <4>1, NoBlockPlace DEF Answer, Chunks
      <4>3. q.b1size = ClientSzx
        BY <2>1, <4>1 DEF Going
      <4> QED
        BY <2>3, <4>2, <4>3, ClientAssumption DEF Adopts
    <3>2. HasFields(again, AskedFields) /\ again.resp = q.resp /\ again.b2 = q.b2
      BY <2>1 DEF Going, HasFields, AskedFields
    <3> HIDE DEF again
    <3> QED
      BY <2>1, <3>1, <3>2 DEF Going
  <2>4. ASSUME m.b2.more = FALSE PROVE Asked(p, over, r)
    <3>1. HasFields(over, AskedFields) /\ over.resp = next.resp /\ over.b2 = next.b2
            /\ over.b1off = next.b1off /\ over.b1size = next.b1size
      BY <2>2 DEF Going, HasFields, AskedFields
    <3>2. m.code = "OK" => Len(q.resp.body) = Total(p, r)
      BY <2>1, <2>4 DEF Answer
    <3> HIDE DEF over, next
    <3> QED
      BY <2>1, <2>2, <3>1, <3>2 DEF Asked, Going
  <2>5. CASE restarts /\ out = SendAgain(again)
    BY <2>3, <2>5, AgainGoing, UnfinishedAsked
  <2>6. CASE out = q \/ out = Dropped(q)
    BY <1>5, <2>1, <2>6, DroppedGoing, UnfinishedAsked
  <2>7. CASE out = SendAgain(next)
    BY <2>2, <2>7, AgainGoing, UnfinishedAsked
  <2>8. CASE ~m.b2.more /\ out = over
    <3>1. m.b2.more = FALSE
      BY <2>8, BlockTypes DEF Answer
    <3> QED
      BY <2>4, <2>8, <3>1
  <2> QED
    BY <1>1, <1>7, <2>5, <2>6, <2>7, <2>8
<1>9. CASE ~(~Held(open, m) /\ ~Misplaced(open, m))
  BY <1>1, <1>7, <1>9
<1> QED
  BY <1>8, <1>9

LEMMA ResponseAsked ==
  ASSUME AskedInv, peer' = peer, NEW m, Answer(peer, m), HandleResponse(m)
  PROVE  AskedInv'
<1> DEFINE n == Outcome(m.token, m).req
<1>1. creq' = [creq EXCEPT ![m.token] = n]
  BY DEF HandleResponse
<1>2. m.token \in Request => Asked(peer, n, m.token)
  BY OutcomeAsked DEF AskedInv, HandleResponse
<1> HIDE DEF n
<1>3. IsArray(creq') /\ \A r \in Request : Asked(peer, creq'[r], r)
  BY <1>1, <1>2 DEF AskedInv, IsArray
<1>4. Outgoing' \subseteq Outgoing \cup {EmptyMessage("server", "ACK", m.mid, m.conn)}
  BY DEF HandleResponse, Outgoing
<1>5. m.conn \in Conn
  BY DEF Answer
<1>6. \A x \in Outgoing' : Question(peer, x)
  BY <1>4, <1>5, EmptyToServer DEF AskedInv
<1> QED
  BY <1>3, <1>6 DEF AskedInv

LEMMA ClientHandlesAsked ==
  ASSUME AskedInv, NetInv, peer' = peer, NEW m \in Arriving("client", cup), ClientHandles(m)
  PROVE  AskedInv' /\ NetInv'
<1>1. Good(peer, m) /\ m.to = "client"
  BY ArrivingGood DEF NetInv
<1>2. Answer(peer, m) /\ m.conn \in Conn
  BY <1>1 DEF Good, Answer, Question
<1>3. Arrives(m)
  BY DEF ClientHandles, HandleAck, HandleRst, Unexpected, HandleResponse
<1>4. NetInv'
  BY <1>1, <1>3, ArrivesCarried DEF NetInv
<1>5. AskedInv'
  BY <1>2, AckAsked, RstAsked, UnexpectedAsked, ResponseAsked DEF ClientHandles
<1> QED
  BY <1>4, <1>5

LEMMA ClientAsked ==
  ASSUME AskedInv, NetInv, peer' = peer, ClientNext
  PROVE  AskedInv' /\ NetInv'
<1>1. CASE \E r \in Request : New(r) \/ Send(r) \/ Cancel(r) \/ Deregister(r) \/ Free(r)
  <2>1. AskedInv'
    BY <1>1, NewAsked, SendAsked, CancelAsked, DeregisterAsked, FreeAsked
  <2>2. UNCHANGED netVars
    BY <1>1 DEF New, Send, Cancel, Deregister, Free
  <2> QED
    BY <2>1, <2>2 DEF NetInv, netVars
<1>2. CASE \E c \in Conn : RemoveClientConnection(c)
  <2>1. AskedInv'
    BY <1>2, RemoveConnectionAsked
  <2>2. UNCHANGED netVars
    BY <1>2 DEF RemoveClientConnection
  <2> QED
    BY <2>1, <2>2 DEF NetInv, netVars
<1>3. CASE ClientLoop
  <2>1. CASE SendClientRst \/ SendClientAck
    BY <2>1, ClientSlots
  <2>2. CASE SendRequest
    BY <2>2, SendRequestAsked
  <2>3. CASE HandleCallback
    BY <2>3, CallbackAsked DEF NetInv, netVars
  <2> QED
    BY <1>3, <2>1, <2>2, <2>3 DEF ClientLoop
<1>4. CASE \E m \in Arriving("client", cup) : ClientHandles(m)
  BY <1>4, ClientHandlesAsked
<1> QED
  BY <1>1, <1>2, <1>3, <1>4 DEF ClientNext
-----------------------------------------------------------------------------
(***************************************************************************)
(* The server.                                                             *)
(***************************************************************************)

(* A request that has changed its state and receives no more.              *)
Kept(q, n) ==
  /\ HasFields(n, ServedFields)
  /\ n.b1 = q.b1 /\ n.b2req \in {q.b2req, NoBlock} /\ n.resp = q.resp /\ n.body = q.body
  /\ n.state \in {"REQUEST", "USER"} => n.state = q.state

LEMMA KeptServed ==
  ASSUME NEW r, NEW q, NEW n, Served(q, r), Kept(q, n)
  PROVE  Served(n, r)
<1>1. n.b2req \in Blocks
  BY DEF Kept, Served, Holding, Blocks
<1>2. Receiving(n, r)
  BY DEF Kept, Served, Receiving
<1> QED
  BY <1>1, <1>2 DEF Kept, Served, Holding

LEMMA AbsentServed ==
  ASSUME NEW r \in Request
  PROVE  Served(Absent, r)
<1>1. HasFields(Absent, ServedFields) /\ Absent.state = "NONE" /\ Absent.b1 = NoBlock
        /\ Absent.b2req = NoBlock /\ Absent.resp = NoAnswer
  BY DEF HasFields, Absent, ServedFields
<1>2. HasFields(NoAnswer, AnswerFields) /\ NoAnswer.szx = ServerSzx /\ NoAnswer.cur = 0
        /\ NoAnswer.body = <<>> /\ NoAnswer.code = "EMPTY"
  BY DEF HasFields, NoAnswer, AnswerFields
<1>3. Answering(NoAnswer, r)
  BY <1>2, ServerAssumption, EmptyPiece DEF Answering, Szx
<1> QED
  BY <1>1, <1>3 DEF Served, Holding, Receiving, Blocks, Chunks

LEMMA OverKept ==
  ASSUME NEW r, NEW q, Served(q, r)
  PROVE  Kept(q, Over(q)) /\ Kept(q, Discarded(q)) /\ Kept(q, q)
           /\ Kept(q, [q EXCEPT !.conn = FALSE]) /\ Kept(q, [q EXCEPT !.continue = FALSE])
           /\ Kept(q, [q EXCEPT !.continue = TRUE]) /\ Kept(q, [q EXCEPT !.observer = TRUE])
           /\ Kept(q, [q EXCEPT !.observer = FALSE]) /\ Kept(q, [q EXCEPT !.freed = TRUE])
<1>1. HasFields(q, ServedFields)
  BY DEF Served, Holding
<1>2. Kept(q, Over(q)) /\ Kept(q, Discarded(q)) /\ Kept(q, q)
  BY <1>1 DEF Kept, HasFields, ServedFields, Over, Discarded
<1>3. Kept(q, [q EXCEPT !.conn = FALSE]) /\ Kept(q, [q EXCEPT !.continue = FALSE])
  BY <1>1 DEF Kept, HasFields, ServedFields
<1>4. Kept(q, [q EXCEPT !.continue = TRUE]) /\ Kept(q, [q EXCEPT !.observer = TRUE])
  BY <1>1 DEF Kept, HasFields, ServedFields
<1>5. Kept(q, [q EXCEPT !.observer = FALSE]) /\ Kept(q, [q EXCEPT !.freed = TRUE])
  BY <1>1 DEF Kept, HasFields, ServedFields
<1> QED
  BY <1>2, <1>3, <1>4, <1>5

LEMMA SetRequestsServed ==
  ASSUME NEW new, AllServed(new), SetRequests(new)
  PROVE  AllServed(sreq')
<1>1. sreq' = [r \in Request |-> Settled(new[r])]
  BY DEF SetRequests
<1>2. \A r \in Request : Served(Settled(new[r]), r)
  BY AbsentServed DEF AllServed, Settled
<1> QED
  BY <1>1, <1>2 DEF AllServed, IsArray

LEMMA UpdateServed ==
  ASSUME NEW reqs, AllServed(reqs), NEW r, NEW q, r \in Request => Served(q, r)
  PROVE  AllServed([reqs EXCEPT ![r] = q])
BY DEF AllServed, IsArray

LEMMA SetRequestServed ==
  ASSUME AllServed(sreq), NEW r, NEW q, r \in Request => Served(q, r), SetRequest(r, q)
  PROVE  AllServed(sreq')
<1>1. AllServed([sreq EXCEPT ![r] = q])
  BY UpdateServed
<1> QED
  BY <1>1, SetRequestsServed DEF SetRequest

LEMMA ForgettingServed ==
  ASSUME NEW reqs, AllServed(reqs), NEW gone
  PROVE  AllServed(Forgetting(reqs, gone))
<1>1. ASSUME NEW r \in Request PROVE Served([reqs[r] EXCEPT !.observer = FALSE], r)
  <2>1. Served(reqs[r], r)
    BY DEF AllServed
  <2>2. Kept(reqs[r], [reqs[r] EXCEPT !.observer = FALSE])
    BY <2>1, OverKept
  <2> QED
    BY <2>1, <2>2, KeptServed
<1> QED
  BY <1>1 DEF AllServed, Forgetting, IsArray

LEMMA NoObserverObserves == Observer(NoObserver)
BY DEF Observer, NoObserver, HasFields

LEMMA FreeObserversObserve ==
  ASSUME AllObserve(sobs), NEW gone, FreeObservers(gone)
  PROVE  AllObserve(sobs')
BY NoObserverObserves DEF AllObserve, FreeObservers, IsArray

LEMMA OneObserves ==
  ASSUME AllObserve(sobs), NEW r, NEW o, Observer(o), sobs' = [sobs EXCEPT ![r] = o]
  PROVE  AllObserve(sobs')
BY DEF AllObserve, IsArray
-----------------------------------------------------------------------------
(* What the application calls. *)

(* The body of a response that is not on its way yet. *)
LEMMA ReadyServed ==
  ASSUME NEW r, NEW q, Holding(q, r), NEW answer, Answering(answer, r), answer.cur = 0
  PROVE  Holding(Ready(q, answer), r) /\ Ready(q, answer).state \notin {"REQUEST", "USER"}
<1> DEFINE b == q.b2req
           szx == IF HasBlock(b) /\ b.szx < answer.szx THEN b.szx ELSE answer.szx
           past == HasBlock(b) /\ Offset(b) # 0 /\ Offset(b) >= Len(answer.body)
           none == [answer EXCEPT !.code = "BAD_REQUEST", !.body = <<>>, !.cur = 0]
           placed == [answer EXCEPT !.cur = Offset(b) \div Size(szx)]
           served == IF past THEN none ELSE IF HasBlock(b) THEN placed ELSE answer
           resp == [served EXCEPT !.szx = szx, !.sendNow = TRUE]
           n == [q EXCEPT !.state = "RESPONSE", !.b2req = NoBlock, !.resp = resp]
<1>1. Ready(q, answer) = IF q.conn THEN n ELSE Over(q)
  BY DEF Ready
<1>2. b \in Blocks /\ answer.szx \in Szx /\ HasFields(answer, AnswerFields)
  BY DEF Holding, Answering
<1>3. szx \in Szx
  BY <1>2, BlockTypes
<1>4. Answering([none EXCEPT !.szx = szx, !.sendNow = TRUE], r)
  <2> DEFINE a == [none EXCEPT !.szx = szx, !.sendNow = TRUE]
  <2> HIDE DEF szx
  <2>1. HasFields(none, AnswerFields) /\ none.code = "BAD_REQUEST" /\ none.body = <<>>
          /\ none.cur = 0
    BY <1>2 DEF HasFields, AnswerFields
  <2> HIDE DEF none
  <2>2. HasFields(a, AnswerFields) /\ a.code = "BAD_REQUEST" /\ a.body = <<>>
          /\ a.cur = 0 /\ a.szx = szx
    BY <2>1 DEF HasFields, AnswerFields
  <2> HIDE DEF a
  <2>3. Answering(a, r)
    BY <1>3, <2>2, EmptyPiece DEF Answering
  <2> QED
    BY <2>3 DEF a
<1>5. ASSUME HasBlock(b), ~past
      PROVE  Answering([placed EXCEPT !.szx = szx, !.sendNow = TRUE], r)
  <2> DEFINE cur == Offset(b) \div Size(szx)
             a == [placed EXCEPT !.szx = szx, !.sendNow = TRUE]
  <2>1. Offset(b) \in Nat /\ (Offset(b) = 0 \/ Offset(b) < Len(answer.body))
    <3>1. Offset(b) \in Nat
      BY <1>2, <1>5, BlockTypes
    <3>2. Len(answer.body) \in Nat
      BY DEF Answering, Piece
    <3> HIDE DEF b
    <3> QED
      BY <1>5, <3>1, <3>2
  <2> HIDE DEF szx
  <2>2. cur \in Nat /\ cur * Size(szx) <= Offset(b)
    BY <1>3, <2>1, Division
  <2>3. cur * Size(szx) \in Nat /\ (cur > 0 => cur * Size(szx) >= Size(szx))
          /\ Size(szx) \in Nat /\ Size(szx) > 0
    BY <1>3, <2>2, Products, SizePositive
  <2>4. cur = 0 \/ cur * Size(szx) < Len(answer.body)
    <3>1. Len(answer.body) \in Nat
      BY DEF Answering, Piece
    <3> DEFINE at == cur * Size(szx)
               one == Size(szx)
               off == Offset(b)
    <3>2. at \in Nat /\ at <= off /\ (cur > 0 => at >= one) /\ one \in Nat /\ one > 0
            /\ cur \in Nat /\ off \in Nat /\ (off = 0 \/ off < Len(answer.body))
      BY <2>1, <2>2, <2>3
    <3> HIDE DEF at, one, off, cur
    <3>3. cur = 0 \/ at < Len(answer.body)
      BY <3>1, <3>2
    <3> QED
      BY <3>3 DEF at, cur
  <2>5. HasFields(placed, AnswerFields) /\ placed.code = answer.code
          /\ placed.body = answer.body /\ placed.cur = cur
    BY <1>2 DEF HasFields, AnswerFields
  <2> HIDE DEF cur, placed
  <2>6. HasFields(a, AnswerFields) /\ a.code = answer.code /\ a.body = answer.body
          /\ a.cur = cur /\ a.szx = szx
    BY <2>5 DEF HasFields, AnswerFields
  <2> HIDE DEF a
  <2>7. Answering(a, r)
    BY <1>3, <2>2, <2>4, <2>6 DEF Answering
  <2> QED
    BY <2>7 DEF a
<1>6. Answering([answer EXCEPT !.szx = szx, !.sendNow = TRUE], r)
  <2> DEFINE a == [answer EXCEPT !.szx = szx, !.sendNow = TRUE]
  <2> HIDE DEF szx
  <2>1. HasFields(a, AnswerFields) /\ a.code = answer.code /\ a.body = answer.body
          /\ a.cur = answer.cur /\ a.szx = szx
    BY <1>2 DEF HasFields, AnswerFields
  <2> HIDE DEF a
  <2>2. Answering(a, r)
    BY <1>3, <2>1 DEF Answering
  <2> QED
    BY <2>2 DEF a
<1>7. Answering(resp, r)
  <2>1. CASE past
    BY <1>4, <2>1
  <2>2. CASE ~past /\ HasBlock(b)
    BY <1>5, <2>2
  <2>3. CASE ~past /\ ~HasBlock(b)
    BY <1>6, <2>3
  <2> QED
    BY <2>1, <2>2, <2>3
<1> HIDE DEF resp
<1>8. HasFields(n, ServedFields) /\ n.resp = resp /\ n.b2req = NoBlock /\ n.b1 = q.b1
        /\ n.state = "RESPONSE"
  BY DEF Holding, HasFields, ServedFields
<1>9. HasFields(Over(q), ServedFields) /\ Over(q).resp = q.resp /\ Over(q).b2req = q.b2req
        /\ Over(q).b1 = q.b1 /\ Over(q).state = "DONE"
  BY DEF Holding, HasFields, ServedFields, Over
<1> HIDE DEF n
<1>10. Holding(n, r) /\ Holding(Over(q), r)
  BY <1>7, <1>8, <1>9 DEF Holding, Blocks
<1> QED
  BY <1>1, <1>8, <1>9, <1>10

LEMMA AnsweredServed ==
  ASSUME NEW r, NEW q, Holding(q, r), q.state \notin {"REQUEST", "USER"}
  PROVE  Served(q, r)
BY DEF Served, Receiving

LEMMA RespondServed ==
  ASSUME AllServed(sreq), ver \in Nat, NEW r \in Request, Respond(r)
  PROVE  AllServed(sreq')
<1> DEFINE body == Units(ver, RespLen[r])
           a == [sreq[r].resp EXCEPT !.code = "OK", !.body = body]
<1>1. Served(sreq[r], r) /\ sreq[r].state = "USER"
  BY DEF AllServed, Respond
<1>2. Holding(sreq[r], r) /\ Answering(sreq[r].resp, r) /\ sreq[r].resp.cur = 0
  BY <1>1 DEF Served, Holding, Receiving
<1>3. Piece(body, 0) /\ Len(body) = RespLen[r]
  BY ServerAssumption, UnitsPiece
<1> HIDE DEF body
<1>4. HasFields(a, AnswerFields) /\ a.body = body /\ a.cur = 0 /\ a.szx = sreq[r].resp.szx
  BY <1>2 DEF Answering, HasFields, AnswerFields
<1>5. SetRequest(r, Ready(sreq[r], a))
  BY DEF Respond, body
<1> HIDE DEF a
<1>6. Answering(a, r)
  BY <1>2, <1>3, <1>4 DEF Answering
<1>7. Served(Ready(sreq[r], a), r)
  BY <1>2, <1>4, <1>6, ReadyServed, AnsweredServed
<1> QED
  BY <1>5, <1>7, SetRequestServed

LEMMA FreeRequestServed ==
  ASSUME AllServed(sreq), NEW r \in Request, FreeRequest(r)
  PROVE  AllServed(sreq')
<1> DEFINE q == sreq[r]
           asked == [q EXCEPT !.b2req = NoBlock]
           a == [q.resp EXCEPT !.code = "ERROR", !.body = <<>>]
           failed == Ready(asked, a)
           left == IF q.state = "USER" THEN failed ELSE q
           new == [left EXCEPT !.freed = TRUE]
<1>1. SetRequest(r, new)
  BY DEF FreeRequest
<1>2. Served(q, r)
  BY DEF AllServed
<1> HIDE DEF q
<1>3. ASSUME q.state = "USER" PROVE Served(failed, r)
  <2>1. Holding(q, r) /\ Answering(q.resp, r) /\ q.resp.cur = 0
    BY <1>2, <1>3 DEF Served, Holding, Receiving
  <2>2. HasFields(a, AnswerFields) /\ a.code = "ERROR" /\ a.body = <<>> /\ a.cur = 0
          /\ a.szx = q.resp.szx
    BY <2>1 DEF Answering, HasFields, AnswerFields
  <2>3. HasFields(asked, ServedFields) /\ asked.b2req = NoBlock /\ asked.b1 = q.b1
          /\ asked.resp = q.resp
    BY <2>1 DEF Holding, HasFields, ServedFields
  <2> HIDE DEF a, asked
  <2>4. Answering(a, r)
    BY <2>1, <2>2, EmptyPiece DEF Answering
  <2>5. Holding(asked, r)
    BY <2>1, <2>3 DEF Holding, Blocks
  <2> QED
    BY <2>2, <2>4, <2>5, ReadyServed, AnsweredServed
<1>4. Served(left, r)
  BY <1>2, <1>3
<1> HIDE DEF left
<1>5. Served(new, r)
  BY <1>4, OverKept, KeptServed
<1> QED
  BY <1>1, <1>5, SetRequestServed DEF q

LEMMA AcceptObserveServed ==
  ASSUME AllServed(sreq), AllObserve(sobs), NEW r \in Request, AcceptObserve(r)
  PROVE  AllServed(sreq') /\ AllObserve(sobs')
<1> DEFINE o == [NoObserver EXCEPT !.on = TRUE, !.conn = sreq[r].conn]
           n == [sreq[r] EXCEPT !.observer = TRUE]
<1>1. sobs' = [sobs EXCEPT ![r] = o] /\ sreq' = [sreq EXCEPT ![r] = n]
  BY DEF AcceptObserve, AllServed, IsArray
<1>2. Observer(o)
  BY DEF Observer, NoObserver, HasFields
<1>3. Served(sreq[r], r)
  BY DEF AllServed
<1>4. Kept(sreq[r], n)
  BY <1>3, OverKept
<1> HIDE DEF o, n
<1>5. Served(n, r)
  BY <1>3, <1>4, KeptServed
<1> QED
  BY <1>1, <1>2, <1>5, UpdateServed, OneObserves

LEMMA RemoveObserverServed ==
  ASSUME AllServed(sreq), AllObserve(sobs), NEW r \in Request, RemoveObserver(r)
  PROVE  AllServed(sreq') /\ AllObserve(sobs')
BY ForgettingServed, FreeObserversObserve DEF RemoveObserver

LEMMA RemoveServerConnectionServed ==
  ASSUME AllServed(sreq), AllObserve(sobs), NEW c \in Conn, RemoveServerConnection(c)
  PROVE  AllServed(sreq') /\ AllObserve(sobs') /\ Replies' \subseteq Replies
<1> DEFINE gone == {r \in Request : sobs[r].on /\ sobs[r].conn /\ ConnOf[r] = c}
           left(r) ==
             CASE sreq[r].state = "REQUEST" -> Discarded(sreq[r])
               [] sreq[r].state = "RESPONSE" -> Over(sreq[r])
               [] OTHER -> [sreq[r] EXCEPT !.conn = FALSE]
           reqs == [r \in Request |->
                      IF sreq[r].conn /\ ConnOf[r] = c THEN left(r) ELSE sreq[r]]
<1>1. FreeObservers(gone) /\ SetRequests(Forgetting(reqs, gone))
  BY DEF RemoveServerConnection
<1>2. Replies' \subseteq Replies
  BY DEF RemoveServerConnection, Replies
<1>3. ASSUME NEW r \in Request PROVE Served(left(r), r) /\ Served(sreq[r], r)
  <2>1. Served(sreq[r], r)
    BY DEF AllServed
  <2>2. left(r) \in {Discarded(sreq[r]), Over(sreq[r]), [sreq[r] EXCEPT !.conn = FALSE]}
    OBVIOUS
  <2> HIDE DEF left
  <2>3. Kept(sreq[r], left(r))
    BY <2>1, <2>2, OverKept
  <2> QED
    BY <2>1, <2>3, KeptServed
<1> HIDE DEF left, gone
<1>4. AllServed(reqs)
  BY <1>3 DEF AllServed, IsArray
<1> HIDE DEF reqs
<1>5. AllServed(sreq')
  BY <1>1, <1>4, ForgettingServed, SetRequestsServed
<1> QED
  BY <1>1, <1>2, <1>5, FreeObserversObserve

LEMMA CurrentObserves ==
  ASSUME NEW o, Observer(o), NEW v \in Nat, NEW mid
  PROVE  Observer(Current(o, v, mid))
BY DEF Observer, Current, HasFields

LEMMA NotifyObserves ==
  ASSUME AllObserve(sobs), ver \in Nat, Notify
  PROVE  AllObserve(sobs') /\ ver' \in Nat
<1>1. ver' = ver + 1 /\ sobs' = [r \in Request |-> Notified(r)]
  BY DEF Notify
<1>2. ASSUME NEW r \in Request PROVE Observer(Notified(r))
  <2> DEFINE o == sobs[r]
             kept == [o EXCEPT !.pending = {ver + 1}]
  <2>1. Observer(o) /\ ver + 1 \in Nat
    BY DEF AllObserve
  <2>2. Notified(r) \in {kept, Current(o, ver + 1, NextMid(r)), o}
    BY DEF Notified
  <2>3. Observer(kept)
    BY <2>1 DEF Observer, HasFields
  <2> HIDE DEF o, kept
  <2> QED
    BY <2>1, <2>2, <2>3, CurrentObserves
<1>3. ver' \in Nat
  BY <1>1
<1> QED
  BY <1>1, <1>2, <1>3 DEF AllObserve, IsArray
-----------------------------------------------------------------------------
(* What the server sends. *)

LEMMA PlainAnswer ==
  ASSUME NEW m, m.to = "client", m.conn \in Conn, m.b2 = NoBlock, m.b1 \in Chunks(m.token),
         m.pay = <<>>, m.code # "OK", NEW p
  PROVE  Answer(p, m)
BY NoBlockPlace, EmptyPiece DEF Answer, Place, Blocks

LEMMA EmptyToClient ==
  ASSUME NEW type, NEW mid, NEW conn \in Conn
  PROVE  Answer("own", EmptyMessage("client", type, mid, conn))
<1> DEFINE m == EmptyMessage("client", type, mid, conn)
<1>1. m.to = "client" /\ m.conn = conn /\ m.b2 = NoBlock /\ m.b1 = NoBlock /\ m.pay = <<>>
        /\ m.code = "EMPTY"
  BY DEF EmptyMessage, Message
<1> HIDE DEF m
<1>2. Answer("own", m)
  BY <1>1, PlainAnswer DEF Chunks
<1> QED
  BY <1>2 DEF m

LEMMA ContinueGood ==
  ASSUME NEW r \in Request, Served(sreq[r], r)
  PROVE  Answer("own", ContinuePacket(r))
<1> DEFINE m == ContinuePacket(r)
<1>1. m.to = "client" /\ m.conn = ConnOf[r] /\ m.b2 = NoBlock /\ m.b1 = sreq[r].b1
        /\ m.pay = <<>> /\ m.code = "CONTINUE" /\ m.token = r
  BY DEF ContinuePacket, Message
<1>2. ConnOf[r] \in Conn /\ sreq[r].b1 \in Chunks(r)
  BY MessagesAssumption DEF Served, Holding
<1> HIDE DEF m
<1>3. Answer("own", m)
  BY <1>1, <1>2, PlainAnswer
<1> QED
  BY <1>3 DEF m

LEMMA ResponseGood ==
  ASSUME NEW r \in Request, Served(sreq[r], r)
  PROVE  Answer("own", ResponsePacket(r))
<1> DEFINE a == sreq[r].resp
           size == Size(a.szx)
           at == a.cur * size
           len == Len(a.body)
           m == ResponsePacket(r)
<1>1. /\ m.to = "client" /\ m.conn = ConnOf[r] /\ m.token = r /\ m.code = a.code
      /\ m.b2 = IF len > size THEN [num |-> a.cur, more |-> len - at > size, szx |-> a.szx]
                              ELSE NoBlock
      /\ m.b1 = IF at = 0 THEN sreq[r].b1 ELSE NoBlock
      /\ m.pay = BlockOf(a.body, a.cur, a.szx)
  BY DEF ResponsePacket, Message
<1> HIDE DEF m
<1>2. Answering(a, r) /\ sreq[r].b1 \in Chunks(r) /\ ConnOf[r] \in Conn
  BY MessagesAssumption DEF Served, Holding
<1>3. /\ a.szx \in Szx /\ a.cur \in Nat /\ Piece(a.body, 0)
      /\ a.code = "OK" => len = RespLen[r]
      /\ a.cur = 0 \/ at < len
  BY <1>2 DEF Answering
<1> HIDE DEF a
<1>4. /\ at \in Nat /\ size \in Nat /\ size > 0 /\ (a.cur > 0 => at >= size)
      /\ (a.cur = 0 => at = 0)
  BY <1>3, Products, SizePositive
<1>5. a.body \in Seq(Unit) /\ len \in Nat
  BY <1>3 DEF Piece
<1>6. at <= len
  <2> HIDE DEF at, len, size
  <2> QED
    BY <1>3, <1>4, <1>5
<1>7. PICK upto \in at..len : /\ m.pay = SubSeq(a.body, at + 1, upto)
                              /\ at + size >= len => upto = len
  <2>1. a.cur * Size(a.szx) <= Len(a.body)
    BY <1>6
  <2>2. a.szx \in Szx /\ a.cur \in Nat /\ a.body \in Seq(Unit)
    BY <1>3, <1>5
  <2>3. \E upto \in (a.cur * Size(a.szx))..Len(a.body) :
          /\ BlockOf(a.body, a.cur, a.szx) = SubSeq(a.body, a.cur * Size(a.szx) + 1, upto)
          /\ a.cur * Size(a.szx) + Size(a.szx) >= Len(a.body) => upto = Len(a.body)
    BY <2>1, <2>2, BlockOfPart
  <2> QED
    BY <1>1, <2>3
<1>8. Piece(m.pay, at) /\ Len(m.pay) = upto - at
  BY <1>3, <1>4, <1>7, PartPiece
<1>9. m.b1 \in Chunks(m.token)
  BY <1>1, <1>2 DEF Chunks
<1>10. ASSUME len > size PROVE Answer("own", m)
  <2>1. m.b2 = [num |-> a.cur, more |-> len - at > size, szx |-> a.szx]
    BY <1>1, <1>10
  <2>2. m.b2 \in Blocks
    BY <1>3, <2>1 DEF Blocks
  <2>3. m.b2.num = a.cur /\ m.b2.szx = a.szx /\ m.b2.more = (len - at > size)
    BY <2>1
  <2>4. HasBlock(m.b2) /\ Offset(m.b2) = at
    BY <1>3, <2>3 DEF HasBlock, Offset
  <2>5. Place(m) = at
    BY <2>4 DEF Place
  <2>6. ASSUME m.b2.more = FALSE PROVE upto = len
    <3>1. ~(len - at > size)
      BY <2>3, <2>6
    <3> HIDE DEF at, len, size
    <3> QED
      BY <1>4, <1>5, <1>7, <3>1
  <2>7. m.code = "OK" /\ m.b2.more = FALSE => Place(m) + Len(m.pay) = Total("own", m.token)
    <3>1. SUFFICES ASSUME m.code = "OK", m.b2.more = FALSE
                   PROVE  Place(m) + Len(m.pay) = Total("own", m.token)
      OBVIOUS
    <3>2. len = RespLen[r]
      BY <1>1, <1>3, <3>1
    <3>4. upto = len
      BY <2>6, <3>1
    <3> HIDE DEF at, len
    <3>3. at + (upto - at) = len
      BY <1>4, <1>5, <3>4
    <3> QED
      BY <1>1, <1>8, <2>5, <3>2, <3>3 DEF Total
  <2> QED
    BY <1>1, <1>2, <1>8, <1>9, <2>2, <2>5, <2>7 DEF Answer
<1>11. ASSUME ~(len > size) PROVE Answer("own", m)
  <2>1. a.cur = 0 /\ at = 0 /\ upto = len
    <3> HIDE DEF at, len, size
    <3>1. a.cur = 0
      BY <1>3, <1>4, <1>5, <1>11
    <3> QED
      BY <1>4, <1>5, <1>7, <1>11, <3>1
  <2>2. m.b2 = NoBlock
    BY <1>1, <1>11
  <2>3. Place(m) = 0 /\ m.b2 \in Blocks
    BY <2>2, NoBlockPlace DEF Place, Blocks
  <2>4. Len(m.pay) = len
    <3> HIDE DEF at, len, size
    <3> QED
      BY <1>5, <1>8, <2>1
  <2>5. Piece(m.pay, 0)
    BY <1>8, <2>1
  <2>6. m.code = "OK" => Place(m) + Len(m.pay) = Total("own", m.token)
    BY <1>1, <1>3, <1>5, <2>3, <2>4 DEF Total
  <2> QED
    BY <1>1, <1>2, <1>9, <2>3, <2>5, <2>6 DEF Answer
<1>12. Answer("own", m)
  BY <1>10, <1>11
<1> QED
  BY <1>12 DEF m

LEMMA NotificationGood ==
  ASSUME NEW r \in Request, Observer(sobs[r])
  PROVE  Answer("own", NotificationPacket(r))
<1> DEFINE m == NotificationPacket(r)
           body == Units(sobs[r].val, RespLen[r])
<1>1. /\ m.to = "client" /\ m.conn = ConnOf[r] /\ m.token = r /\ m.b2 = NoBlock
      /\ m.b1 = NoBlock /\ m.pay = body
  BY DEF NotificationPacket, Message
<1>2. ConnOf[r] \in Conn /\ sobs[r].val \in Nat /\ RespLen[r] \in Nat
  BY MessagesAssumption, ServerAssumption DEF Observer
<1>3. Piece(body, 0) /\ Len(body) = RespLen[r]
  BY <1>2, UnitsPiece
<1> HIDE DEF m, body
<1>4. Place(m) = 0 /\ m.b2 \in Blocks /\ m.b1 \in Chunks(m.token)
  BY <1>1, NoBlockPlace DEF Place, Blocks, Chunks
<1>5. Place(m) + Len(m.pay) = Total("own", m.token)
  BY <1>1, <1>2, <1>3, <1>4 DEF Total
<1>6. Answer("own", m)
  BY <1>1, <1>2, <1>3, <1>4, <1>5 DEF Answer
<1> QED
  BY <1>6 DEF m

LEMMA ServedParts ==
  ASSUME ServedInv, peer = "own"
  PROVE  /\ AllServed(sreq) /\ AllObserve(sobs) /\ ver \in Nat
         /\ \A m \in Replies : Answer("own", m)
         /\ \A r \in Request : Served(sreq[r], r) /\ Observer(sobs[r])
BY DEF ServedInv, AllServed, AllObserve

LEMMA SlotsServed ==
  ASSUME ServedInv, NetInv, peer = "own", peer' = peer, SendError \/ SendAck \/ SendRst
  PROVE  ServedInv' /\ NetInv'
<1>1. PICK m \in Replies : Sends(m)
  BY DEF SendError, SendAck, SendRst, Replies
<1>2. Good(peer, m)
  BY ServedParts DEF Good
<1>3. NetInv'
  BY <1>1, <1>2, SendsCarried DEF NetInv
<1>4. Replies' \subseteq Replies /\ UNCHANGED <<sreq, sobs, ver>>
  BY DEF SendError, SendAck, SendRst, Replies, requestVars, observerVars
<1> QED
  BY <1>3, <1>4 DEF ServedInv

LEMMA SendContinueServed ==
  ASSUME ServedInv, NetInv, peer = "own", peer' = peer, SendContinue
  PROVE  ServedInv' /\ NetInv'
<1>1. PICK r \in Request : /\ SendsOn(sreq[r].conn, ContinuePacket(r))
                           /\ sreq' = [sreq EXCEPT ![r].continue = FALSE]
  BY DEF SendContinue, SendingRequests
<1> DEFINE n == [sreq[r] EXCEPT !.continue = FALSE]
<1>2. sreq' = [sreq EXCEPT ![r] = n]
  BY <1>1, ServedParts DEF AllServed, IsArray
<1>3. Served(sreq[r], r)
  BY ServedParts
<1>4. Kept(sreq[r], n)
  BY <1>3, OverKept
<1> HIDE DEF n
<1>5. AllServed(sreq')
  BY <1>2, <1>3, <1>4, KeptServed, UpdateServed, ServedParts
<1>6. Good(peer, ContinuePacket(r))
  BY <1>3, ContinueGood DEF Good
<1>7. NetInv'
  BY <1>1, <1>6, SendsCarried DEF NetInv, SendsOn, netVars
<1>8. UNCHANGED <<sobs, ver, serr, sack, srst>>
  BY DEF SendContinue, observerVars, slots
<1> QED
  BY <1>5, <1>7, <1>8 DEF ServedInv, Replies

LEMMA SendResponseServed ==
  ASSUME ServedInv, NetInv, peer = "own", peer' = peer, SendResponse
  PROVE  ServedInv' /\ NetInv'
<1>0. PICK r \in Request :
        /\ Sends(ResponsePacket(r)) /\ sreq[r].state = "RESPONSE"
        /\ \E step : sreq' = [sreq EXCEPT ![r].resp.waiting = TRUE, ![r].resp.sendNow = FALSE,
                                         ![r].resp.retrans = @ + step]
  BY DEF SendResponse, SendingRequests, Responds
<1>1. PICK step :
        /\ Sends(ResponsePacket(r)) /\ sreq[r].state = "RESPONSE"
        /\ sreq' = [sreq EXCEPT ![r].resp.waiting = TRUE, ![r].resp.sendNow = FALSE,
                                ![r].resp.retrans = @ + step]
  BY <1>0
<1>3. Served(sreq[r], r) /\ Holding(sreq[r], r) /\ Answering(sreq[r].resp, r)
  BY ServedParts DEF Served, Holding
<1>2. Served(sreq'[r], r)
  <2>1. /\ HasFields(sreq'[r], ServedFields)
        /\ sreq'[r].b1 = sreq[r].b1 /\ sreq'[r].b2req = sreq[r].b2req
        /\ sreq'[r].state = "RESPONSE"
    BY <1>1, <1>3, ServedParts DEF Holding, HasFields, ServedFields, AllServed, IsArray
  <2>2. /\ HasFields(sreq'[r].resp, AnswerFields)
        /\ sreq'[r].resp.code = sreq[r].resp.code /\ sreq'[r].resp.body = sreq[r].resp.body
        /\ sreq'[r].resp.cur = sreq[r].resp.cur /\ sreq'[r].resp.szx = sreq[r].resp.szx
    BY <1>1, <1>3, ServedParts DEF Holding, Answering, HasFields, ServedFields, AnswerFields,
                                   AllServed, IsArray
  <2>3. Answering(sreq'[r].resp, r)
    BY <1>3, <2>2 DEF Answering
  <2>4. Holding(sreq'[r], r)
    BY <1>3, <2>1, <2>3 DEF Holding
  <2> QED
    BY <2>1, <2>4, AnsweredServed
<1>4. IsArray(sreq') /\ \A s \in Request : s # r => sreq'[s] = sreq[s]
  BY <1>1, ServedParts DEF AllServed, IsArray
<1>5. AllServed(sreq')
  BY <1>2, <1>4, ServedParts DEF AllServed
<1>6. Good(peer, ResponsePacket(r))
  BY <1>3, ResponseGood DEF Good
<1>7. NetInv'
  BY <1>1, <1>6, SendsCarried DEF NetInv
<1>8. UNCHANGED <<sobs, ver, serr, sack, srst>>
  BY DEF SendResponse, observerVars, slots
<1> QED
  BY <1>5, <1>7, <1>8 DEF ServedInv, Replies

LEMMA SendNotificationServed ==
  ASSUME ServedInv, NetInv, peer = "own", peer' = peer, SendNotification
  PROVE  ServedInv' /\ NetInv'
<1>1. PICK r \in Request :
        /\ SendsOn(sobs[r].conn, NotificationPacket(r))
        /\ sobs' = [sobs EXCEPT ![r].sendNow = FALSE, ![r].waiting = TRUE,
                                ![r].retrans = @ + 1]
  BY DEF SendNotification, SendingObservers
<1> DEFINE o == [sobs[r] EXCEPT !.sendNow = FALSE, !.waiting = TRUE,
                                !.retrans = sobs[r].retrans + 1]
<1>2. sobs' = [sobs EXCEPT ![r] = o]
  BY <1>1, ServedParts DEF AllObserve, IsArray, Observer, HasFields
<1>3. Observer(o) /\ Observer(sobs[r])
  BY ServedParts DEF Observer, HasFields
<1> HIDE DEF o
<1>4. AllObserve(sobs')
  BY <1>2, <1>3, OneObserves, ServedParts
<1>5. Good(peer, NotificationPacket(r))
  BY <1>3, NotificationGood DEF Good
<1>6. NetInv'
  BY <1>1, <1>5, SendsCarried DEF NetInv, SendsOn, netVars
<1>7. UNCHANGED <<sreq, ver, serr, sack, srst>>
  BY DEF SendNotification, requestVars, slots
<1> QED
  BY <1>4, <1>6, <1>7 DEF ServedInv, Replies

LEMMA ExpireRequestServed ==
  ASSUME AllServed(sreq), NEW r \in Request, ExpireRequest(r)
  PROVE  AllServed(sreq')
<1> DEFINE again == [sreq[r] EXCEPT !.resp.sendNow = TRUE]
<1>1. Served(sreq[r], r) /\ Holding(sreq[r], r) /\ Answering(sreq[r].resp, r)
  BY DEF AllServed, Served, Holding
<1>2. Served(Over(sreq[r]), r) /\ Served(Discarded(sreq[r]), r)
  BY <1>1, OverKept, KeptServed
<1>3. ASSUME sreq[r].state = "RESPONSE" PROVE Served(again, r)
  <2>1. /\ HasFields(again, ServedFields)
        /\ again.b1 = sreq[r].b1 /\ again.b2req = sreq[r].b2req
        /\ again.state = "RESPONSE"
    BY <1>1, <1>3 DEF Holding, HasFields, ServedFields
  <2>2. /\ HasFields(again.resp, AnswerFields)
        /\ again.resp.code = sreq[r].resp.code /\ again.resp.body = sreq[r].resp.body
        /\ again.resp.cur = sreq[r].resp.cur /\ again.resp.szx = sreq[r].resp.szx
    BY <1>1 DEF Holding, Answering, HasFields, ServedFields, AnswerFields
  <2> HIDE DEF again
  <2>3. Answering(again.resp, r)
    BY <1>1, <2>2 DEF Answering
  <2>4. Holding(again, r)
    BY <1>1, <2>1, <2>3 DEF Holding
  <2> QED
    BY <2>1, <2>4, AnsweredServed
<1>4. \/ SetRequest(r, Discarded(sreq[r]))
      \/ SetRequest(r, Over(sreq[r]))
      \/ SetRequest(r, again) /\ sreq[r].state = "RESPONSE"
  BY DEF ExpireRequest
<1> HIDE DEF again
<1> QED
  BY <1>2, <1>3, <1>4, SetRequestServed

LEMMA ExpireNotificationServed ==
  ASSUME AllServed(sreq), AllObserve(sobs), NEW r \in Request, ExpireNotification(r)
  PROVE  AllServed(sreq') /\ AllObserve(sobs')
<1>1. CASE FreeObservers({r}) /\ sreq' = Forgetting(sreq, {r})
  BY <1>1, ForgettingServed, FreeObserversObserve
<1>2. CASE sobs' = [sobs EXCEPT ![r].waiting = FALSE, ![r].sendNow = TRUE] /\ sreq' = sreq
  <2> DEFINE o == [sobs[r] EXCEPT !.waiting = FALSE, !.sendNow = TRUE]
  <2>1. sobs' = [sobs EXCEPT ![r] = o]
    BY <1>2 DEF AllObserve, IsArray, Observer, HasFields
  <2>2. Observer(o)
    BY DEF AllObserve, Observer, HasFields
  <2> HIDE DEF o
  <2> QED
    BY <1>2, <2>1, <2>2, OneObserves
<1> QED
  BY <1>1, <1>2 DEF ExpireNotification
-----------------------------------------------------------------------------
(* What the server receives. *)

LEMMA QueueGood ==
  ASSUME NEW slot, NEW m, \A x \in slot : Answer("own", x), Answer("own", m)
  PROVE  \A x \in Queue(slot, m) : Answer("own", x)
BY DEF Queue

LEMMA AckForGood ==
  ASSUME NEW m, m.conn \in Conn
  PROVE  Answer("own", AckFor(m))
BY EmptyToClient DEF AckFor

LEMMA ErrorGood ==
  ASSUME NEW m, m.conn \in Conn, NEW code, code # "OK", NEW mid,
         \A x \in serr : Answer("own", x), MakeError(m, code, mid)
  PROVE  \A x \in serr' : Answer("own", x)
<1> DEFINE plain == Message("client", "ACK", code, m.mid, m.conn, m.token)
<1>1. PICK type, id : serr' = Queue(serr, [plain EXCEPT !.type = type, !.mid = id])
  <2>1. serr' = Queue(serr, [plain EXCEPT !.type = IF Confirmable(m) THEN "ACK" ELSE "NON",
                                          !.mid = IF Confirmable(m) THEN m.mid ELSE mid + 1])
    BY DEF MakeError, Message
  <2> HIDE DEF plain
  <2> QED
    BY <2>1
<1> DEFINE e == [plain EXCEPT !.type = type, !.mid = id]
<1>2. e.to = "client" /\ e.conn = m.conn /\ e.b2 = NoBlock /\ e.b1 = NoBlock
        /\ e.pay = <<>> /\ e.code = code
  BY DEF Message
<1> HIDE DEF e
<1>3. Answer("own", e)
  BY <1>2, PlainAnswer DEF Chunks
<1>4. serr' = Queue(serr, e)
  BY <1>1 DEF e
<1> QED
  BY <1>3, <1>4, QueueGood

(* A request that may take the next chunk. *)
MayTake(q, r) ==
  /\ Holding(q, r)
  /\ q.state = "REQUEST" /\ q.resp.cur = 0
  /\ Prefix(q.body, r)
  /\ q.b1.more = FALSE => q.body = <<>>

LEMMA ServedTaking ==
  ASSUME NEW r, NEW q, Served(q, r), q.state = "REQUEST"
  PROVE  MayTake(q, r)
BY DEF Served, Receiving, MayTake

(* What a message adds to the body is a prefix again, and the whole with   *)
(* the last chunk.                                                         *)
LEMMA TakenServed ==
  ASSUME NEW r \in Request, NEW q, MayTake(q, r), NEW m, m.token = r, m.b2 \in Blocks,
         Chunked(m), Refusal(q, m) = "NONE"
  PROVE  Served(Taken(q, m), r)
<1> DEFINE more == HasBlock(m.b1) /\ m.b1.more
           chunk == [q EXCEPT !.b1 = m.b1, !.mid = m.mid, !.body = q.body \o m.pay,
                              !.continue = q.continue \/ more]
           plain == [q EXCEPT !.body = IF m.pay = <<>> THEN q.body ELSE m.pay]
           new == IF HasBlock(m.b1) THEN chunk ELSE plain
           b2req == IF HasBlock(m.b2) THEN m.b2 ELSE q.b2req
           state == IF more THEN "REQUEST" ELSE "USER"
           n == [new EXCEPT !.b2req = IF HasBlock(m.b2) THEN m.b2 ELSE new.b2req,
                            !.state = state]
<1>1. Taken(q, m) = n
  BY DEF Taken
<1>2. HasFields(q, ServedFields) /\ q.b1 \in Chunks(r) /\ q.b2req \in Blocks
        /\ Answering(q.resp, r)
  BY DEF MayTake, Holding
<1>3. b2req \in Blocks
  BY <1>2
<1>4. m.b1 \in Blocks
  BY ChunksAreBlocks DEF Chunked
<1>5. m.b1.more \in BOOLEAN
  BY <1>4, BlockTypes
<1>6. PICK k \in 0..BodyLen[r] : q.body = SubSeq(Whole(r), 1, k)
  BY DEF MayTake, Prefix
<1>7. BodyLen[r] \in Nat /\ Whole(r) \in Seq(Unit) /\ Len(Whole(r)) = BodyLen[r]
        /\ SubSeq(Whole(r), 1, BodyLen[r]) = Whole(r)
  BY WholeShape
<1>8. CASE HasBlock(m.b1)
  <2>1. Offset(m.b1) = Len(q.body)
    BY <1>8 DEF Refusal
  <2>2. Offset(m.b1) = k
    BY <1>6, <2>1, PrefixLength
  <2>3. PICK upto \in k..BodyLen[r] : /\ m.pay = SubSeq(Whole(r), k + 1, upto)
                                      /\ m.b1.more = FALSE => upto = BodyLen[r]
    BY <1>8, <2>2 DEF Chunked
  <2>4. q.body \o m.pay = SubSeq(Whole(r), 1, upto)
    <3> DEFINE whole == Whole(r)
    <3>1. whole \in Seq(Unit) /\ k \in 0..Len(whole) /\ upto \in k..Len(whole)
      BY <1>7
    <3> HIDE DEF whole
    <3>2. SubSeq(whole, 1, k) \o SubSeq(whole, k + 1, upto) = SubSeq(whole, 1, upto)
      BY <3>1, JoinParts
    <3> QED
      BY <1>6, <2>3, <3>2 DEF whole
  <2>5. upto \in 0..BodyLen[r]
    BY <1>7
  <2>6. HasFields(chunk, ServedFields) /\ chunk.b1 = m.b1 /\ chunk.b2req = q.b2req
          /\ chunk.resp = q.resp /\ chunk.body = q.body \o m.pay
    BY <1>2 DEF HasFields, ServedFields
  <2> HIDE DEF chunk, more
  <2>7. new = chunk
    BY <1>8
  <2> HIDE DEF new, state
  <2>8. HasFields(n, ServedFields) /\ n.b1 = m.b1 /\ n.b2req = b2req
          /\ n.resp = q.resp /\ n.body = q.body \o m.pay /\ n.state = state
    BY <2>6, <2>7 DEF HasFields, ServedFields
  <2>9. state \in {"REQUEST", "USER"} /\ (state = "REQUEST" <=> m.b1.more = TRUE)
    BY <1>5, <1>8 DEF state, more
  <2> HIDE DEF n
  <2>10. Holding(n, r)
    BY <1>2, <1>3, <2>8 DEF Holding, Chunked
  <2>11. Prefix(n.body, r)
    BY <2>4, <2>5, <2>8 DEF Prefix
  <2>12. n.b1.more = FALSE => n.body = Whole(r)
    BY <1>7, <2>3, <2>4, <2>8
  <2>13. Receiving(n, r)
    BY <2>8, <2>9, <2>11, <2>12 DEF Receiving, MayTake
  <2>14. Served(n, r)
    BY <2>10, <2>13 DEF Served
  <2> QED
    BY <1>1, <2>14
<1>9. CASE ~HasBlock(m.b1)
  <2> DEFINE body == IF m.pay = <<>> THEN q.body ELSE m.pay
  <2>1. HasFields(plain, ServedFields) /\ plain.b1 = q.b1 /\ plain.b2req = q.b2req
          /\ plain.resp = q.resp /\ plain.body = body
    BY <1>2 DEF HasFields, ServedFields
  <2>2. m.pay \in {<<>>, Whole(r)}
    BY <1>9 DEF Chunked
  <2>3. body \in {q.body, Whole(r)}
    BY <2>2
  <2> HIDE DEF body, plain, more
  <2>4. new = plain
    BY <1>9
  <2> HIDE DEF new, state
  <2>5. HasFields(n, ServedFields) /\ n.b1 = q.b1 /\ n.b2req = b2req
          /\ n.resp = q.resp /\ n.body = body /\ n.state = state
    BY <2>1, <2>4 DEF HasFields, ServedFields
  <2>6. state = "USER"
    BY <1>9 DEF state, more
  <2> HIDE DEF n
  <2>7. Holding(n, r)
    BY <1>2, <1>3, <2>5 DEF Holding
  <2>8. BodyLen[r] \in 0..BodyLen[r]
    BY <1>7
  <2>9. Prefix(Whole(r), r)
    BY <1>7, <2>8 DEF Prefix
  <2>10. Prefix(n.body, r)
    BY <2>3, <2>5, <2>9 DEF MayTake
  <2>11. n.b1.more = FALSE => n.body \in {<<>>, Whole(r)}
    BY <2>3, <2>5 DEF MayTake
  <2>12. Receiving(n, r)
    BY <2>5, <2>6, <2>10, <2>11 DEF Receiving, MayTake
  <2>13. Served(n, r)
    BY <2>7, <2>12 DEF Served
  <2> QED
    BY <1>1, <2>13
<1> QED
  BY <1>8, <1>9

LEMMA DiscardedServed ==
  ASSUME NEW r, NEW q, Holding(q, r)
  PROVE  Served(Discarded(q), r)
<1> DEFINE n == Discarded(q)
<1>1. HasFields(n, ServedFields) /\ n.b1 = q.b1 /\ n.b2req = q.b2req /\ n.resp = q.resp
        /\ n.state = "DONE"
  BY DEF Holding, HasFields, ServedFields, Discarded
<1> HIDE DEF n
<1>2. Holding(n, r)
  BY <1>1 DEF Holding
<1>3. Served(n, r)
  BY <1>1, <1>2, AnsweredServed
<1> QED
  BY <1>3 DEF n

(* handle_data_for_request. *)
LEMMA DataServed ==
  ASSUME NEW reqs, IsArray(reqs), NEW m, m.token \in Request, m.b2 \in Blocks, m.conn \in Conn,
         Chunked(m), \A r \in Request : r # m.token => Served(reqs[r], r),
         MayTake(reqs[m.token], m.token), NEW mid,
         \A x \in Replies : Answer("own", x), Data(reqs, m, mid), srst' = srst
  PROVE  AllServed(sreq') /\ \A x \in Replies' : Answer("own", x)
<1> DEFINE q == reqs[m.token]
<1>1. CASE /\ Refusal(q, m) # "NONE"
           /\ SetRequests([reqs EXCEPT ![m.token] = Discarded(q)])
           /\ MakeError(m, Refusal(q, m), mid)
           /\ UNCHANGED sack
  <2>1. Served(Discarded(q), m.token)
    BY DiscardedServed DEF MayTake
  <2>2. AllServed([reqs EXCEPT ![m.token] = Discarded(q)])
    BY <2>1 DEF AllServed, IsArray
  <2>3. AllServed(sreq')
    BY <1>1, <2>2, SetRequestsServed
  <2>4. Refusal(q, m) # "OK"
    BY DEF Refusal
  <2>5. \A x \in serr' : Answer("own", x)
    BY <1>1, <2>4, ErrorGood DEF Replies
  <2> QED
    BY <1>1, <2>3, <2>5 DEF Replies
<1>2. CASE /\ Refusal(q, m) = "NONE"
           /\ sreq' = [reqs EXCEPT ![m.token] = Taken(q, m)]
           /\ sack' = IF Confirmable(m) /\ ~Taken(q, m).continue
                        THEN Queue(sack, AckFor(m)) ELSE sack
           /\ UNCHANGED serr
  <2>1. Served(Taken(q, m), m.token)
    BY <1>2, TakenServed
  <2>2. AllServed(sreq')
    BY <1>2, <2>1 DEF AllServed, IsArray
  <2>3. sack' \in {sack, Queue(sack, AckFor(m))}
    BY <1>2
  <2>4. \A x \in sack' : Answer("own", x)
    BY <2>3, AckForGood, QueueGood DEF Replies
  <2> QED
    BY <1>2, <2>2, <2>4 DEF Replies
<1> QED
  BY <1>1, <1>2 DEF Data

LEMMA AsksParts ==
  ASSUME NEW m, Question("own", m), m.type \in {"CON", "NON"}
  PROVE  m.token \in Request /\ m.b2 \in Blocks /\ m.conn \in Conn /\ Chunked(m)
BY DEF Question

LEMMA BadOptionServed ==
  ASSUME NEW m, m.conn \in Conn, \A x \in Replies : Answer("own", x), BadOption(m)
  PROVE  (\A x \in Replies' : Answer("own", x)) /\ UNCHANGED <<sreq, sobs, ver>>
<1>1. UNCHANGED <<sreq, sobs, ver, sack>>
  BY DEF BadOption, requestVars, observerVars
<1>2. CASE MakeError(m, "BAD_OPTION", smid) /\ UNCHANGED srst
  <2>1. \A x \in serr' : Answer("own", x)
    BY <1>2, ErrorGood DEF Replies
  <2> QED
    BY <1>1, <1>2, <2>1 DEF Replies
<1>3. CASE srst' = Queue(srst, EmptyMessage("client", "RST", m.mid, m.conn)) /\ serr' = serr
  <2>1. \A x \in srst' : Answer("own", x)
    BY <1>3, EmptyToClient, QueueGood DEF Replies
  <2> QED
    BY <1>1, <1>3, <2>1 DEF Replies
<1> QED
  BY <1>1, <1>2, <1>3 DEF BadOption

LEMMA DuplicateServed ==
  ASSUME NEW m, m.conn \in Conn, m.token \in Request, AllServed(sreq),
         \A x \in Replies : Answer("own", x), Duplicate(m)
  PROVE  /\ AllServed(sreq') /\ UNCHANGED <<sobs, ver>>
         /\ \A x \in Replies' : Answer("own", x)
<1> DEFINE n == [sreq[m.token] EXCEPT !.continue = TRUE]
<1>1. UNCHANGED <<sobs, ver, serr, srst>>
  BY DEF Duplicate, observerVars
<1>2. sreq' = sreq \/ sreq' = [sreq EXCEPT ![m.token] = n]
  BY DEF Duplicate, AllServed, IsArray
<1>3. sack' \in {sack, Queue(sack, AckFor(m))}
  BY DEF Duplicate
<1>4. Served(sreq[m.token], m.token)
  BY DEF AllServed
<1>5. Kept(sreq[m.token], n)
  BY <1>4, OverKept
<1> HIDE DEF n
<1>6. AllServed(sreq')
  BY <1>2, <1>4, <1>5, KeptServed, UpdateServed
<1>7. \A x \in sack' : Answer("own", x)
  BY <1>3, AckForGood, QueueGood DEF Replies
<1> QED
  BY <1>1, <1>6, <1>7 DEF Replies

LEMMA NewRequestTakes ==
  ASSUME NEW m, NEW q,
         q = [Absent EXCEPT !.state = "REQUEST", !.conn = TRUE, !.type = m.type, !.mid = m.mid,
                            !.isObs = m.obs = 0, !.resp.mid = smid + 1],
         NEW r \in Request
  PROVE  MayTake(q, r)
<1>1. HasFields(q, ServedFields) /\ q.state = "REQUEST" /\ q.b1 = NoBlock
        /\ q.b2req = NoBlock /\ q.body = <<>>
  BY DEF HasFields, Absent, ServedFields
<1>2. q.resp = [NoAnswer EXCEPT !.mid = smid + 1]
  BY DEF Absent
<1>3. HasFields(q.resp, AnswerFields) /\ q.resp.szx = ServerSzx /\ q.resp.cur = 0
        /\ q.resp.body = <<>> /\ q.resp.code = "EMPTY"
  BY <1>2 DEF HasFields, NoAnswer, AnswerFields
<1>4. Answering(q.resp, r)
  BY <1>3, ServerAssumption, EmptyPiece DEF Answering, Szx
<1>5. Prefix(<<>>, r)
  <2>1. 0 \in 0..BodyLen[r] /\ <<>> = SubSeq(Whole(r), 1, 0)
    BY WholeShape
  <2> QED
    BY <2>1 DEF Prefix
<1> QED
  BY <1>1, <1>3, <1>4, <1>5 DEF MayTake, Holding, Blocks, Chunks

LEMMA NewServerRequestServed ==
  ASSUME NEW m, Question("own", m), m.type \in {"CON", "NON"}, AllServed(sreq),
         AllObserve(sobs), \A x \in Replies : Answer("own", x),
         NewServerRequest(m), srst' = srst
  PROVE  AllServed(sreq') /\ AllObserve(sobs') /\ \A x \in Replies' : Answer("own", x)
<1> DEFINE ends == {r \in {m.token} : m.obs = 1 /\ sobs[r].on /\ sobs[r].conn}
           q == [Absent EXCEPT !.state = "REQUEST", !.conn = TRUE, !.type = m.type,
                               !.mid = m.mid, !.isObs = m.obs = 0, !.resp.mid = smid + 1]
           reqs == [Forgetting(sreq, ends) EXCEPT ![m.token] = q]
<1>1. FreeObservers(ends) /\ Data(reqs, m, smid + 1)
  BY DEF NewServerRequest
<1>2. m.token \in Request /\ m.b2 \in Blocks /\ m.conn \in Conn /\ Chunked(m)
  BY AsksParts
<1>3. MayTake(q, m.token)
  BY <1>2, NewRequestTakes
<1> HIDE DEF q, ends
<1>4. AllServed(Forgetting(sreq, ends))
  BY ForgettingServed
<1>5. IsArray(reqs) /\ reqs[m.token] = q
        /\ \A r \in Request : r # m.token => reqs[r] = Forgetting(sreq, ends)[r]
  BY <1>2, <1>4 DEF AllServed, IsArray
<1>6. \A r \in Request : r # m.token => Served(reqs[r], r)
  BY <1>4, <1>5 DEF AllServed
<1> HIDE DEF reqs
<1>7. MayTake(reqs[m.token], m.token)
  BY <1>3, <1>5
<1>8. AllServed(sreq') /\ \A x \in Replies' : Answer("own", x)
  BY <1>1, <1>2, <1>5, <1>6, <1>7, DataServed
<1> QED
  BY <1>1, <1>8, FreeObserversObserve

LEMMA FirstMessageServed ==
  ASSUME NEW m, Question("own", m), AllServed(sreq), AllObserve(sobs),
         \A x \in Replies : Answer("own", x), FirstMessage(m)
  PROVE  /\ AllServed(sreq') /\ AllObserve(sobs') /\ ver' = ver
         /\ \A x \in Replies' : Answer("own", x)
<1>1. m.type \in {"CON", "NON"} /\ srst' = srst /\ ver' = ver
  BY DEF FirstMessage, Asks
<1>2. CASE NewServerRequest(m)
  BY <1>1, <1>2, NewServerRequestServed
<1>3. CASE NoRoom(m)
  <2>1. UNCHANGED <<sreq, sobs, sack>>
    BY <1>3 DEF NoRoom, requestVars, observerVars
  <2>2. PICK code : code \in {"NOT_FOUND", "UNAVAILABLE"} /\ MakeError(m, code, smid)
    BY <1>3 DEF NoRoom
  <2>3. m.conn \in Conn
    BY DEF Question
  <2>4. \A x \in serr' : Answer("own", x)
    BY <2>2, <2>3, ErrorGood DEF Replies
  <2> QED
    BY <1>1, <2>1, <2>4 DEF Replies
<1> QED
  BY <1>2, <1>3 DEF FirstMessage

LEMMA FurtherMessageServed ==
  ASSUME NEW m, Question("own", m), AllServed(sreq),
         \A x \in Replies : Answer("own", x), FurtherMessage(m)
  PROVE  /\ AllServed(sreq') /\ UNCHANGED <<sobs, ver>>
         /\ \A x \in Replies' : Answer("own", x)
<1>1. /\ m.type \in {"CON", "NON"} /\ srst' = srst /\ UNCHANGED <<sobs, ver>>
      /\ sreq[m.token].state = "REQUEST" /\ Data(sreq, m, smid)
  BY DEF FurtherMessage, Asks, observerVars
<1>2. m.token \in Request /\ m.b2 \in Blocks /\ m.conn \in Conn /\ Chunked(m)
  BY <1>1, AsksParts
<1>3. IsArray(sreq) /\ \A r \in Request : Served(sreq[r], r)
  BY DEF AllServed
<1>4. MayTake(sreq[m.token], m.token)
  BY <1>1, <1>2, <1>3, ServedTaking
<1> QED
  BY <1>1, <1>2, <1>3, <1>4, DataServed

LEMMA NextBlockServed ==
  ASSUME NEW m, Question("own", m), AllServed(sreq),
         \A x \in Replies : Answer("own", x), NextBlock(m)
  PROVE  /\ AllServed(sreq') /\ UNCHANGED <<sobs, ver>>
         /\ \A x \in Replies' : Answer("own", x)
<1> DEFINE q == sreq[m.token]
           bad == Offset(m.b2) # 0 /\ Offset(m.b2) >= Len(q.resp.body)
           a == [q.resp EXCEPT !.cur = m.b2.num, !.szx = m.b2.szx, !.mid = smid + 1,
                               !.sendNow = TRUE, !.waiting = FALSE, !.retrans = 0]
           n == [q EXCEPT !.mid = m.mid, !.resp = a]
<1>1. /\ m.type \in {"CON", "NON"} /\ srst' = srst /\ UNCHANGED <<sobs, ver>>
      /\ q.state = "RESPONSE" /\ HasBlock(m.b2)
  BY DEF NextBlock, Asks, observerVars
<1>2. m.token \in Request /\ m.b2 \in Blocks /\ m.conn \in Conn
  BY <1>1, AsksParts
<1>3. Served(q, m.token) /\ Holding(q, m.token) /\ Answering(q.resp, m.token)
  BY <1>2 DEF AllServed, Served, Holding
<1>4. CASE SetRequest(m.token, Over(q)) /\ MakeError(m, "BAD_REQUEST", smid) /\ sack' = sack
  <2>1. Served(Over(q), m.token)
    BY <1>3, OverKept, KeptServed
  <2>2. AllServed(sreq')
    BY <1>4, <2>1, SetRequestServed
  <2>3. \A x \in serr' : Answer("own", x)
    BY <1>2, <1>4, ErrorGood DEF Replies
  <2> QED
    BY <1>1, <1>4, <2>2, <2>3 DEF Replies
<1>5. CASE /\ ~bad /\ SetRequest(m.token, n) /\ serr' = serr
           /\ sack' = IF Confirmable(m) THEN Queue(sack, AckFor(m)) ELSE sack
  <2>1. /\ m.b2.num \in Nat /\ m.b2.szx \in Szx /\ Len(q.resp.body) \in Nat
        /\ m.b2.num = 0 \/ m.b2.num * Size(m.b2.szx) < Len(q.resp.body)
    <3>1. m.b2.num \in Nat /\ m.b2.szx \in Szx
      BY <1>1, <1>2, BlockTypes
    <3>2. Len(q.resp.body) \in Nat
      BY <1>3 DEF Answering, Piece
    <3>3. Size(m.b2.szx) \in Nat /\ Size(m.b2.szx) > 0
      BY <3>1, SizePositive
    <3>4. Offset(m.b2) \in Nat /\ Offset(m.b2) = m.b2.num * Size(m.b2.szx)
            /\ (m.b2.num > 0 => Offset(m.b2) >= Size(m.b2.szx))
      BY <3>1, Products DEF Offset
    <3> DEFINE off == Offset(m.b2)
               len == Len(q.resp.body)
               size == Size(m.b2.szx)
               num == m.b2.num
    <3>5. off \in Nat /\ len \in Nat /\ size > 0 /\ size \in Nat /\ num \in Nat
            /\ (num > 0 => off >= size) /\ ~(off # 0 /\ off >= len)
      BY <1>5, <3>1, <3>2, <3>3, <3>4
    <3> HIDE DEF off, len, size, num
    <3>6. num = 0 \/ off < len
      BY <3>5
    <3> QED
      BY <3>1, <3>2, <3>4, <3>6 DEF off, len, num
  <2>2. HasFields(a, AnswerFields) /\ a.cur = m.b2.num /\ a.szx = m.b2.szx
          /\ a.body = q.resp.body /\ a.code = q.resp.code
    BY <1>3 DEF Answering, HasFields, AnswerFields
  <2>3. HasFields(n, ServedFields) /\ n.resp = a /\ n.b1 = q.b1 /\ n.b2req = q.b2req
          /\ n.state = q.state
    BY <1>3 DEF Holding, HasFields, ServedFields
  <2> HIDE DEF a, n
  <2>4. Answering(a, m.token)
    BY <1>3, <2>1, <2>2 DEF Answering
  <2>5. Holding(n, m.token)
    BY <1>3, <2>3, <2>4 DEF Holding
  <2>6. Served(n, m.token)
    BY <1>1, <2>3, <2>5, AnsweredServed
  <2>7. AllServed(sreq')
    BY <1>5, <2>6, SetRequestServed
  <2>8. sack' \in {sack, Queue(sack, AckFor(m))}
    BY <1>5
  <2>9. \A x \in sack' : Answer("own", x)
    BY <1>2, <2>8, AckForGood, QueueGood DEF Replies
  <2> QED
    BY <1>1, <1>5, <2>7, <2>9 DEF Replies
<1>6. \/ SetRequest(m.token, Over(q)) /\ MakeError(m, "BAD_REQUEST", smid) /\ sack' = sack
      \/ /\ ~bad /\ SetRequest(m.token, n) /\ serr' = serr
         /\ sack' = IF Confirmable(m) THEN Queue(sack, AckFor(m)) ELSE sack
  <2>1. n = [q EXCEPT !.mid = m.mid,
                      !.resp = [@ EXCEPT !.cur = m.b2.num, !.szx = m.b2.szx,
                                         !.mid = smid + 1, !.sendNow = TRUE,
                                         !.waiting = FALSE, !.retrans = 0]]
    BY <1>3 DEF Holding, HasFields, ServedFields
  <2> HIDE DEF n, bad
  <2> QED
    BY <2>1 DEF NextBlock, bad
<1> QED
  BY <1>4, <1>5, <1>6

LEMMA AckResponseServed ==
  ASSUME NEW m, AllServed(sreq), AckResponse(m)
  PROVE  AllServed(sreq') /\ UNCHANGED <<sobs, ver, serr, sack, srst>>
<1>1. UNCHANGED <<sobs, ver, serr, sack, srst>>
  BY DEF AckResponse, observerVars, slots
<1>2. PICK r \in Matched(m) :
        LET q == [sreq[r] EXCEPT !.resp.waiting = FALSE]
        IN  SetRequest(r, IF LastBlock(q.resp) THEN Over(q) ELSE [q EXCEPT !.resp.retrans = 0])
  BY DEF AckResponse
<1>3. r \in Request /\ sreq[r].state = "RESPONSE"
  BY DEF Matched, InFlight
<1> DEFINE q == [sreq[r] EXCEPT !.resp.waiting = FALSE]
           n == [q EXCEPT !.resp.retrans = 0]
<1>4. SetRequest(r, Over(q)) \/ SetRequest(r, n)
  BY <1>2
<1>5. Holding(sreq[r], r) /\ Answering(sreq[r].resp, r)
  BY <1>3 DEF AllServed, Served, Holding
<1>6. /\ HasFields(q, ServedFields) /\ q.state = "RESPONSE"
      /\ q.b1 = sreq[r].b1 /\ q.b2req = sreq[r].b2req
      /\ HasFields(q.resp, AnswerFields)
      /\ q.resp.code = sreq[r].resp.code /\ q.resp.body = sreq[r].resp.body
      /\ q.resp.cur = sreq[r].resp.cur /\ q.resp.szx = sreq[r].resp.szx
  <2>1. HasFields(q, ServedFields) /\ q.state = "RESPONSE"
          /\ q.b1 = sreq[r].b1 /\ q.b2req = sreq[r].b2req
    BY <1>3, <1>5 DEF Holding, HasFields, ServedFields
  <2>2. q.resp = [sreq[r].resp EXCEPT !.waiting = FALSE]
    BY <1>5 DEF Holding, HasFields, ServedFields
  <2>3. /\ HasFields(q.resp, AnswerFields)
        /\ q.resp.code = sreq[r].resp.code /\ q.resp.body = sreq[r].resp.body
        /\ q.resp.cur = sreq[r].resp.cur /\ q.resp.szx = sreq[r].resp.szx
    BY <1>5, <2>2 DEF Answering, HasFields, AnswerFields
  <2> QED
    BY <2>1, <2>3
<1> HIDE DEF q
<1>7. Answering(q.resp, r)
  BY <1>5, <1>6 DEF Answering
<1>8. Holding(q, r)
  BY <1>5, <1>6, <1>7 DEF Holding
<1>9. Served(q, r)
  BY <1>6, <1>8, AnsweredServed
<1>10. Served(Over(q), r)
  BY <1>9, OverKept, KeptServed
<1>11. Served(n, r)
  <2>1. HasFields(n, ServedFields) /\ n.state = "RESPONSE"
          /\ n.b1 = q.b1 /\ n.b2req = q.b2req
    BY <1>6 DEF HasFields, ServedFields
  <2>2. n.resp = [q.resp EXCEPT !.retrans = 0]
    BY <1>6 DEF HasFields, ServedFields
  <2> HIDE DEF n
  <2>3. /\ HasFields(n.resp, AnswerFields)
        /\ n.resp.code = q.resp.code /\ n.resp.body = q.resp.body
        /\ n.resp.cur = q.resp.cur /\ n.resp.szx = q.resp.szx
    BY <1>6, <2>2 DEF HasFields, AnswerFields
  <2>4. Answering(n.resp, r)
    BY <1>7, <2>3 DEF Answering
  <2>5. Holding(n, r)
    BY <1>8, <2>1, <2>4 DEF Holding
  <2> QED
    BY <2>1, <2>5, AnsweredServed
<1> HIDE DEF n
<1> QED
  BY <1>1, <1>4, <1>10, <1>11, SetRequestServed

LEMMA PromotedObserves ==
  ASSUME NEW o, Observer(o)
  PROVE  Observer(Promoted(o))
<1> DEFINE idle == [o EXCEPT !.sendNow = FALSE, !.waiting = FALSE]
           v == CHOOSE x \in o.pending : TRUE
           n == Current(idle, v, smid + 1)
<1>1. Observer(idle)
  BY DEF Observer, HasFields
<1> HIDE DEF idle, v
<1>2. Promoted(o) = IF o.pending = {} THEN idle ELSE [n EXCEPT !.pending = {}]
  BY DEF Promoted, idle, v
<1>3. ASSUME o.pending # {} PROVE Observer([n EXCEPT !.pending = {}])
  <2>1. v \in o.pending
    BY <1>3 DEF v
  <2>2. v \in Nat
    BY <2>1 DEF Observer
  <2>3. Observer(n)
    BY <1>1, <2>2, CurrentObserves
  <2> HIDE DEF n
  <2> QED
    BY <2>3 DEF Observer, HasFields
<1> QED
  BY <1>1, <1>2, <1>3

LEMMA AckNotificationServed ==
  ASSUME NEW m, AllObserve(sobs), AckNotification(m)
  PROVE  AllObserve(sobs') /\ UNCHANGED <<sreq, ver, serr, sack, srst>>
<1>1. UNCHANGED <<sreq, ver, serr, sack, srst>>
  BY DEF AckNotification, requestVars, slots
<1>2. PICK r \in Request : sobs' = [sobs EXCEPT ![r] = Promoted(@)]
  BY DEF AckNotification, MatchedObserver
<1>3. Observer(sobs[r])
  BY DEF AllObserve
<1>4. sobs' = [sobs EXCEPT ![r] = Promoted(sobs[r])]
  BY <1>2 DEF AllObserve, IsArray
<1> QED
  BY <1>1, <1>3, <1>4, PromotedObserves, OneObserves

LEMMA ResetServed ==
  ASSUME NEW m, AllServed(sreq), AllObserve(sobs), ResetResponse(m) \/ ResetNotification(m)
  PROVE  /\ AllServed(sreq') /\ AllObserve(sobs')
         /\ UNCHANGED <<ver, serr, sack, srst>>
<1>1. CASE ResetResponse(m)
  <2>1. UNCHANGED <<sobs, ver, serr, sack, srst>>
    BY <1>1 DEF ResetResponse, observerVars, slots
  <2>2. PICK r \in Request : SetRequest(r, Over(sreq[r]))
    BY <1>1 DEF ResetResponse, Matched
  <2>3. Served(sreq[r], r)
    BY DEF AllServed
  <2>4. Served(Over(sreq[r]), r)
    BY <2>3, OverKept, KeptServed
  <2> QED
    BY <2>1, <2>2, <2>4, SetRequestServed
<1>2. CASE ResetNotification(m)
  <2>1. UNCHANGED <<ver, serr, sack, srst>>
    BY <1>2 DEF ResetNotification, slots
  <2>2. PICK r \in Request : FreeObservers({r}) /\ sreq' = Forgetting(sreq, {r})
    BY <1>2 DEF ResetNotification, MatchedObserver
  <2> QED
    BY <2>1, <2>2, ForgettingServed, FreeObserversObserve
<1> QED
  BY <1>1, <1>2

LEMMA ServerHandlesServed ==
  ASSUME ServedInv, NetInv, peer = "own", peer' = peer,
         NEW m \in Arriving("server", sup), ServerHandles(m)
  PROVE  ServedInv' /\ NetInv'
<1>1. Good(peer, m) /\ m.to = "server"
  BY ArrivingGood DEF NetInv
<1>2. Question("own", m) /\ m.conn \in Conn
  BY <1>1 DEF Good, Answer, Question
<1>3. Arrives(m)
  BY DEF ServerHandles, BadOption, Duplicate, FirstMessage, FurtherMessage, NextBlock, Ignored,
         AckResponse, AckNotification, ResetResponse, ResetNotification, Unmatched
<1>4. NetInv'
  BY <1>1, <1>3, ArrivesCarried DEF NetInv
<1>5. AllServed(sreq) /\ AllObserve(sobs) /\ ver \in Nat /\ \A x \in Replies : Answer("own", x)
  BY ServedParts
<1> SUFFICES /\ AllServed(sreq') /\ AllObserve(sobs') /\ ver' = ver
             /\ \A x \in Replies' : Answer("own", x)
  BY <1>4, <1>5 DEF ServedInv
<1>6. CASE BadOption(m)
  <2>1. UNCHANGED <<sreq, sobs, ver>> /\ \A x \in Replies' : Answer("own", x)
    BY <1>2, <1>5, <1>6, BadOptionServed
  <2> QED
    BY <1>5, <2>1
<1>7. CASE Duplicate(m)
  <2>1. m.token \in Request
    BY <1>2, <1>7, AsksParts DEF Duplicate, Asks
  <2>2. AllServed(sreq') /\ UNCHANGED <<sobs, ver>> /\ \A x \in Replies' : Answer("own", x)
    BY <1>2, <1>5, <1>7, <2>1, DuplicateServed
  <2> QED
    BY <1>5, <2>2
<1>8. CASE FirstMessage(m)
  BY <1>2, <1>5, <1>8, FirstMessageServed
<1>9. CASE FurtherMessage(m)
  <2>1. AllServed(sreq') /\ UNCHANGED <<sobs, ver>> /\ \A x \in Replies' : Answer("own", x)
    BY <1>2, <1>5, <1>9, FurtherMessageServed
  <2> QED
    BY <1>5, <2>1
<1>10. CASE NextBlock(m)
  <2>1. AllServed(sreq') /\ UNCHANGED <<sobs, ver>> /\ \A x \in Replies' : Answer("own", x)
    BY <1>2, <1>5, <1>10, NextBlockServed
  <2> QED
    BY <1>5, <2>1
<1>11. CASE Ignored(m) \/ Unmatched(m)
  <2>1. UNCHANGED <<sreq, sobs, ver, serr, sack, srst>>
    BY <1>11 DEF Ignored, Unmatched, serverVars
  <2> QED
    BY <1>5, <2>1 DEF Replies
<1>12. CASE AckResponse(m)
  <2>1. AllServed(sreq') /\ UNCHANGED <<sobs, ver, serr, sack, srst>>
    BY <1>5, <1>12, AckResponseServed
  <2> QED
    BY <1>5, <2>1 DEF Replies
<1>13. CASE AckNotification(m)
  <2>1. AllObserve(sobs') /\ UNCHANGED <<sreq, ver, serr, sack, srst>>
    BY <1>5, <1>13, AckNotificationServed
  <2> QED
    BY <1>5, <2>1 DEF Replies
<1>14. CASE ResetResponse(m) \/ ResetNotification(m)
  <2>1. AllServed(sreq') /\ AllObserve(sobs') /\ UNCHANGED <<ver, serr, sack, srst>>
    BY <1>5, <1>14, ResetServed
  <2> QED
    BY <1>5, <2>1 DEF Replies
<1> QED
  BY <1>6, <1>7, <1>8, <1>9, <1>10, <1>11, <1>12, <1>13, <1>14 DEF ServerHandles

LEMMA ServerServed ==
  ASSUME ServedInv, NetInv, peer = "own", peer' = peer, ServerNext
  PROVE  ServedInv' /\ NetInv'
<1>0. AllServed(sreq) /\ AllObserve(sobs) /\ ver \in Nat /\ \A x \in Replies : Answer("own", x)
  BY ServedParts
<1>1. CASE \E r \in Request : \/ Respond(r) \/ FreeRequest(r) \/ AcceptObserve(r)
                              \/ RemoveObserver(r)
  <2>1. PICK r \in Request : Respond(r) \/ FreeRequest(r) \/ AcceptObserve(r) \/ RemoveObserver(r)
    BY <1>1
  <2>2. UNCHANGED <<ver, serr, sack, srst, net, late>>
    BY <2>1 DEF Respond, FreeRequest, AcceptObserve, RemoveObserver, slots, netVars
  <2>3. AllServed(sreq') /\ AllObserve(sobs')
    <3>1. CASE Respond(r) \/ FreeRequest(r)
      <4>1. AllServed(sreq')
        BY <1>0, <3>1, RespondServed, FreeRequestServed
      <4>2. sobs' = sobs
        BY <3>1 DEF Respond, FreeRequest, observerVars
      <4> QED
        BY <1>0, <4>1, <4>2
    <3>2. CASE AcceptObserve(r) \/ RemoveObserver(r)
      BY <1>0, <3>2, AcceptObserveServed, RemoveObserverServed
    <3> QED
      BY <2>1, <3>1, <3>2
  <2> QED
    BY <1>0, <2>2, <2>3 DEF ServedInv, NetInv, Replies
<1>2. CASE \E c \in Conn : RemoveServerConnection(c)
  <2>1. PICK c \in Conn : RemoveServerConnection(c)
    BY <1>2
  <2>2. UNCHANGED <<ver, net, late>>
    BY <2>1 DEF RemoveServerConnection, netVars
  <2>3. AllServed(sreq') /\ AllObserve(sobs') /\ Replies' \subseteq Replies
    BY <1>0, <2>1, RemoveServerConnectionServed
  <2> QED
    BY <1>0, <2>2, <2>3 DEF ServedInv, NetInv
<1>3. CASE Notify
  <2>1. UNCHANGED <<sreq, serr, sack, srst, net, late>>
    BY <1>3 DEF Notify, requestVars, slots, netVars
  <2>2. AllObserve(sobs') /\ ver' \in Nat
    BY <1>0, <1>3, NotifyObserves
  <2> QED
    BY <1>0, <2>1, <2>2 DEF ServedInv, NetInv, Replies
<1>4. CASE ServerLoop
  BY <1>4, SlotsServed, SendContinueServed, SendResponseServed, SendNotificationServed
     DEF ServerLoop
<1>5. CASE \E m \in Arriving("server", sup) : ServerHandles(m)
  BY <1>5, ServerHandlesServed
<1> QED
  BY <1>1, <1>2, <1>3, <1>4, <1>5 DEF ServerNext

LEMMA ServerTimerServed ==
  ASSUME ServedInv, peer = "own", peer' = peer, NEW r \in Request,
         ExpireRequest(r) \/ ExpireNotification(r)
  PROVE  ServedInv'
<1>1. AllServed(sreq) /\ AllObserve(sobs) /\ ver \in Nat /\ \A x \in Replies : Answer("own", x)
  BY ServedParts
<1>2. UNCHANGED <<ver, serr, sack, srst>>
  BY DEF ExpireRequest, ExpireNotification, slots
<1>3. AllServed(sreq') /\ AllObserve(sobs')
  <2>1. CASE ExpireRequest(r)
    <3>1. sobs' = sobs
      BY <2>1 DEF ExpireRequest, observerVars
    <3> QED
      BY <1>1, <2>1, <3>1, ExpireRequestServed
  <2>2. CASE ExpireNotification(r)
    BY <1>1, <2>2, ExpireNotificationServed
  <2> QED
    BY <2>1, <2>2
<1> QED
  BY <1>1, <1>2, <1>3 DEF ServedInv, Replies
-----------------------------------------------------------------------------
(* The other server. *)

LEMMA ReplyGood ==
  ASSUME NEW m, m.conn \in Conn, NEW code, NEW szx
  PROVE  Answer("other", OtherReply(m, code, szx))
<1> DEFINE x == OtherReply(m, code, szx)
           body == Units(0, OtherLen)
<1>1. /\ x.to = "client" /\ x.conn = m.conn /\ x.b2 = NoBlock /\ x.code = code
      /\ x.pay = IF code = "OK" THEN body ELSE <<>>
  BY DEF OtherReply, Message
<1>2. OtherLen \in Nat
  BY OtherAssumption
<1>3. Piece(body, 0) /\ Len(body) = OtherLen
  BY <1>2, UnitsPiece
<1> HIDE DEF x, body
<1>4. Place(x) = 0 /\ x.b2 \in Blocks
  BY <1>1, NoBlockPlace DEF Place, Blocks
<1>5. Piece(x.pay, 0)
  BY <1>1, <1>3, EmptyPiece
<1>6. x.code = "OK" => Place(x) + Len(x.pay) = Total("other", x.token)
  BY <1>1, <1>2, <1>3, <1>4 DEF Total
<1>7. Answer("other", x)
  BY <1>1, <1>4, <1>5, <1>6 DEF Answer
<1> QED
  BY <1>7 DEF x

LEMMA OtherSendsCarried ==
  ASSUME NEW p, NEW m, Good(p, m), m \in late \/ OnTime(m), NEW reply, Good(p, reply),
         Carried(p, net, late), OtherSends(m, reply)
  PROVE  Carried(p, net', late')
<1>1. PICK S : /\ \A x \in S : Good(p, x)
               /\ late \subseteq S
               /\ net \in [Link -> Seq(S)]
               /\ \A l \in Link : \A i \in 1..Len(net[l]) : LinkOf(net[l][i]) = l
  BY DEF Carried
<1> DEFINE T == S \cup {reply}
           k == LinkOf(reply)
           j == LinkOf(m)
<1>2. late' \subseteq T
  BY <1>1 DEF OtherSends
<1>3. \A x \in T : Good(p, x)
  BY <1>1
<1>4. net' = [l \in Link |-> IF l = k THEN Append(net[l], reply)
                             ELSE IF m \notin late /\ l = j THEN Tail(net[l]) ELSE net[l]]
  BY DEF OtherSends
<1>5. m \notin late => net[j] # <<>>
  BY DEF OnTime
<1>6. ASSUME NEW l \in Link
      PROVE  net'[l] \in Seq(T) /\ \A i \in 1..Len(net'[l]) : LinkOf(net'[l][i]) = l
  <2>1. net[l] \in Seq(T)
    BY <1>1, SeqGrows
  <2>2. \A i \in 1..Len(net[l]) : LinkOf(net[l][i]) = l
    BY <1>1
  <2>3. LinkOf(reply) = k /\ reply \in T
    OBVIOUS
  <2> DEFINE s == net[l]
  <2>4. CASE l = k
    <3>1. net'[l] = Append(s, reply)
      BY <1>4, <2>4
    <3> HIDE DEF s, T, k
    <3>2. net'[l] \in Seq(T) /\ Len(net'[l]) = Len(s) + 1
      BY <2>1, <2>3, <3>1 DEF s
    <3>3. \A i \in 1..Len(net'[l]) :
            IF i = Len(s) + 1 THEN net'[l][i] = reply
                              ELSE net'[l][i] = s[i] /\ i \in 1..Len(s)
      BY <2>1, <2>3, <3>1, <3>2 DEF s
    <3> QED
      BY <2>2, <2>3, <2>4, <3>2, <3>3 DEF s
  <2>5. CASE l # k /\ m \notin late /\ l = j
    <3>1. net'[l] = Tail(s) /\ s # <<>>
      BY <1>4, <1>5, <2>5
    <3> HIDE DEF s, T, k, j
    <3>2. Tail(s) \in Seq(T) /\ Len(Tail(s)) = Len(s) - 1
            /\ \A i \in 1..Len(Tail(s)) : Tail(s)[i] = s[i + 1] /\ i + 1 \in 1..Len(s)
      BY <2>1, <3>1 DEF s
    <3> QED
      BY <2>2, <3>1, <3>2 DEF s
  <2>6. CASE l # k /\ ~(m \notin late /\ l = j)
    <3>1. net'[l] = net[l]
      BY <1>4, <2>6
    <3> QED
      BY <2>1, <2>2, <3>1
  <2> QED
    BY <2>4, <2>5, <2>6
<1>7. net' \in [Link -> Seq(T)]
  <2> HIDE DEF T
  <2> QED
    BY <1>4, <1>6
<1> HIDE DEF T
<1> QED
  BY <1>2, <1>3, <1>6, <1>7 DEF Carried

LEMMA OtherAnswers ==
  ASSUME OtherInv, NetInv, peer = "other", peer' = peer, OtherNext
  PROVE  OtherInv' /\ NetInv'
<1>1. PICK m \in Arriving("server", Conn) : OtherHandles(m)
  BY DEF OtherNext
<1>2. Good(peer, m) /\ (m \in late \/ OnTime(m)) /\ m.conn \in Conn
  BY <1>1, ArrivingGood DEF NetInv, Good, Answer, Question
<1>3. HasFields(other, {"replies"}) /\ \A x \in other.replies : Answer(peer, x)
  BY DEF OtherInv
<1>4. CASE OtherRepeats(m)
  <2>1. PICK reply \in other.replies : OtherSends(m, reply)
    BY <1>4 DEF OtherRepeats
  <2>2. Good(peer, reply)
    BY <1>3 DEF Good
  <2>3. NetInv'
    BY <1>2, <2>1, <2>2, OtherSendsCarried DEF NetInv
  <2> QED
    BY <1>4, <2>3 DEF OtherRepeats, OtherInv
<1>5. CASE OtherRefuses(m) \/ OtherTakes(m)
  <2>1. PICK code, szx : LET reply == OtherReply(m, code, szx)
                         IN  /\ OtherSends(m, reply)
                             /\ HasFields(other', {"replies"})
                             /\ other'.replies = other.replies \cup {reply}
    <3>1. CASE OtherRefuses(m)
      BY <1>3, <3>1 DEF OtherRefuses, HasFields
    <3>2. CASE OtherTakes(m)
      <4>1. PICK szx : 
              LET reply == IF m.b1.more THEN OtherReply(m, "CONTINUE", szx)
                                        ELSE OtherReply(m, "OK", m.b1.szx)
              IN  /\ OtherSends(m, reply)
                  /\ other' = [other EXCEPT !.body = @ \o m.pay, !.done = ~m.b1.more,
                                            !.replies = @ \cup {reply}]
        BY <3>2 DEF OtherTakes
      <4>2. CASE m.b1.more
        BY <1>3, <4>1, <4>2 DEF HasFields
      <4>3. CASE ~m.b1.more
        BY <1>3, <4>1, <4>3 DEF HasFields
      <4> QED
        BY <4>2, <4>3
    <3> QED
      BY <1>5, <3>1, <3>2
  <2>2. Answer(peer, OtherReply(m, code, szx))
    BY <1>2, ReplyGood
  <2>3. NetInv'
    BY <1>2, <2>1, <2>2, OtherSendsCarried DEF NetInv, Good
  <2>4. OtherInv'
    BY <1>3, <2>1, <2>2 DEF OtherInv
  <2> QED
    BY <2>3, <2>4
<1>6. CASE Arrives(m) /\ UNCHANGED other
  BY <1>2, <1>6, ArrivesCarried DEF NetInv, OtherInv
<1> QED
  BY <1>1, <1>4, <1>5, <1>6 DEF OtherHandles
-----------------------------------------------------------------------------
(* The whole exchange: what both ends hold, and what is under way.         *)
BodyInv == AskedInv /\ ServedInv /\ OtherInv /\ NetInv

LEMMA InitBody ==
  ASSUME Init
  PROVE  BodyInv
<1>1. PICK s \in Scenarios : /\ InitClient(s.calls)
                             /\ InitServer({ConnOf[q] : q \in s.calls}, s.updates)
                             /\ InitNet(s.faults) /\ InitOther /\ peer = s.peer
  BY DEF Init
<1>2. NetInv
  BY <1>1, InitCarried DEF NetInv
<1>3. OtherInv
  BY <1>1 DEF InitOther, OtherInv, HasFields
<1>4. ServedInv
  <2>1. AllServed(sreq)
    BY <1>1, AbsentServed DEF InitServer, AllServed, IsArray
  <2>2. AllObserve(sobs)
    BY <1>1, NoObserverObserves DEF InitServer, AllObserve, IsArray
  <2> QED
    BY <1>1, <2>1, <2>2 DEF InitServer, ServedInv, Replies
<1>5. AskedInv
  <2>1. ASSUME NEW r \in Request PROVE Asked(peer, NewRequest, r)
    <3>1. NewRequest.state \notin {"DONE_CALLBACK", "DONE"}
            /\ [NewRequest EXCEPT !.state = NewRequest.state] = NewRequest
      BY DEF NewRequest
    <3> QED
      BY <3>1, FreshAsked
  <2> QED
    BY <1>1, <2>1 DEF InitClient, AskedInv, IsArray, Outgoing
<1> QED
  BY <1>2, <1>3, <1>4, <1>5 DEF BodyInv

LEMMA StepBody ==
  ASSUME BodyInv, [Next]_vars
  PROVE  BodyInv'
<1>0. peer' = peer
  BY DEF Next, Step, vars, InClient, InServer, InOther, Trouble, Undeliverable, ClientTimer, ServerTimer
<1>1. CASE InClient(ClientNext)
  <2>1. AskedInv' /\ NetInv'
    BY <1>0, <1>1, ClientAsked DEF InClient, BodyInv
  <2>2. ServedInv' /\ OtherInv'
    BY <1>0, <1>1 DEF InClient, BodyInv, ServedInv, OtherInv, Replies, serverVars
  <2> QED
    BY <2>1, <2>2 DEF BodyInv
<1>2. CASE InServer(ServerNext)
  <2>1. ServedInv' /\ NetInv'
    BY <1>0, <1>2, ServerServed DEF InServer, BodyInv
  <2>2. AskedInv' /\ OtherInv'
    BY <1>0, <1>2 DEF InServer, BodyInv, AskedInv, OtherInv, Outgoing, clientVars
  <2> QED
    BY <2>1, <2>2 DEF BodyInv
<1>3. CASE InOther(OtherNext)
  <2>1. OtherInv' /\ NetInv'
    BY <1>0, <1>3, OtherAnswers DEF InOther, BodyInv
  <2>2. AskedInv' /\ ServedInv'
    BY <1>0, <1>3 DEF InOther, BodyInv, AskedInv, ServedInv, Outgoing, Replies, clientVars,
                      serverVars
  <2> QED
    BY <2>1, <2>2 DEF BodyInv
<1>4. CASE Trouble
  <2>1. PICK to, m : m \in Arriving(to, Conn) /\ (Lose(m) \/ Delay(m) \/ Copy(m))
    BY <1>4 DEF Trouble, OnTimeFor
  <2>2. Good(peer, m)
    BY <2>1, ArrivingGood DEF BodyInv, NetInv
  <2>3. NetInv'
    BY <1>0, <2>1, <2>2, TroubleCarried DEF BodyInv, NetInv
  <2> QED
    BY <1>4, <1>0, <2>3 DEF Trouble, BodyInv, AskedInv, ServedInv, OtherInv, Outgoing, Replies,
                            clientVars, serverVars
<1>5. CASE Undeliverable
  <2>1. PICK to, conns, m : m \in Arriving(to, conns) /\ Arrives(m)
    BY <1>5 DEF Undeliverable
  <2>2. Good(peer, m)
    BY <2>1, ArrivingGood DEF BodyInv, NetInv
  <2>3. NetInv'
    BY <1>0, <2>1, <2>2, ArrivesCarried DEF BodyInv, NetInv
  <2> QED
    BY <1>5, <1>0, <2>3 DEF Undeliverable, BodyInv, AskedInv, ServedInv, OtherInv, Outgoing,
                            Replies, clientVars, serverVars
<1>6. ASSUME NEW r \in Request, ClientTimer(r) PROVE BodyInv'
  <2>1. AskedInv'
    BY <1>0, <1>6, TimeoutAsked DEF ClientTimer, InClient, BodyInv
  <2> QED
    BY <1>0, <1>6, <2>1 DEF ClientTimer, InClient, BodyInv, ServedInv, OtherInv, NetInv, Replies,
                            serverVars, netVars
<1>7. ASSUME NEW r \in Request, ServerTimer(r) PROVE BodyInv'
  <2>1. ServedInv'
    BY <1>0, <1>7, ServerTimerServed DEF ServerTimer, InServer, BodyInv
  <2> QED
    BY <1>0, <1>7, <2>1 DEF ServerTimer, InServer, BodyInv, AskedInv, OtherInv, NetInv, Outgoing,
                            clientVars, netVars
<1>8. CASE UNCHANGED vars
  BY <1>8 DEF vars, clientVars, serverVars, netVars, BodyInv, AskedInv, ServedInv, OtherInv,
              NetInv, Outgoing, Replies
<1> QED
  BY <1>1, <1>2, <1>3, <1>4, <1>5, <1>6, <1>7, <1>8 DEF Next, Step

(* Every step of either end and every fault of the network keeps the       *)
(* bodies in order: what the two ends have gathered are pieces of the      *)
(* whole that start at its beginning, and every message under way carries  *)
(* the piece that its Block option names (handle_data_for_request,         *)
(* parse_and_handle_response).                                             *)
THEOREM BodyInvariance == Spec => []BodyInv
<1>1. Init => BodyInv
  BY InitBody
<1>2. BodyInv /\ [Next]_vars => BodyInv'
  BY StepBody
<1> QED
  BY <1>1, <1>2, PTL DEF Spec

LEMMA ResponsesWhole ==
  ASSUME BodyInv
  PROVE  ResponseIntact
<1> SUFFICES ASSUME NEW r \in Request, Succeeded(r)
             PROVE  /\ Len(creq[r].resp.body) = Total(peer, r)
                    /\ \A i \in 1..Len(creq[r].resp.body) : creq[r].resp.body[i].at = i
  BY DEF ResponseIntact, Total
<1>1. Asked(peer, creq[r], r)
  BY DEF BodyInv, AskedInv
<1>2. Len(creq[r].resp.body) = Total(peer, r)
  BY <1>1 DEF Asked, Ended, Succeeded
<1>3. Piece(creq[r].resp.body, 0)
  BY <1>1 DEF Asked, Going
<1> QED
  BY <1>2, <1>3 DEF Piece

(* A client whose request has ended well has all units of the response in  *)
(* their places, with either server and for every body and block size      *)
(* (parse_and_handle_response).                                            *)
THEOREM ResponseIsIntact == Spec => []ResponseIntact
BY BodyInvariance, ResponsesWhole, PTL
-----------------------------------------------------------------------------
(***************************************************************************)
(* The lists of the server.                                                *)
(***************************************************************************)
LEMMA LeastNumber ==
  ASSUME NEW S \in SUBSET Nat, S # {}
  PROVE  \E x \in S : \A y \in S : x <= y
<1>1. PICK x \in S : \A y \in S : ~(<<y, x>> \in OpToRel(<, Nat))
  BY NatLessThanWellFounded, WFMin, Zenon
<1>2. ASSUME NEW y \in S PROVE x <= y
  <2>1. ~(y < x)
    BY <1>1 DEF OpToRel
  <2> QED
    BY <2>1
<1> QED
  BY <1>2

LEMMA GreatestNumber ==
  ASSUME NEW n \in Nat, NEW S \in SUBSET (1..n), S # {}
  PROVE  \E x \in S : \A y \in S : y <= x
<1> DEFINE B == {b \in 0..n : \A x \in S : x <= b}
<1>1. n \in B
  OBVIOUS
<1>2. B \in SUBSET Nat /\ B # {}
  BY <1>1
<1>3. PICK b \in B : \A c \in B : b <= c
  BY <1>2, LeastNumber
<1>4. b \in S
  <2>1. SUFFICES ASSUME b \notin S PROVE FALSE
    OBVIOUS
  <2>2. \A x \in S : x \in Nat /\ x >= 1 /\ x < b
    BY <2>1
  <2>3. b > 0
    <3>1. PICK x \in S : TRUE
      OBVIOUS
    <3> QED
      BY <2>2, <3>1
  <2>4. b - 1 \in B
    BY <2>2, <2>3
  <2> QED
    BY <1>3, <2>4
<1> QED
  BY <1>4

LEMMA RankType ==
  ASSUME NEW n \in Nat, NEW stays \in SUBSET (1..n), NEW i
  PROVE  /\ IsFiniteSet(stays) /\ Cardinality(stays) \in Nat /\ Cardinality(stays) <= n
         /\ IsFiniteSet({j \in stays : j <= i})
         /\ Rank(stays, i) \in Nat /\ Rank(stays, i) <= Cardinality(stays)
<1>1. IsFiniteSet(1..n) /\ Cardinality(1..n) = n
  BY FS_Interval
<1>2. IsFiniteSet(stays) /\ Cardinality(stays) <= n
  BY <1>1, FS_Subset
<1>3. {j \in stays : j <= i} \in SUBSET stays
  OBVIOUS
<1>4. IsFiniteSet({j \in stays : j <= i})
        /\ Cardinality({j \in stays : j <= i}) <= Cardinality(stays)
  BY <1>2, <1>3, FS_Subset
<1> QED
  BY <1>2, <1>4, FS_CardinalityType DEF Rank

(* A later place has a greater rank, and exactly one more than the place   *)
(* before it.                                                              *)
LEMMA RankGrows ==
  ASSUME NEW n \in Nat, NEW stays \in SUBSET (1..n), NEW i \in stays, NEW k \in stays, i < k
  PROVE  Rank(stays, i) < Rank(stays, k)
<1> DEFINE A == {j \in stays : j <= i}
           B == {j \in stays : j <= k}
<1>1. IsFiniteSet(A) /\ IsFiniteSet(B)
  BY RankType
<1>2. A \subseteq B /\ k \in B /\ k \notin A
  <2>1. i \in Nat /\ k \in Nat /\ \A j \in stays : j \in Nat
    OBVIOUS
  <2>2. \A j \in stays : j <= i => j <= k
    BY <2>1
  <2>3. k <= k /\ ~(k <= i)
    BY <2>1
  <2> QED
    BY <2>2, <2>3
<1>3. Cardinality(A) <= Cardinality(B) /\ A # B
  BY <1>1, <1>2, FS_Subset
<1>4. Cardinality(A) # Cardinality(B)
  BY <1>1, <1>2, <1>3, FS_Subset
<1>5. Cardinality(A) \in Nat /\ Cardinality(B) \in Nat
  BY <1>1, FS_CardinalityType
<1> QED
  BY <1>3, <1>4, <1>5 DEF Rank

LEMMA RankStep ==
  ASSUME NEW n \in Nat, NEW stays \in SUBSET (1..n), NEW i \in stays, Rank(stays, i) > 1
  PROVE  \E k \in stays : k < i /\ Rank(stays, k) = Rank(stays, i) - 1
<1> DEFINE A == {j \in stays : j < i}
           B == {j \in stays : j <= i}
<1>1. IsFiniteSet(A) /\ IsFiniteSet(B)
  <2>1. A \subseteq stays
    OBVIOUS
  <2> QED
    BY <2>1, RankType, FS_Subset
<1> i \in Nat /\ \A j \in stays : j \in Nat
  OBVIOUS
<1>2. B = A \cup {i} /\ i \notin A
  <2>1. \A j \in stays : j <= i <=> (j < i \/ j = i)
    OBVIOUS
  <2>2. ~(i < i)
    OBVIOUS
  <2> QED
    BY <2>1, <2>2
<1>3. Cardinality(B) = Cardinality(A) + 1 /\ Cardinality(A) \in Nat
  <2> HIDE DEF A, B
  <2> QED
    BY <1>1, <1>2, FS_AddElement, FS_CardinalityType
<1>4. A # {}
  <2>1. A = {} => Cardinality(A) = 0
    BY FS_EmptySet
  <2>2. Cardinality(B) > 1
    BY DEF Rank
  <2> QED
    BY <1>3, <2>1, <2>2
<1>5. PICK k \in A : \A y \in A : y <= k
  <2>1. A \in SUBSET (1..n)
    OBVIOUS
  <2> QED
    BY <1>4, <2>1, GreatestNumber
<1>6. {j \in stays : j <= k} = A
  <2>1. k \in stays /\ k \in Nat /\ k < i
    BY <1>5
  <2>2. \A j \in stays : j <= k => j < i
    BY <2>1
  <2>3. \A j \in stays : j < i => j <= k
    BY <1>5
  <2> QED
    BY <2>2, <2>3
<1>7. Rank(stays, k) = Cardinality(A) /\ Rank(stays, i) = Cardinality(B)
  BY <1>6 DEF Rank
<1>8. k \in stays /\ k < i
  BY <1>5
<1> QED
  <2> HIDE DEF A, B
  <2> QED
    BY <1>3, <1>7, <1>8

LEMMA RankReached ==
  ASSUME NEW n \in Nat, NEW stays \in SUBSET (1..n), NEW p \in 1..Cardinality(stays)
  PROVE  \E i \in stays : Rank(stays, i) = p
<1> DEFINE T == {i \in stays : Rank(stays, i) >= p}
<1>1. T # {}
  <2>1. Cardinality(stays) \in Nat /\ stays # {}
    <3>1. stays = {} => Cardinality(stays) = 0
      BY FS_EmptySet
    <3>2. Cardinality(stays) \in Nat
      BY RankType
    <3>3. p # 0
      BY <3>2
    <3>4. Cardinality(stays) # 0
      BY <3>2
    <3> QED
      BY <3>1, <3>2, <3>4
  <2>2. PICK k \in stays : \A y \in stays : y <= k
    BY <2>1, GreatestNumber
  <2>3. {j \in stays : j <= k} = stays
    BY <2>2
  <2>4. Rank(stays, k) = Cardinality(stays)
    BY <2>3 DEF Rank
  <2> QED
    BY <2>1, <2>4
<1>0. p \in Nat /\ p >= 1 /\ \A j \in stays : j \in Nat
  <2>1. Cardinality(stays) \in Nat
    BY RankType
  <2> QED
    BY <2>1
<1>2. T \in SUBSET Nat
  BY <1>0
<1>3. PICK i \in T : \A y \in T : i <= y
  BY <1>1, <1>2, LeastNumber
<1>4. Rank(stays, i) \in Nat /\ Rank(stays, i) >= p /\ i \in stays
  <2>1. i \in stays /\ Rank(stays, i) >= p
    BY <1>3
  <2> QED
    BY <2>1, RankType
<1>5. ~(Rank(stays, i) > p)
  <2>1. SUFFICES ASSUME Rank(stays, i) > p PROVE FALSE
    OBVIOUS
  <2>2. i \in stays /\ Rank(stays, i) > 1
    BY <1>0, <1>4, <2>1
  <2>3. PICK k \in stays : k < i /\ Rank(stays, k) = Rank(stays, i) - 1
    BY <2>2, RankStep
  <2>4. k \in T
    BY <1>0, <1>4, <2>1, <2>3
  <2>5. i <= k /\ i \in Nat /\ k \in Nat
    BY <1>0, <1>3, <1>4, <2>4
  <2> QED
    BY <2>3, <2>5
<1> QED
  BY <1>0, <1>4, <1>5
(* What Without keeps, it keeps once and in order.                         *)
Listed(s, x) == \E n \in 1..Len(s) : s[n] = x

LEMMA WithoutKeeps ==
  ASSUME NEW S, NEW list \in Seq(S), NEW gone
  PROVE  /\ Without(list, gone) \in Seq(S \ gone)
         /\ Len(Without(list, gone)) <= Len(list)
         /\ \A i \in 1..Len(list) : list[i] \in gone =>
              Len(Without(list, gone)) < Len(list)
         /\ \A i \in 1..Len(list) : list[i] \notin gone => Listed(Without(list, gone), list[i])
<1> DEFINE N == Len(list)
           stays == {i \in 1..N : list[i] \notin gone}
           K == Cardinality(stays)
           At(n) == CHOOSE i \in stays : Rank(stays, i) = n
<1>0. N \in Nat /\ stays \in SUBSET (1..N) /\ \A i \in 1..N : list[i] \in S
  OBVIOUS
<1>1. Without(list, gone) = [n \in 1..K |-> list[At(n)]]
  BY DEF Without
<1>2. K \in Nat /\ K <= N /\ IsFiniteSet(stays)
  <2> HIDE DEF stays, N
  <2> QED
    BY <1>0, RankType
<1>3. \A n \in 1..K : At(n) \in stays /\ Rank(stays, At(n)) = n
  <2> HIDE DEF stays, N
  <2>1. \A n \in 1..K : \E i \in stays : Rank(stays, i) = n
    BY <1>0, RankReached
  <2> QED
    BY <2>1
<1>4. \A n \in 1..K : list[At(n)] \in S \ gone
  BY <1>0, <1>3
<1>5. Without(list, gone) \in Seq(S \ gone) /\ Len(Without(list, gone)) = K
  <2> HIDE DEF At, K
  <2> QED
    BY <1>1, <1>2, <1>4
<1>6. ASSUME NEW i \in 1..N, list[i] \in gone PROVE K < N
  <2>1. IsFiniteSet(1..N) /\ Cardinality(1..N) = N
    BY <1>0, FS_Interval
  <2>2. stays # 1..N
    BY <1>6
  <2>3. K # N
    <3> HIDE DEF stays, N
    <3> QED
      BY <1>0, <2>1, <2>2, FS_Subset
  <2> QED
    BY <1>0, <1>2, <2>3
<1>7. ASSUME NEW i \in 1..N, list[i] \notin gone
      PROVE  Listed(Without(list, gone), list[i])
  <2>1. i \in stays
    BY <1>7
  <2>2. Rank(stays, i) \in 1..K
    <3>1. i \in {j \in stays : j <= i}
      BY <2>1
    <3>2. Rank(stays, i) # 0
      <4>1. IsFiniteSet({j \in stays : j <= i})
        <5> HIDE DEF stays, N
        <5> QED
          BY <1>0, RankType
      <4> QED
        BY <3>1, <4>1, FS_EmptySet DEF Rank
    <3>3. Rank(stays, i) \in Nat /\ Rank(stays, i) <= K
      <4> HIDE DEF stays, N
      <4> QED
        BY <1>0, RankType
    <3> HIDE DEF K, stays
    <3> QED
      BY <1>2, <3>2, <3>3
  <2>3. At(Rank(stays, i)) = i
    <3> DEFINE k == At(Rank(stays, i))
    <3>1. k \in stays /\ Rank(stays, k) = Rank(stays, i)
      BY <1>3, <2>2
    <3>2. k \in Nat /\ i \in Nat
      BY <2>1, <3>1
    <3> HIDE DEF k, At
    <3>3. ~(k < i) /\ ~(i < k)
      <4> HIDE DEF stays, N
      <4>1. Rank(stays, k) \in Nat
        BY <1>0, RankType
      <4>2. k < i => Rank(stays, k) < Rank(stays, i)
        BY <1>0, <2>1, <3>1, RankGrows
      <4>3. i < k => Rank(stays, i) < Rank(stays, k)
        BY <1>0, <2>1, <3>1, RankGrows
      <4> QED
        BY <3>1, <4>1, <4>2, <4>3
    <3>4. k = i
      BY <3>2, <3>3
    <3> QED
      BY <3>4 DEF k
  <2>4. Without(list, gone)[Rank(stays, i)] = list[i]
    BY <1>1, <2>2, <2>3
  <2> HIDE DEF stays, K
  <2> QED
    BY <1>5, <2>2, <2>4 DEF Listed
<1> QED
  BY <1>2, <1>5, <1>6, <1>7

-----------------------------------------------------------------------------
(***************************************************************************)
(* The types.                                                              *)
(***************************************************************************)
Tries(q) == HasFields(q, {"state", "retrans"}) /\ q.retrans \in 0..MaxRetransmits

TriesInv == IsArray(creq) /\ \A r \in Request : Tries(creq[r])

LEMMA NewTries == Tries(NewRequest)
BY ClientAssumption DEF Tries, HasFields, NewRequest

LEMMA FinishTries ==
  ASSUME NEW q, NEW status, Tries(q)
  PROVE  Tries(Finish(q, status))
BY DEF Tries, HasFields, Finish

LEMMA StateTries ==
  ASSUME NEW q, NEW x, Tries(q)
  PROVE  Tries([q EXCEPT !.state = x])
BY DEF Tries, HasFields

LEMMA OneTries ==
  ASSUME TriesInv, NEW r, NEW q, r \in Request => Tries(q), creq' = [creq EXCEPT ![r] = q]
  PROVE  TriesInv'
BY DEF TriesInv, IsArray

LEMMA CallsTries ==
  ASSUME TriesInv, NEW r \in Request, New(r) \/ Send(r) \/ Cancel(r) \/ Deregister(r) \/ Free(r)
  PROVE  TriesInv'
<1> DEFINE q == creq[r]
<1>1. Tries(q) /\ 0 \in 0..MaxRetransmits
  BY ClientAssumption DEF TriesInv
<1>2. CASE New(r)
  <2>1. Tries([q EXCEPT !.state = "IDLE", !.mid = cmid + 1])
    BY <1>1 DEF Tries, HasFields
  <2>2. creq' = [creq EXCEPT ![r] = [q EXCEPT !.state = "IDLE", !.mid = cmid + 1]]
    BY <1>2 DEF New, TriesInv, IsArray
  <2> QED
    BY <2>1, <2>2, OneTries
<1>3. CASE Send(r)
  <2>1. creq' = [creq EXCEPT ![r] = [q EXCEPT !.state = "SEND_REQUEST"]]
    BY <1>3 DEF Send
  <2> QED
    BY <1>1, <2>1, StateTries, OneTries
<1>4. CASE Cancel(r)
  <2>1. creq' = [creq EXCEPT ![r] = Finish(q, "STOPPED")]
    BY <1>4 DEF Cancel
  <2> QED
    BY <1>1, <2>1, FinishTries, OneTries
<1>5. CASE Deregister(r)
  <2>1. \/ creq' = [creq EXCEPT ![r] = [q EXCEPT !.dereg = TRUE]]
        \/ creq' = [creq EXCEPT ![r] = [q EXCEPT !.dereg = TRUE, !.mid = cmid + 1, !.retrans = 0,
                                                 !.state = "SEND_REQUEST"]]
    BY <1>5 DEF Deregister, TriesInv, IsArray
  <2>2. Tries([q EXCEPT !.dereg = TRUE])
    BY <1>1 DEF Tries, HasFields
  <2>3. Tries([q EXCEPT !.dereg = TRUE, !.mid = cmid + 1, !.retrans = 0, !.state = "SEND_REQUEST"])
    BY <1>1 DEF Tries, HasFields
  <2> HIDE DEF q
  <2> QED
    BY <2>1, <2>2, <2>3, OneTries
<1>6. CASE Free(r)
  <2>1. creq' = [creq EXCEPT ![r] = [NewRequest EXCEPT !.state = "FREED"]]
    BY <1>6 DEF Free
  <2> QED
    BY <2>1, NewTries, StateTries, OneTries
<1> QED
  BY <1>2, <1>3, <1>4, <1>5, <1>6

LEMMA LoopTries ==
  ASSUME TriesInv, ClientLoop
  PROVE  TriesInv'
<1>1. CASE SendClientRst \/ SendClientAck
  BY <1>1 DEF SendClientRst, SendClientAck, TriesInv
<1>2. CASE SendRequest
  <2>1. PICK r \in Request :
          \/ \E x : creq' = [creq EXCEPT ![r] = [creq[r] EXCEPT !.state = x]]
          \/ creq' = [creq EXCEPT ![r] = Finish(creq[r], "DECODE_ERROR")]
    BY <1>2 DEF SendRequest
  <2>2. Tries(creq[r])
    BY DEF TriesInv
  <2> QED
    BY <2>1, <2>2, StateTries, FinishTries, OneTries
<1>3. CASE HandleCallback
  <2>1. PICK r \in Request :
          \/ creq' = [creq EXCEPT ![r].state = "WAIT_RESPONSE",
                                  ![r].status = "OBSERVE_NOTIFICATION"]
          \/ creq' = [creq EXCEPT ![r].state = "DONE"]
    BY <1>3 DEF HandleCallback
  <2>2. Tries(creq[r])
    BY DEF TriesInv
  <2>3. Tries([creq[r] EXCEPT !.state = "WAIT_RESPONSE", !.status = "OBSERVE_NOTIFICATION"])
    BY <2>2 DEF Tries, HasFields
  <2>4. \/ creq' = [creq EXCEPT ![r] = [creq[r] EXCEPT !.state = "WAIT_RESPONSE",
                                                      !.status = "OBSERVE_NOTIFICATION"]]
        \/ creq' = [creq EXCEPT ![r] = [creq[r] EXCEPT !.state = "DONE"]]
    BY <2>1 DEF TriesInv, IsArray
  <2> QED
    BY <2>2, <2>3, <2>4, StateTries, OneTries
<1> QED
  BY <1>1, <1>2, <1>3 DEF ClientLoop

(* A request is sent again only while a retransmission is left.            *)
LEMMA TimeoutTries ==
  ASSUME TriesInv, NEW r \in Request, HandleClientTimeout(r)
  PROVE  TriesInv'
<1>1. Tries(creq[r]) /\ MaxRetransmits \in Nat
  BY ClientAssumption DEF TriesInv
<1>2. creq[r].retrans < MaxRetransmits => Tries(Retried(creq[r]))
  <2>1. creq[r].retrans \in Nat
    BY <1>1 DEF Tries
  <2>2. creq[r].retrans < MaxRetransmits => creq[r].retrans + 1 \in 0..MaxRetransmits
    BY <1>1, <2>1
  <2> QED
    BY <1>1, <2>2 DEF Tries, HasFields, Retried
<1>3. \/ creq[r].retrans < MaxRetransmits /\ creq' = [creq EXCEPT ![r] = Retried(creq[r])]
      \/ creq' = [creq EXCEPT ![r] = Finish(creq[r], "TIMEOUT")]
  BY DEF HandleClientTimeout
<1> QED
  BY <1>1, <1>2, <1>3, FinishTries, OneTries

LEMMA OutcomeTries ==
  ASSUME NEW r, NEW m, Tries(creq[r])
  PROVE  Tries(Outcome(r, m).req)
<1> DEFINE open == Opened(creq[r], m)
           q == Stored(open, m)
           acks == HasBlock(m.b1) /\ IsSuccess(m.code)
           next == IF acks THEN Advanced(r, q, m.b1) ELSE q
           again == [q EXCEPT !.b1size = m.b1.szx, !.b1off = 0, !.restarted = TRUE]
           over == [next EXCEPT !.state = "DONE_CALLBACK"]
<1>1. Tries(open)
  BY DEF Tries, HasFields, Opened
<1>2. Tries(q)
  <2> HIDE DEF open
  <2> QED
    BY <1>1 DEF Tries, HasFields, Stored
<1>3. Tries(next)
  <2> HIDE DEF q
  <2> QED
    BY <1>2 DEF Tries, HasFields, Advanced
<1>4. Tries(again)
  <2> HIDE DEF q
  <2> QED
    BY <1>2 DEF Tries, HasFields
<1>5. Tries(over)
  <2> HIDE DEF next
  <2> QED
    BY <1>3, StateTries
<1>6. Outcome(r, m).req \in {Dropped(open), open, SendAgain(again), q, Dropped(q),
                             SendAgain(next), over}
  BY DEF Outcome
<1>7. ASSUME NEW p, Tries(p) PROVE Tries(SendAgain(p)) /\ Tries(Dropped(p))
  <2>1. 0 \in 0..MaxRetransmits
    BY ClientAssumption
  <2>2. Tries(SendAgain(p))
    BY <1>7, <2>1 DEF Tries, HasFields, SendAgain
  <2>3. Tries(Dropped(p))
    BY <1>7 DEF Tries, HasFields, Dropped
  <2> QED
    BY <2>2, <2>3
<1> HIDE DEF open, q, next, again, over
<1> QED
  BY <1>1, <1>2, <1>3, <1>4, <1>5, <1>6, <1>7

LEMMA PacketsTries ==
  ASSUME TriesInv, NEW m, ClientHandles(m)
  PROVE  TriesInv'
<1>1. CASE HandleAck(m)
  <2>1. \A r \in Request : Tries([creq[r] EXCEPT !.state = "WAIT_RESPONSE"])
    BY StateTries DEF TriesInv
  <2> QED
    BY <1>1, <2>1 DEF HandleAck, TriesInv, IsArray
<1>2. CASE HandleRst(m)
  <2>1. \A r \in Request : Tries(Finish(creq[r], "RESET"))
    BY FinishTries DEF TriesInv
  <2> QED
    BY <1>2, <2>1 DEF HandleRst, TriesInv, IsArray
<1>3. CASE Unexpected(m)
  BY <1>3 DEF Unexpected, TriesInv
<1>4. CASE HandleResponse(m)
  <2>1. creq' = [creq EXCEPT ![m.token] = Outcome(m.token, m).req]
    BY <1>4 DEF HandleResponse
  <2>2. m.token \in Request => Tries(Outcome(m.token, m).req)
    BY OutcomeTries DEF TriesInv
  <2> QED
    BY <2>1, <2>2, OneTries
<1> QED
  BY <1>1, <1>2, <1>3, <1>4 DEF ClientHandles

LEMMA ClientTries ==
  ASSUME TriesInv, ClientNext
  PROVE  TriesInv'
<1>1. CASE \E c \in Conn : RemoveClientConnection(c)
  <2>1. \A r \in Request : Tries(Finish(creq[r], "STOPPED"))
    BY FinishTries DEF TriesInv
  <2> QED
    BY <1>1, <2>1 DEF RemoveClientConnection, TriesInv, IsArray
<1> QED
  BY <1>1, CallsTries, LoopTries, PacketsTries DEF ClientNext

(* The slots hold one packet at most.                                      *)
Single(slot) == \E m : slot \subseteq {m}

ClientSlotsInv == Single(cack) /\ Single(crst)
ServerSlotsInv == Single(serr) /\ Single(sack) /\ Single(srst)

LEMMA SingleOnce ==
  ASSUME NEW slot, Single(slot)
  PROVE  Cardinality(slot) <= 1
<1>1. PICK m : slot \subseteq {m}
  BY DEF Single
<1>2. slot = {} \/ slot = {m}
  BY <1>1
<1>3. Cardinality({}) = 0 /\ Cardinality({m}) = 1
  BY FS_EmptySet, FS_Singleton
<1> QED
  BY <1>2, <1>3

LEMMA QueueSingle ==
  ASSUME NEW slot, NEW m, Single(slot)
  PROVE  Single(Queue(slot, m))
BY DEF Single, Queue

LEMMA ClientOneEach ==
  ASSUME ClientSlotsInv, ClientNext
  PROVE  ClientSlotsInv'
<1>1. Single({}) /\ \A m : Single({m})
  BY DEF Single
<1>2. /\ cack' = cack \/ cack' = {} \/ \E m : cack' = {m}
      /\ crst' = crst \/ crst' = {} \/ \E m : crst' = {m}
  <2>1. CASE \E r \in Request : New(r) \/ Send(r) \/ Cancel(r) \/ Deregister(r) \/ Free(r)
    BY <2>1 DEF New, Send, Cancel, Deregister, Free
  <2>2. CASE \E c \in Conn : RemoveClientConnection(c)
    BY <2>2 DEF RemoveClientConnection
  <2>3. CASE ClientLoop
    BY <2>3 DEF ClientLoop, SendClientRst, SendClientAck, SendRequest, HandleCallback
  <2>4. CASE \E m \in Arriving("client", cup) : ClientHandles(m)
    BY <2>4 DEF ClientHandles, HandleAck, HandleRst, Unexpected, HandleResponse
  <2> QED
    BY <2>1, <2>2, <2>3, <2>4 DEF ClientNext
<1> QED
  BY <1>1, <1>2 DEF ClientSlotsInv

LEMMA ErrorSingle ==
  ASSUME Single(serr), NEW m, NEW code, NEW mid, MakeError(m, code, mid)
  PROVE  Single(serr')
BY QueueSingle DEF MakeError

LEMMA DataSingle ==
  ASSUME ServerSlotsInv, NEW reqs, NEW m, NEW mid, Data(reqs, m, mid)
  PROVE  Single(serr') /\ Single(sack')
BY ErrorSingle, QueueSingle DEF Data, ServerSlotsInv

LEMMA ServerOneEach ==
  ASSUME ServerSlotsInv, ServerNext
  PROVE  ServerSlotsInv'
<1> USE DEF ServerSlotsInv
<1>1. Single({})
  BY DEF Single
<1>2. CASE \E r \in Request : \/ Respond(r) \/ FreeRequest(r) \/ AcceptObserve(r)
                              \/ RemoveObserver(r)
  BY <1>2 DEF Respond, FreeRequest, AcceptObserve, RemoveObserver, slots
<1>3. CASE \E c \in Conn : RemoveServerConnection(c)
  <2>1. PICK c : /\ serr' = {m \in serr : m.conn # c}
                 /\ sack' = {m \in sack : m.conn # c}
                 /\ srst' = {m \in srst : m.conn # c}
    BY <1>3 DEF RemoveServerConnection
  <2> QED
    BY <2>1 DEF Single
<1>4. CASE Notify
  BY <1>4 DEF Notify, slots
<1>5. CASE ServerLoop
  BY <1>1, <1>5 DEF ServerLoop, SendError, SendAck, SendRst, SendContinue, SendResponse,
                    SendNotification, slots
<1>6. ASSUME NEW m, ServerHandles(m) PROVE ServerSlotsInv'
  <2>1. CASE BadOption(m)
    BY <2>1, ErrorSingle, QueueSingle DEF BadOption
  <2>2. CASE Duplicate(m)
    BY <2>2, QueueSingle DEF Duplicate
  <2>3. CASE FirstMessage(m)
    BY <2>3, DataSingle, ErrorSingle DEF FirstMessage, NewServerRequest, NoRoom
  <2>4. CASE FurtherMessage(m)
    BY <2>4, DataSingle DEF FurtherMessage
  <2>5. CASE NextBlock(m)
    BY <2>5, ErrorSingle, QueueSingle DEF NextBlock
  <2>6. CASE Ignored(m) \/ Unmatched(m)
    BY <2>6 DEF Ignored, Unmatched, serverVars
  <2>7. CASE AckResponse(m) \/ AckNotification(m) \/ ResetResponse(m) \/ ResetNotification(m)
    BY <2>7 DEF AckResponse, AckNotification, ResetResponse, ResetNotification, slots
  <2> QED
    BY <1>6, <2>1, <2>2, <2>3, <2>4, <2>5, <2>6, <2>7 DEF ServerHandles
<1> QED
  BY <1>2, <1>3, <1>4, <1>5, <1>6 DEF ServerNext

(* The lists name what exists, and every observer that exists.             *)
RequestList ==
  /\ sorder \in Seq({r \in Request : sreq[r].state # "NONE"})
  /\ Len(sorder) <= MaxRequests

ObserverList ==
  /\ soorder \in Seq({r \in Request : sobs[r].on})
  /\ Len(soorder) <= MaxObservers
  /\ \A r \in Request : sobs[r].on => \E i \in 1..Len(soorder) : soorder[i] = r

LEMMA SetRequestsListed ==
  ASSUME RequestList, NEW new, SetRequests(new)
  PROVE  RequestList'
<1> DEFINE old == {r \in Request : sreq[r].state # "NONE"}
           gone == {r \in Request : Settled(new[r]).state = "NONE"}
<1>1. sorder' = Without(sorder, gone) /\ sreq' = [r \in Request |-> Settled(new[r])]
  BY DEF SetRequests
<1>2. sorder \in Seq(old) /\ Len(sorder) <= MaxRequests /\ MaxRequests \in Nat
  BY ServerAssumption DEF RequestList
<1>3. old \ gone \subseteq {r \in Request : sreq'[r].state # "NONE"}
  BY <1>1
<1> HIDE DEF old, gone
<1>4. Without(sorder, gone) \in Seq(old \ gone) /\ Len(Without(sorder, gone)) <= Len(sorder)
  BY <1>2, WithoutKeeps
<1>5. sorder' \in Seq({r \in Request : sreq'[r].state # "NONE"})
  BY <1>1, <1>3, <1>4, SeqGrows
<1>6. Len(sorder') <= MaxRequests
  <2>1. Len(Without(sorder, gone)) \in Nat /\ Len(sorder) \in Nat
    BY <1>2, <1>4
  <2> QED
    BY <1>1, <1>2, <1>4, <2>1
<1> QED
  BY <1>5, <1>6 DEF RequestList

LEMMA StatesListed ==
  ASSUME RequestList, sorder' = sorder,
         \A r \in Request : sreq[r].state # "NONE" => sreq'[r].state # "NONE"
  PROVE  RequestList'
<1>1. {r \in Request : sreq[r].state # "NONE"} \subseteq {r \in Request : sreq'[r].state # "NONE"}
  OBVIOUS
<1>2. sorder \in Seq({r \in Request : sreq'[r].state # "NONE"})
  BY <1>1, SeqGrows DEF RequestList
<1> QED
  BY <1>2 DEF RequestList

LEMMA ForgettingListed ==
  ASSUME RequestList, ServedInv, NEW gone, sreq' = Forgetting(sreq, gone), sorder' = sorder
  PROVE  RequestList'
<1>1. ASSUME NEW r \in Request PROVE sreq'[r].state = sreq[r].state
  <2>1. sreq[r] = [f \in DOMAIN sreq[r] |-> sreq[r][f]] /\ "state" \in DOMAIN sreq[r]
    BY DEF ServedInv, AllServed, Served, Holding, HasFields, ServedFields
  <2>2. [sreq[r] EXCEPT !.observer = FALSE].state = sreq[r].state
    BY <2>1
  <2> QED
    BY <2>2 DEF Forgetting
<1> QED
  BY <1>1, StatesListed

LEMMA OneListed ==
  ASSUME RequestList, ServedInv, NEW r, NEW q, sreq' = [sreq EXCEPT ![r] = q], sorder' = sorder,
         r \in Request => q.state = sreq[r].state
  PROVE  RequestList'
<1>1. \A s \in Request : sreq'[s].state = sreq[s].state
  BY DEF ServedInv, AllServed, IsArray
<1> QED
  BY <1>1, StatesListed

LEMMA FreeListed ==
  ASSUME ObserverList, NEW gone, FreeObservers(gone)
  PROVE  ObserverList'
<1> DEFINE old == {r \in Request : sobs[r].on}
<1>1. soorder' = Without(soorder, gone)
        /\ sobs' = [r \in Request |-> IF r \in gone THEN NoObserver ELSE sobs[r]]
  BY DEF FreeObservers
<1>2. soorder \in Seq(old) /\ Len(soorder) <= MaxObservers /\ MaxObservers \in Nat
  BY ServerAssumption DEF ObserverList
<1>3. old \ gone \subseteq {r \in Request : sobs'[r].on}
  BY <1>1
<1>4. \A r \in Request : sobs'[r].on => r \notin gone /\ sobs[r].on
  BY <1>1 DEF NoObserver
<1> HIDE DEF old
<1>5. /\ soorder' \in Seq(old \ gone) /\ Len(soorder') <= Len(soorder)
      /\ \A i \in 1..Len(soorder) : soorder[i] \notin gone =>
           \E n \in 1..Len(soorder') : soorder'[n] = soorder[i]
  <2> DEFINE kept == Without(soorder, gone)
  <2> HIDE DEF kept
  <2>1. /\ kept \in Seq(old \ gone) /\ Len(kept) <= Len(soorder)
        /\ \A i \in 1..Len(soorder) : soorder[i] \notin gone =>
             \E n \in 1..Len(kept) : kept[n] = soorder[i]
    <3>1. /\ Without(soorder, gone) \in Seq(old \ gone)
          /\ Len(Without(soorder, gone)) <= Len(soorder)
          /\ \A i \in 1..Len(soorder) : soorder[i] \notin gone =>
               Listed(Without(soorder, gone), soorder[i])
      BY <1>2, WithoutKeeps
    <3>2. kept = Without(soorder, gone)
      BY DEF kept
    <3> QED
      BY <3>1, <3>2 DEF Listed
  <2>2. soorder' = kept
    BY <1>1 DEF kept
  <2> QED
    BY <2>1, <2>2
<1>6. soorder' \in Seq({r \in Request : sobs'[r].on})
  BY <1>3, <1>5, SeqGrows
<1>7. Len(soorder') <= MaxObservers
  <2>1. Len(soorder') \in Nat /\ Len(soorder) \in Nat
    BY <1>2, <1>5
  <2> QED
    BY <1>2, <1>5, <2>1
<1>8. ASSUME NEW r \in Request, sobs'[r].on
      PROVE  \E n \in 1..Len(soorder') : soorder'[n] = r
  <2>1. r \notin gone /\ sobs[r].on
    BY <1>4, <1>8
  <2>2. PICK i \in 1..Len(soorder) : soorder[i] = r
    BY <2>1 DEF ObserverList
  <2> QED
    BY <1>5, <2>1, <2>2
<1> QED
  BY <1>6, <1>7, <1>8 DEF ObserverList

LEMMA SameObserversListed ==
  ASSUME ObserverList, soorder' = soorder,
         \A r \in Request : sobs'[r].on = sobs[r].on
  PROVE  ObserverList'
<1>1. {r \in Request : sobs'[r].on} = {r \in Request : sobs[r].on}
  OBVIOUS
<1> QED
  BY <1>1 DEF ObserverList

LEMMA OneObserverListed ==
  ASSUME ObserverList, ObsInv, NEW r, NEW o, sobs' = [sobs EXCEPT ![r] = o], soorder' = soorder,
         r \in Request => o.on = sobs[r].on
  PROVE  ObserverList'
<1>1. \A s \in Request : sobs'[s].on = sobs[s].on
  BY DEF ObsInv, Sound, IsArray
<1> QED
  BY <1>1, SameObserversListed

(* A registration that replaces none finds the list below its limit.       *)
LEMMA AcceptObserveListed ==
  ASSUME RequestList, ObserverList, ServedInv, ObsInv, NEW r \in Request, AcceptObserve(r)
  PROVE  RequestList' /\ ObserverList'
<1> DEFINE old == {s \in Request : sobs[s].on}
           kept == Without(soorder, {r})
           o == [NoObserver EXCEPT !.on = TRUE, !.conn = sreq[r].conn]
<1>1. RequestList'
  <2>1. \A s \in Request : sreq'[s].state = sreq[s].state
    <3>1. sreq' = [sreq EXCEPT ![r] = [sreq[r] EXCEPT !.observer = TRUE]]
      BY DEF AcceptObserve, ServedInv, AllServed, IsArray
    <3>2. sreq[r] = [f \in DOMAIN sreq[r] |-> sreq[r][f]] /\ "state" \in DOMAIN sreq[r]
      BY DEF ServedInv, AllServed, Served, Holding, HasFields, ServedFields
    <3>3. [sreq[r] EXCEPT !.observer = TRUE].state = sreq[r].state
      BY <3>2
    <3> QED
      BY <3>1, <3>3 DEF ServedInv, AllServed, IsArray
  <2> QED
    BY <2>1, StatesListed DEF AcceptObserve
<1>2. o.on = TRUE
  BY DEF NoObserver
<1>3. sobs' = [sobs EXCEPT ![r] = o] /\ soorder' = <<r>> \o kept
  BY DEF AcceptObserve
<1>4. sobs'[r].on = TRUE /\ \A s \in Request : s # r => sobs'[s] = sobs[s]
  <2> HIDE DEF o
  <2> QED
    BY <1>2, <1>3 DEF ObsInv, Sound, IsArray
<1>5. soorder \in Seq(old) /\ Len(soorder) \in Nat /\ Len(soorder) <= MaxObservers
        /\ MaxObservers \in Nat
  BY ServerAssumption DEF ObserverList
<1>6. /\ kept \in Seq(old \ {r}) /\ Len(kept) <= Len(soorder)
      /\ \A i \in 1..Len(soorder) : soorder[i] = r => Len(kept) < Len(soorder)
      /\ \A i \in 1..Len(soorder) : soorder[i] # r =>
           \E n \in 1..Len(kept) : kept[n] = soorder[i]
  <2> DEFINE gone == {r}
  <2>1. \A x : x \in gone <=> x = r
    OBVIOUS
  <2> HIDE DEF old, gone
  <2>2. /\ Without(soorder, gone) \in Seq(old \ gone)
        /\ Len(Without(soorder, gone)) <= Len(soorder)
        /\ \A i \in 1..Len(soorder) : soorder[i] \in gone =>
             Len(Without(soorder, gone)) < Len(soorder)
        /\ \A i \in 1..Len(soorder) : soorder[i] \notin gone =>
             Listed(Without(soorder, gone), soorder[i])
    BY <1>5, WithoutKeeps
  <2>3. kept = Without(soorder, gone)
    BY DEF gone
  <2> HIDE DEF kept
  <2>4. /\ kept \in Seq(old \ gone) /\ Len(kept) <= Len(soorder)
        /\ \A i \in 1..Len(soorder) : soorder[i] \in gone => Len(kept) < Len(soorder)
        /\ \A i \in 1..Len(soorder) : soorder[i] \notin gone =>
             \E n \in 1..Len(kept) : kept[n] = soorder[i]
    BY <2>2, <2>3 DEF Listed
  <2>5. old \ gone = old \ {r}
    BY DEF gone
  <2> QED
    BY <2>1, <2>4, <2>5
<1>7. Len(kept) \in Nat /\ Len(kept) < MaxObservers
  <2>1. Len(kept) \in Nat
    BY <1>6
  <2>2. CASE sobs[r].on
    <3>1. PICK i \in 1..Len(soorder) : soorder[i] = r
      BY <2>2 DEF ObserverList
    <3>2. Len(kept) < Len(soorder)
      BY <1>6, <3>1
    <3> QED
      BY <1>5, <2>1, <3>2
  <2>3. CASE Len(soorder) < MaxObservers
    BY <1>5, <1>6, <2>1, <2>3
  <2> QED
    BY <2>2, <2>3 DEF AcceptObserve
<1> DEFINE new == {s \in Request : sobs'[s].on}
<1>8. old \ {r} \subseteq new /\ r \in new
  BY <1>4
<1> HIDE DEF kept, old
<1>9. kept \in Seq(new)
  BY <1>6, <1>8, SeqGrows
<1>10. soorder' \in Seq(new) /\ Len(soorder') = Len(kept) + 1
         /\ soorder'[1] = r /\ \A n \in 1..Len(kept) : soorder'[n + 1] = kept[n]
  <2> HIDE DEF new
  <2> QED
    BY <1>3, <1>8, <1>9
<1>11. Len(soorder') <= MaxObservers
  BY <1>5, <1>7, <1>10
<1>12. ASSUME NEW s \in Request, sobs'[s].on
       PROVE  \E i \in 1..Len(soorder') : soorder'[i] = s
  <2>1. CASE s = r
    BY <1>7, <1>10, <2>1
  <2>2. CASE s # r
    <3>1. sobs[s].on
      BY <1>4, <1>12, <2>2
    <3>2. PICK i \in 1..Len(soorder) : soorder[i] = s
      BY <3>1 DEF ObserverList
    <3>3. PICK n \in 1..Len(kept) : kept[n] = s
      BY <1>6, <2>2, <3>2
    <3>4. n + 1 \in 1..Len(soorder')
      BY <1>7, <1>10
    <3> QED
      BY <1>10, <3>3, <3>4
  <2> QED
    BY <2>1, <2>2
<1> QED
  BY <1>1, <1>10, <1>11, <1>12 DEF ObserverList

LEMMA TakenState ==
  ASSUME NEW q, NEW m, HasFields(q, {"state"})
  PROVE  Taken(q, m).state \in {"REQUEST", "USER"}
<1> DEFINE more == HasBlock(m.b1) /\ m.b1.more
           chunk == [q EXCEPT !.b1 = m.b1, !.mid = m.mid, !.body = q.body \o m.pay,
                              !.continue = q.continue \/ more]
           only == [q EXCEPT !.body = IF m.pay = <<>> THEN q.body ELSE m.pay]
           new == IF HasBlock(m.b1) THEN chunk ELSE only
           state == IF more THEN "REQUEST" ELSE "USER"
           asked == IF HasBlock(m.b2) THEN m.b2 ELSE new.b2req
<1>1. HasFields(chunk, {"state"}) /\ HasFields(only, {"state"})
  <2> HIDE DEF more
  <2> QED
    BY DEF HasFields
<1>2. HasFields(new, {"state"})
  BY <1>1
<1>3. Taken(q, m) = [new EXCEPT !.b2req = asked, !.state = state]
  BY DEF Taken
<1>4. state \in {"REQUEST", "USER"}
  OBVIOUS
<1> HIDE DEF new, state, asked
<1>5. [new EXCEPT !.b2req = asked, !.state = state].state = state
  BY <1>2 DEF HasFields
<1> QED
  BY <1>3, <1>4, <1>5

(* A request that is made joins a list with room for it.                   *)
LEMMA DataListed ==
  ASSUME RequestList, NEW reqs, NEW m, NEW mid, Data(reqs, m, mid),
         m.token \in Request, IsArray(reqs), HasFields(reqs[m.token], {"state"}),
         \A r \in Request : r # m.token => reqs[r].state = sreq[r].state,
         sreq[m.token].state = "NONE" => Len(sorder) < MaxRequests
  PROVE  RequestList'
<1> DEFINE q == reqs[m.token]
           old == {r \in Request : sreq[r].state # "NONE"}
           new == {r \in Request : sreq'[r].state # "NONE"}
<1>1. CASE \E x : SetRequests(x)
  BY <1>1, SetRequestsListed
<1>2. CASE /\ sreq' = [reqs EXCEPT ![m.token] = Taken(q, m)]
           /\ sorder' = IF sreq[m.token].state = "NONE" THEN <<m.token>> \o sorder ELSE sorder
  <2>1. Taken(q, m).state \in {"REQUEST", "USER"}
    BY TakenState
  <2>2. sreq'[m.token].state # "NONE" /\ \A r \in Request : r # m.token => sreq'[r] = reqs[r]
    BY <1>2, <2>1 DEF IsArray
  <2>3. old \subseteq new /\ m.token \in new
    BY <2>2
  <2>4. sorder \in Seq(new) /\ Len(sorder) \in Nat /\ Len(sorder) <= MaxRequests
          /\ MaxRequests \in Nat
    <3>1. sorder \in Seq(old)
      BY DEF RequestList
    <3> HIDE DEF old, new
    <3> QED
      BY <2>3, <3>1, SeqGrows, ServerAssumption DEF RequestList
  <2> HIDE DEF new
  <2>5. CASE sreq[m.token].state = "NONE"
    <3>1. sorder' = <<m.token>> \o sorder
      BY <1>2, <2>5
    <3>2. sorder' \in Seq(new) /\ Len(sorder') = Len(sorder) + 1
      BY <2>3, <2>4, <3>1
    <3>3. Len(sorder') <= MaxRequests
      BY <2>4, <2>5, <3>2
    <3> QED
      BY <3>2, <3>3 DEF RequestList, new
  <2>6. CASE sreq[m.token].state # "NONE"
    <3>1. sorder' = sorder
      BY <1>2, <2>6
    <3> QED
      BY <2>4, <3>1 DEF RequestList, new
  <2> QED
    BY <2>5, <2>6
<1> QED
  BY <1>1, <1>2 DEF Data

LEMMA FirstMessageListed ==
  ASSUME RequestList, ObserverList, ServedInv, NEW m, m.token \in Request, FirstMessage(m)
  PROVE  RequestList' /\ ObserverList'
<1>1. CASE NewServerRequest(m)
  <2> DEFINE ends == {r \in {m.token} : m.obs = 1 /\ sobs[r].on /\ sobs[r].conn}
             q == [Absent EXCEPT !.state = "REQUEST", !.conn = TRUE, !.type = m.type,
                                 !.mid = m.mid, !.isObs = m.obs = 0, !.resp.mid = smid + 1]
             reqs == [Forgetting(sreq, ends) EXCEPT ![m.token] = q]
  <2>1. FreeObservers(ends) /\ Data(reqs, m, smid + 1) /\ Len(sorder) < MaxRequests
    BY <1>1 DEF NewServerRequest
  <2>2. HasFields(q, {"state"})
    BY DEF HasFields, Absent
  <2> HIDE DEF q, ends
  <2>3. AllServed(Forgetting(sreq, ends))
    BY ForgettingServed DEF ServedInv
  <2>4. ASSUME NEW r \in Request PROVE Forgetting(sreq, ends)[r].state = sreq[r].state
    <3>1. sreq[r] = [f \in DOMAIN sreq[r] |-> sreq[r][f]] /\ "state" \in DOMAIN sreq[r]
      BY DEF ServedInv, AllServed, Served, Holding, HasFields, ServedFields
    <3>2. [sreq[r] EXCEPT !.observer = FALSE].state = sreq[r].state
      BY <3>1
    <3> QED
      BY <3>2 DEF Forgetting
  <2>5. IsArray(reqs) /\ reqs[m.token] = q
          /\ \A r \in Request : r # m.token => reqs[r] = Forgetting(sreq, ends)[r]
    BY <2>3 DEF AllServed, IsArray
  <2> HIDE DEF reqs
  <2>6. RequestList'
    BY <2>1, <2>2, <2>4, <2>5, DataListed
  <2> QED
    BY <2>1, <2>6, FreeListed
<1>2. CASE NoRoom(m)
  BY <1>2 DEF NoRoom, requestVars, observerVars, RequestList, ObserverList
<1> QED
  BY <1>1, <1>2 DEF FirstMessage

LEMMA FurtherMessageListed ==
  ASSUME RequestList, ObserverList, ServedInv, NEW m, m.token \in Request, FurtherMessage(m)
  PROVE  RequestList' /\ ObserverList'
<1>1. Data(sreq, m, smid) /\ sreq[m.token].state = "REQUEST" /\ UNCHANGED <<sobs, soorder>>
  BY DEF FurtherMessage, observerVars
<1>2. IsArray(sreq) /\ HasFields(sreq[m.token], {"state"})
  BY DEF ServedInv, AllServed, Served, Holding, HasFields, ServedFields
<1>3. RequestList'
  BY <1>1, <1>2, DataListed
<1> QED
  BY <1>1, <1>3 DEF ObserverList

LEMMA PacketListed ==
  ASSUME RequestList, ObserverList, ServedInv, ObsInv, NEW m,
         m.type \in {"CON", "NON"} => m.token \in Request, ServerHandles(m)
  PROVE  RequestList' /\ ObserverList'
<1>1. CASE BadOption(m) \/ Ignored(m) \/ Unmatched(m)
  BY <1>1 DEF BadOption, Ignored, Unmatched, requestVars, observerVars, serverVars, RequestList,
              ObserverList
<1>2. CASE Duplicate(m)
  <2>1. m.token \in Request /\ UNCHANGED <<sorder, sobs, soorder>>
    BY <1>2 DEF Duplicate, Asks, observerVars
  <2>2. sreq' = sreq \/ sreq' = [sreq EXCEPT ![m.token] = [sreq[m.token] EXCEPT !.continue = TRUE]]
    BY <1>2, <2>1 DEF Duplicate, ServedInv, AllServed, IsArray
  <2>3. [sreq[m.token] EXCEPT !.continue = TRUE].state = sreq[m.token].state
    BY <2>1 DEF ServedInv, AllServed, Served, Holding, HasFields, ServedFields
  <2>4. RequestList'
    BY <2>1, <2>2, <2>3, OneListed DEF RequestList
  <2> QED
    BY <2>1, <2>4 DEF ObserverList
<1>3. CASE FirstMessage(m)
  BY <1>3, FirstMessageListed DEF FirstMessage, Asks
<1>4. CASE FurtherMessage(m)
  BY <1>4, FurtherMessageListed DEF FurtherMessage, Asks
<1>5. CASE NextBlock(m) \/ AckResponse(m) \/ ResetResponse(m)
  <2>1. \E x : SetRequests(x)
    BY <1>5 DEF NextBlock, AckResponse, ResetResponse, SetRequest
  <2>2. UNCHANGED <<sobs, soorder>>
    BY <1>5 DEF NextBlock, AckResponse, ResetResponse, observerVars
  <2> QED
    BY <2>1, <2>2, SetRequestsListed DEF ObserverList
<1>6. CASE AckNotification(m)
  <2>1. PICK r \in Request : sobs' = [sobs EXCEPT ![r] = Promoted(sobs[r])]
    BY <1>6 DEF AckNotification, MatchedObserver
  <2>2. Promoted(sobs[r]).on = sobs[r].on
    <3> DEFINE o == sobs[r]
               idle == [o EXCEPT !.sendNow = FALSE, !.waiting = FALSE]
               v == CHOOSE v \in o.pending : TRUE
               new == [idle EXCEPT !.seq = idle.seq + 1, !.val = v, !.mid = smid + 1,
                                   !.retrans = 0, !.sendNow = TRUE]
    <3>1. HasField(o, "on")
      BY DEF ObsInv, Sound
    <3> HIDE DEF v
    <3>2. HasField(idle, "on") /\ idle.on = o.on
      BY <3>1 DEF HasField
    <3>3. HasField(new, "on") /\ new.on = idle.on
      <4> HIDE DEF idle
      <4> QED
        BY <3>2 DEF HasField
    <3>4. Promoted(o) = idle \/ Promoted(o) = [new EXCEPT !.pending = {}]
      BY DEF Promoted, Current, v
    <3>5. [new EXCEPT !.pending = {}].on = new.on
      <4> HIDE DEF new
      <4> QED
        BY <3>3 DEF HasField
    <3> QED
      <4> HIDE DEF new, idle, o
      <4>1. Promoted(o).on = o.on
        BY <3>2, <3>3, <3>4, <3>5
      <4> QED
        BY <4>1 DEF o
  <2>3. UNCHANGED <<sreq, sorder, soorder>>
    BY <1>6 DEF AckNotification, requestVars
  <2> QED
    BY <2>1, <2>2, <2>3, OneObserverListed DEF RequestList
<1>7. CASE ResetNotification(m)
  <2>1. PICK r : FreeObservers({r}) /\ sreq' = Forgetting(sreq, {r}) /\ sorder' = sorder
    BY <1>7 DEF ResetNotification
  <2> QED
    BY <2>1, FreeListed, ForgettingListed
<1> QED
  BY <1>1, <1>2, <1>3, <1>4, <1>5, <1>6, <1>7 DEF ServerHandles

LEMMA ServerCallListed ==
  ASSUME RequestList, ObserverList, ServedInv, ObsInv,
         \/ \E r \in Request : Respond(r) \/ FreeRequest(r) \/ AcceptObserve(r) \/ RemoveObserver(r)
         \/ \E c \in Conn : RemoveServerConnection(c)
         \/ Notify
  PROVE  RequestList' /\ ObserverList'
<1>1. CASE \E r \in Request : Respond(r) \/ FreeRequest(r)
  <2>1. \E x : SetRequests(x)
    BY <1>1 DEF Respond, FreeRequest, SetRequest
  <2>2. UNCHANGED <<sobs, soorder>>
    BY <1>1 DEF Respond, FreeRequest, observerVars
  <2> QED
    BY <2>1, <2>2, SetRequestsListed DEF ObserverList
<1>2. CASE \E r \in Request : AcceptObserve(r)
  BY <1>2, AcceptObserveListed
<1>3. CASE \E r \in Request : RemoveObserver(r)
  <2>1. PICK r : FreeObservers({r}) /\ sreq' = Forgetting(sreq, {r}) /\ sorder' = sorder
    BY <1>3 DEF RemoveObserver
  <2> QED
    BY <2>1, FreeListed, ForgettingListed
<1>4. CASE \E c \in Conn : RemoveServerConnection(c)
  <2>1. PICK gone, x : FreeObservers(gone) /\ SetRequests(x)
    BY <1>4 DEF RemoveServerConnection
  <2> QED
    BY <2>1, FreeListed, SetRequestsListed
<1>5. CASE Notify
  <2>1. sobs' = [r \in Request |-> Notified(r)] /\ UNCHANGED <<sreq, sorder, soorder>>
    BY <1>5 DEF Notify, requestVars
  <2>2. ASSUME NEW r \in Request PROVE Notified(r).on = sobs[r].on
    <3> DEFINE o == sobs[r]
               mid == NextMid(r)
    <3>1. HasField(o, "on")
      BY DEF ObsInv, Sound
    <3> HIDE DEF mid
    <3>2. [o EXCEPT !.pending = {ver + 1}].on = o.on
      BY <3>1 DEF HasField
    <3>3. Current(o, ver + 1, mid).on = o.on
      BY <3>1 DEF HasField, Current
    <3>4. \/ Notified(r) = [o EXCEPT !.pending = {ver + 1}]
          \/ Notified(r) = Current(o, ver + 1, mid)
          \/ Notified(r) = o
      BY DEF Notified, mid
    <3> QED
      BY <3>2, <3>3, <3>4
  <2>3. ObserverList'
    BY <2>1, <2>2, SameObserversListed
  <2> QED
    BY <2>1, <2>3 DEF RequestList
<1> QED
  BY <1>1, <1>2, <1>3, <1>4, <1>5

LEMMA ServerLoopListed ==
  ASSUME RequestList, ObserverList, ServedInv, ObsInv, ServerLoop
  PROVE  RequestList' /\ ObserverList'
<1>1. CASE SendError \/ SendAck \/ SendRst
  BY <1>1 DEF SendError, SendAck, SendRst, requestVars, observerVars, RequestList, ObserverList
<1>2. CASE SendContinue
  <2>1. PICK r \in Request : sreq' = [sreq EXCEPT ![r].continue = FALSE]
    BY <1>2 DEF SendContinue, SendingRequests
  <2>2. sreq' = [sreq EXCEPT ![r] = [sreq[r] EXCEPT !.continue = FALSE]]
    BY <2>1 DEF ServedInv, AllServed, IsArray
  <2>3. [sreq[r] EXCEPT !.continue = FALSE].state = sreq[r].state
    BY DEF ServedInv, AllServed, Served, Holding, HasFields, ServedFields
  <2>4. UNCHANGED <<sorder, sobs, soorder>>
    BY <1>2 DEF SendContinue, observerVars
  <2>5. RequestList'
    BY <2>2, <2>3, <2>4, OneListed
  <2> QED
    BY <2>4, <2>5 DEF ObserverList
<1>3. CASE SendResponse
  <2>1. PICK r, x :
          sreq' = [sreq EXCEPT ![r].resp.waiting = TRUE, ![r].resp.sendNow = FALSE,
                               ![r].resp.retrans = @ + x]
    BY <1>3 DEF SendResponse, SendingRequests
  <2>2. \A s \in Request : sreq'[s].state = sreq[s].state
    BY <2>1 DEF ServedInv, AllServed, IsArray, Served, Holding, HasFields, ServedFields
  <2>3. UNCHANGED <<sorder, sobs, soorder>>
    BY <1>3 DEF SendResponse, observerVars
  <2>4. RequestList'
    BY <2>2, <2>3, StatesListed
  <2> QED
    BY <2>3, <2>4 DEF ObserverList
<1>4. CASE SendNotification
  <2>1. PICK r \in Request :
          sobs' = [sobs EXCEPT ![r].sendNow = FALSE, ![r].waiting = TRUE, ![r].retrans = @ + 1]
    BY <1>4 DEF SendNotification, SendingObservers
  <2> DEFINE o == [sobs[r] EXCEPT !.sendNow = FALSE, !.waiting = TRUE, !.retrans = @ + 1]
  <2>2. sobs' = [sobs EXCEPT ![r] = o]
    BY <2>1 DEF ObsInv, Sound, IsArray, HasField
  <2>3. o.on = sobs[r].on
    BY DEF ObsInv, Sound, HasField
  <2>4. UNCHANGED <<sreq, sorder, soorder>>
    BY <1>4 DEF SendNotification, requestVars
  <2> HIDE DEF o
  <2>5. ObserverList'
    BY <2>2, <2>3, <2>4, OneObserverListed
  <2> QED
    BY <2>4, <2>5 DEF RequestList
<1> QED
  BY <1>1, <1>2, <1>3, <1>4 DEF ServerLoop

LEMMA ServerTimerListed ==
  ASSUME RequestList, ObserverList, ServedInv, ObsInv, NEW r \in Request,
         ExpireRequest(r) \/ ExpireNotification(r)
  PROVE  RequestList' /\ ObserverList'
<1>1. CASE ExpireRequest(r)
  <2>1. (\E x : SetRequests(x)) /\ UNCHANGED <<sobs, soorder>>
    BY <1>1 DEF ExpireRequest, SetRequest, observerVars
  <2> QED
    BY <2>1, SetRequestsListed DEF ObserverList
<1>2. CASE ExpireNotification(r)
  <2>1. CASE FreeObservers({r}) /\ sreq' = Forgetting(sreq, {r})
    BY <1>2, <2>1, FreeListed, ForgettingListed DEF ExpireNotification
  <2>2. CASE /\ sobs' = [sobs EXCEPT ![r].waiting = FALSE, ![r].sendNow = TRUE]
             /\ UNCHANGED <<sreq, soorder>>
    <3> DEFINE o == [sobs[r] EXCEPT !.waiting = FALSE, !.sendNow = TRUE]
    <3>1. sobs' = [sobs EXCEPT ![r] = o]
      BY <2>2 DEF ObsInv, Sound, IsArray, HasField
    <3>2. o.on = sobs[r].on
      BY DEF ObsInv, Sound, HasField
    <3>3. sorder' = sorder
      BY <1>2 DEF ExpireNotification
    <3> HIDE DEF o
    <3>4. ObserverList'
      BY <2>2, <3>1, <3>2, OneObserverListed
    <3> QED
      BY <2>2, <3>3, <3>4 DEF RequestList
  <2> QED
    BY <1>2, <2>1, <2>2 DEF ExpireNotification
<1> QED
  BY <1>1, <1>2

LEMMA ServerListed ==
  ASSUME RequestList, ObserverList, ServedInv, ObsInv, NetInv, peer = "own", ServerNext
  PROVE  RequestList' /\ ObserverList'
<1>1. ASSUME NEW m \in Arriving("server", sup), ServerHandles(m)
      PROVE  RequestList' /\ ObserverList'
  <2>1. Good(peer, m) /\ m.to = "server"
    BY ArrivingGood DEF NetInv
  <2>2. m.type \in {"CON", "NON"} => m.token \in Request
    BY <2>1 DEF Good, Answer, Question
  <2> QED
    BY <1>1, <2>2, PacketListed
<1> QED
  BY <1>1, ServerCallListed, ServerLoopListed DEF ServerNext

TypeInv ==
  /\ BodyInv /\ ObsInv
  /\ TriesInv /\ ClientSlotsInv /\ ServerSlotsInv
  /\ cup \subseteq Conn /\ sup \subseteq Conn
  /\ RequestList /\ ObserverList

LEMMA InitTypes ==
  ASSUME Init
  PROVE  TypeInv
<1>1. PICK s \in Scenarios : /\ InitClient(s.calls)
                             /\ InitServer({ConnOf[q] : q \in s.calls}, s.updates)
  BY DEF Init
<1>2. TriesInv
  BY <1>1, NewTries DEF InitClient, TriesInv, IsArray
<1>3. ClientSlotsInv /\ ServerSlotsInv /\ cup \subseteq Conn /\ sup \subseteq Conn
  <2>1. ClientSlotsInv /\ ServerSlotsInv
    BY <1>1 DEF InitClient, InitServer, ClientSlotsInv, ServerSlotsInv, Single
  <2>2. s.calls \subseteq Request /\ \A r \in Request : ConnOf[r] \in Conn
    BY ScenariosAssumption, MessagesAssumption
  <2>3. cup = {ConnOf[q] : q \in s.calls} /\ sup = {ConnOf[q] : q \in s.calls}
    BY <1>1 DEF InitClient, InitServer
  <2> QED
    BY <2>1, <2>2, <2>3
<1>4. <<>> \in Seq({r \in Request : sreq[r].state # "NONE"})
        /\ <<>> \in Seq({r \in Request : sobs[r].on}) /\ Len(<<>>) = 0
  OBVIOUS
<1>5. \A r \in Request : ~sobs[r].on
  BY <1>1 DEF InitServer, NoObserver
<1>6. RequestList /\ ObserverList
  BY <1>1, <1>4, <1>5, ServerAssumption DEF InitServer, RequestList, ObserverList
<1> QED
  BY <1>2, <1>3, <1>6, InitBody, InitSound DEF TypeInv

LEMMA StepTypes ==
  ASSUME TypeInv, [Next]_vars
  PROVE  TypeInv'
<1>1. BodyInv' /\ ObsInv'
  BY StepBody, NextSound DEF TypeInv
<1> DEFINE Client == TriesInv /\ ClientSlotsInv /\ cup \subseteq Conn
           Server == ServerSlotsInv /\ sup \subseteq Conn /\ RequestList /\ ObserverList
<1>2. Client /\ Server
  BY DEF TypeInv
<1>3. UNCHANGED clientVars => Client'
  BY <1>2 DEF clientVars, TriesInv, ClientSlotsInv
<1>4. UNCHANGED serverVars => Server'
  BY <1>2 DEF serverVars, ServerSlotsInv, RequestList, ObserverList
<1>5. Client' /\ Server'
  <2>1. CASE InClient(ClientNext)
    <3>1. ClientNext /\ UNCHANGED serverVars
      BY <2>1 DEF InClient
    <3>2. TriesInv' /\ ClientSlotsInv'
      BY <1>2, <3>1, ClientTries, ClientOneEach
    <3>3. cup' \subseteq Conn
      BY <1>2, <3>1 DEF ClientNext, New, Send, Cancel, Deregister, Free, RemoveClientConnection,
           ClientLoop, SendClientRst, SendClientAck, SendRequest, HandleCallback, ClientHandles,
           HandleAck, HandleRst, Unexpected, HandleResponse
    <3> QED
      BY <1>4, <3>1, <3>2, <3>3
  <2>2. CASE InServer(ServerNext)
    <3>1. ServerNext /\ UNCHANGED clientVars /\ peer = "own"
      BY <2>2 DEF InServer
    <3>2. ServerSlotsInv'
      BY <1>2, <3>1, ServerOneEach
    <3>3. RequestList' /\ ObserverList'
      BY <3>1, ServerListed DEF TypeInv, BodyInv
    <3>4. sup' \subseteq Conn
      <4>1. sup' = sup \/ \E c : sup' = sup \ {c}
        BY <3>1 DEF ServerNext, Respond, FreeRequest, AcceptObserve, RemoveObserver, Notify,
             RemoveServerConnection, ServerLoop, SendError, SendAck, SendRst, SendContinue,
             SendResponse, SendNotification, ServerHandles, BadOption, Duplicate, FirstMessage,
             FurtherMessage, NextBlock, Ignored, AckResponse, AckNotification, ResetResponse,
             ResetNotification, Unmatched, serverVars
      <4> QED
        BY <1>2, <4>1
    <3> QED
      BY <1>3, <3>1, <3>2, <3>3, <3>4
  <2>3. CASE InOther(OtherNext) \/ Trouble \/ Undeliverable
    BY <1>3, <1>4, <2>3 DEF InOther, Trouble, Undeliverable
  <2>4. ASSUME NEW r \in Request, ClientTimer(r) PROVE Client' /\ Server'
    <3>1. HandleClientTimeout(r) /\ UNCHANGED serverVars
      BY <2>4 DEF ClientTimer, InClient
    <3>2. UNCHANGED <<cack, crst, cup>>
      BY <3>1 DEF HandleClientTimeout
    <3> QED
      BY <1>2, <1>4, <3>1, <3>2, TimeoutTries DEF ClientSlotsInv
  <2>5. ASSUME NEW r \in Request, ServerTimer(r) PROVE Client' /\ Server'
    <3>1. (ExpireRequest(r) \/ ExpireNotification(r)) /\ UNCHANGED clientVars
      BY <2>5 DEF ServerTimer, InServer
    <3>2. UNCHANGED <<serr, sack, srst, sup>>
      BY <3>1 DEF ExpireRequest, ExpireNotification, slots
    <3>3. RequestList' /\ ObserverList'
      BY <3>1, ServerTimerListed DEF TypeInv, BodyInv
    <3> QED
      BY <1>2, <1>3, <3>1, <3>2, <3>3 DEF ServerSlotsInv
  <2>6. CASE UNCHANGED vars
    BY <1>3, <1>4, <2>6 DEF vars
  <2> QED
    BY <2>1, <2>2, <2>3, <2>4, <2>5, <2>6 DEF Next, Step
<1> QED
  BY <1>1, <1>5 DEF TypeInv

(* No limit is passed and no list names what is gone: a request is sent    *)
(* again while a retransmission is left, a registration that replaces      *)
(* none and a new request find room, and the slots keep one packet each    *)
(* (handle_timeout, accept_observe, insert_request_into_list,              *)
(* request_free, observer_free).                                           *)
THEOREM TypesHold == Spec => []TypeOK
<1>1. Init => TypeInv
  BY InitTypes
<1>2. TypeInv /\ [Next]_vars => TypeInv'
  BY StepTypes
<1>3. TypeInv => TypeOK
  BY SingleOnce DEF TypeInv, TriesInv, Tries, ClientSlotsInv, ServerSlotsInv, RequestList,
                    ObserverList, TypeOK
<1> QED
  BY <1>1, <1>2, <1>3, PTL DEF Spec
-----------------------------------------------------------------------------
(***************************************************************************)
(* What is under way, as a set.                                            *)
(***************************************************************************)
On(s) == {s[i] : i \in 1..Len(s)}

UnderWay == late \cup UNION {On(net[l]) : l \in Link}

LEMMA AppendOn ==
  ASSUME NEW S, NEW s \in Seq(S), NEW e
  PROVE  On(Append(s, e)) \subseteq On(s) \cup {e}
<1>1. Len(Append(s, e)) = Len(s) + 1 /\ Len(s) \in Nat
  OBVIOUS
<1>2. ASSUME NEW i \in 1..Len(Append(s, e))
      PROVE  Append(s, e)[i] = e \/ (i \in 1..Len(s) /\ Append(s, e)[i] = s[i])
  <2>1. i \in 1..Len(s) \/ i = Len(s) + 1
    BY <1>1
  <2> QED
    BY <2>1
<1> QED
  BY <1>2 DEF On

LEMMA TailOn ==
  ASSUME NEW S, NEW s \in Seq(S), s # <<>>
  PROVE  On(Tail(s)) \subseteq On(s)
<1>1. \A i \in 1..Len(Tail(s)) : Tail(s)[i] = s[i + 1] /\ i + 1 \in 1..Len(s)
  OBVIOUS
<1> QED
  BY <1>1 DEF On

LEMMA ArrivingUnder ==
  ASSUME NEW p, Carried(p, net, late), NEW to, NEW conns, NEW m \in Arriving(to, conns)
  PROVE  m \in UnderWay
<1>1. CASE \E c \in conns : <<c, to>> \in Link /\ net[<<c, to>>] # <<>> /\ m = Head(net[<<c, to>>])
  <2>1. PICK l \in Link : net[l] # <<>> /\ m = Head(net[l])
    BY <1>1
  <2>2. PICK S : net \in [Link -> Seq(S)]
    BY DEF Carried
  <2>3. 1 \in 1..Len(net[l]) /\ m = net[l][1]
    BY <2>1, <2>2
  <2> QED
    BY <2>3 DEF UnderWay, On
<1>2. CASE m \in late
  BY <1>2 DEF UnderWay
<1> QED
  BY <1>1, <1>2 DEF Arriving

LEMMA SendsUnder ==
  ASSUME NEW p, Carried(p, net, late), NEW m, Sends(m)
  PROVE  UnderWay' \subseteq UnderWay \cup {m}
<1>1. PICK S : net \in [Link -> Seq(S)]
  BY DEF Carried
<1>2. net' = [net EXCEPT ![LinkOf(m)] = Append(net[LinkOf(m)], m)] /\ late' = late
  BY DEF Sends
<1>3. ASSUME NEW l \in Link PROVE On(net'[l]) \subseteq On(net[l]) \cup {m}
  <2>1. On(Append(net[l], m)) \subseteq On(net[l]) \cup {m}
    BY <1>1, AppendOn
  <2>2. net'[l] = net[l] \/ net'[l] = Append(net[l], m)
    BY <1>1, <1>2
  <2> QED
    BY <2>1, <2>2
<1> QED
  BY <1>2, <1>3 DEF UnderWay

LEMMA TakingUnder ==
  ASSUME NEW p, Carried(p, net, late), NEW m, OnTime(m), Taking(m), NEW l \in Link
  PROVE  On(net'[l]) \subseteq On(net[l])
<1>1. PICK S : net \in [Link -> Seq(S)]
  BY DEF Carried
<1>2. net' = [net EXCEPT ![LinkOf(m)] = Tail(net[LinkOf(m)])] /\ net[LinkOf(m)] # <<>>
  BY DEF OnTime, Taking
<1>3. net[l] # <<>> => On(Tail(net[l])) \subseteq On(net[l])
  BY <1>1, TailOn
<1>4. net'[l] = net[l] \/ (net[l] # <<>> /\ net'[l] = Tail(net[l]))
  BY <1>1, <1>2
<1> QED
  BY <1>3, <1>4

LEMMA ArrivesUnder ==
  ASSUME NEW p, Carried(p, net, late), NEW m, Arrives(m)
  PROVE  UnderWay' \subseteq UnderWay
<1>1. CASE OnTime(m) /\ Taking(m) /\ late' = late
  BY <1>1, TakingUnder DEF UnderWay
<1>2. CASE late' = late \ {m} /\ net' = net
  BY <1>2 DEF UnderWay
<1> QED
  BY <1>1, <1>2 DEF Arrives

LEMMA TroubleUnder ==
  ASSUME NEW p, Carried(p, net, late), NEW m \in UnderWay, Lose(m) \/ Delay(m) \/ Copy(m)
  PROVE  UnderWay' \subseteq UnderWay
<1>1. CASE OnTime(m) /\ Taking(m) /\ late' \subseteq late \cup {m}
  BY <1>1, TakingUnder DEF UnderWay
<1>2. CASE late' = late \cup {m} /\ net' = net
  BY <1>2 DEF UnderWay
<1> QED
  BY <1>1, <1>2 DEF Lose, Delay, Copy

LEMMA OtherSendsUnder ==
  ASSUME NEW p, Carried(p, net, late), NEW m, m \in late \/ OnTime(m), NEW reply,
         OtherSends(m, reply)
  PROVE  UnderWay' \subseteq UnderWay \cup {reply}
<1>1. PICK S : net \in [Link -> Seq(S)]
  BY DEF Carried
<1>2. late' \subseteq late
        /\ net' = [l \in Link |->
                     IF l = LinkOf(reply) THEN Append(net[l], reply)
                     ELSE IF m \notin late /\ l = LinkOf(m) THEN Tail(net[l]) ELSE net[l]]
  BY DEF OtherSends
<1>3. ASSUME NEW l \in Link PROVE On(net'[l]) \subseteq On(net[l]) \cup {reply}
  <2>1. On(Append(net[l], reply)) \subseteq On(net[l]) \cup {reply}
    BY <1>1, AppendOn
  <2>2. net[l] # <<>> => On(Tail(net[l])) \subseteq On(net[l])
    BY <1>1, TailOn
  <2>3. \/ net'[l] = net[l] \/ net'[l] = Append(net[l], reply)
        \/ net[l] # <<>> /\ net'[l] = Tail(net[l])
    BY <1>2 DEF OnTime
  <2> QED
    BY <2>1, <2>2, <2>3
<1> QED
  BY <1>2, <1>3 DEF UnderWay
-----------------------------------------------------------------------------
(***************************************************************************)
(* Requests to the other server.  The sizes of chunks only get smaller,    *)
(* and every place a chunk begins at is a multiple of the size in use.     *)
(***************************************************************************)
Small(r) == BodyLen[r] <= Size(ClientSzx)

Open == Unfinished \cup {"NEW"}

SizingFields == {"state", "b1off", "b1size", "b2", "resp"}

InStep(off, szx, r) ==
  /\ off \in Nat /\ szx \in 0..ClientSzx
  /\ Small(r) => szx = ClientSzx
  /\ off < BodyLen[r] => \E k \in Nat : off = k * Size(szx)

Sizing(q, r) ==
  /\ HasFields(q, SizingFields) /\ HasFields(q.resp, {"obs"})
  /\ q.b2 = NoBlock /\ q.resp.obs = NoObserve
  /\ InStep(q.b1off, q.b1size, r)

(* An open request has a chunk to send, unless its body is empty.          *)
Chunking(q, r) == q.state \in Open /\ BodyLen[r] > 0 => q.b1off < BodyLen[r]

(* The messages to the other server and its replies.                       *)
SizedChunk(m) ==
  /\ m.token \in plan
  /\ IF HasBlock(m.b1)
       THEN /\ ~Small(m.token) /\ m.b1 \in Blocks
            /\ \E upto \in Offset(m.b1)..BodyLen[m.token] :
                 /\ m.pay = SubSeq(Whole(m.token), Offset(m.b1) + 1, upto)
                 /\ m.b1.more = FALSE => upto = BodyLen[m.token]
       ELSE Small(m.token) /\ m.b1 = NoBlock /\ m.pay = Whole(m.token)

SizedReply(m) ==
  /\ m.token \in plan /\ m.b2 = NoBlock /\ m.obs = NoObserve
  /\ m.b1 \in Blocks
  /\ HasBlock(m.b1) => ~Small(m.token)

Sized(m) ==
  /\ m.to = "server" /\ m.code # "EMPTY" => SizedChunk(m)
  /\ m.to = "client" => SizedReply(m)

Gathered ==
  /\ HasFields(other, {"body", "done", "refused", "replies"})
  /\ \/ other.body = <<>> /\ other.done = FALSE
     \/ \E r \in plan :
          /\ Prefix(other.body, r)
          /\ IF other.done THEN other.body = Whole(r) ELSE ~Small(r)

(* One request at a time is made of it.                                    *)
OneCall == plan \subseteq Request /\ \A r, s \in plan : r = s

ClientSized ==
  /\ IsArray(creq)
  /\ \A r \in Request : Sizing(creq[r], r) /\ Chunking(creq[r], r)
  /\ \A r \in Request : creq[r].state # "NEW" => r \in plan
  /\ \A m \in Outgoing : m.code = "EMPTY" /\ m.to = "server"

NetSized == \A m \in UnderWay : Sized(m)
OtherSized == Gathered /\ \A m \in other.replies : m.to = "client" /\ SizedReply(m)

SizeInv == peer = "other" => OneCall /\ ClientSized /\ NetSized /\ OtherSized

(* A request that keeps its place, its sizes and its response.             *)
Unmoved(q, n) ==
  /\ HasFields(n, SizingFields)
  /\ n.b2 = q.b2 /\ n.resp = q.resp /\ n.b1off = q.b1off /\ n.b1size = q.b1size
  /\ n.state \in Open => q.state \in Open

LEMMA UnmovedSizing ==
  ASSUME NEW r, NEW q, NEW n, Sizing(q, r), Chunking(q, r), Unmoved(q, n)
  PROVE  Sizing(n, r) /\ Chunking(n, r)
BY DEF Sizing, Chunking, Unmoved

LEMMA SameUnmoved ==
  ASSUME NEW r, NEW q, Sizing(q, r)
  PROVE  Unmoved(q, q)
BY DEF Sizing, Unmoved

LEMMA FinishUnmoved ==
  ASSUME NEW r, NEW q, Sizing(q, r), NEW status
  PROVE  Unmoved(q, Finish(q, status))
<1> DEFINE n == Finish(q, status)
<1>1. HasFields(n, SizingFields) /\ n.state = "DONE_CALLBACK" /\ n.b2 = q.b2 /\ n.resp = q.resp
        /\ n.b1off = q.b1off /\ n.b1size = q.b1size
  BY DEF Sizing, HasFields, SizingFields, Finish
<1> HIDE DEF n
<1>2. Unmoved(q, n)
  BY <1>1 DEF Unmoved, Open, Unfinished, Waiting
<1> QED
  BY <1>2 DEF n

LEMMA FreshSizing ==
  ASSUME NEW r \in Request, NEW state
  PROVE  /\ Sizing([NewRequest EXCEPT !.state = state], r)
         /\ Chunking([NewRequest EXCEPT !.state = state], r)
<1> DEFINE n == [NewRequest EXCEPT !.state = state]
<1>1. HasFields(n, SizingFields) /\ n.b2 = NoBlock /\ n.resp = NoResponse /\ n.b1off = 0
        /\ n.b1size = ClientSzx
  BY DEF HasFields, NewRequest, SizingFields
<1>2. HasFields(NoResponse, {"obs"}) /\ NoResponse.obs = NoObserve
  BY DEF HasFields, NoResponse
<1>3. 0 * Size(ClientSzx) = 0 /\ ClientSzx \in 0..ClientSzx /\ BodyLen[r] \in Nat
  BY ClientSize, ClientAssumption, Products, WholeShape
<1> HIDE DEF n
<1>4. InStep(0, ClientSzx, r)
  BY <1>3 DEF InStep
<1>5. Sizing(n, r) /\ Chunking(n, r)
  BY <1>1, <1>2, <1>3, <1>4 DEF Sizing, Chunking
<1> QED
  BY <1>5 DEF n

LEMMA OneSized ==
  ASSUME ClientSized, NEW r \in Request, NEW n, creq' = [creq EXCEPT ![r] = n],
         Sizing(n, r) /\ Chunking(n, r), creq[r].state # "NEW" \/ r \in plan,
         UNCHANGED <<cack, crst, plan>>
  PROVE  ClientSized'
<1>1. r \in plan
  BY DEF ClientSized
<1>2. creq'[r] = n /\ IsArray(creq') /\ \A s \in Request : s # r => creq'[s] = creq[s]
  BY DEF ClientSized, IsArray
<1>3. Outgoing' = Outgoing
  BY DEF Outgoing
<1>4. \A s \in Request : Sizing(creq'[s], s) /\ Chunking(creq'[s], s)
  BY <1>2 DEF ClientSized
<1>5. \A s \in Request : creq'[s].state # "NEW" => s \in plan'
  BY <1>1, <1>2 DEF ClientSized
<1> QED
  BY <1>2, <1>3, <1>4, <1>5 DEF ClientSized

LEMMA CallsSized ==
  ASSUME ClientSized, NEW r \in Request, New(r) \/ Send(r) \/ Cancel(r) \/ Deregister(r) \/ Free(r)
  PROVE  ClientSized'
<1> DEFINE q == creq[r]
<1>1. Sizing(q, r) /\ Chunking(q, r) /\ (q.state # "NEW" => r \in plan)
  BY DEF ClientSized
<1>2. UNCHANGED <<cack, crst, plan>>
  BY DEF New, Send, Cancel, Deregister, Free
<1>3. CASE New(r)
  <2> DEFINE n == [q EXCEPT !.state = "IDLE", !.mid = cmid + 1]
  <2>1. creq' = [creq EXCEPT ![r] = n] /\ r \in plan /\ q.state = "NEW"
    BY <1>3 DEF New, ClientSized, IsArray
  <2>2. Unmoved(q, n)
    BY <1>1, <2>1 DEF Unmoved, Sizing, HasFields, SizingFields, Open
  <2> HIDE DEF n
  <2> QED
    BY <1>1, <1>2, <2>1, <2>2, UnmovedSizing, OneSized
<1>4. CASE Send(r)
  <2> DEFINE n == [q EXCEPT !.state = "SEND_REQUEST"]
  <2>1. creq' = [creq EXCEPT ![r] = n] /\ q.state = "IDLE"
    BY <1>4 DEF Send
  <2>2. Unmoved(q, n)
    BY <1>1, <2>1 DEF Unmoved, Sizing, HasFields, SizingFields, Open, Unfinished
  <2> HIDE DEF n
  <2> QED
    BY <1>1, <1>2, <2>1, <2>2, UnmovedSizing, OneSized
<1>5. CASE Cancel(r)
  <2>1. creq' = [creq EXCEPT ![r] = Finish(q, "STOPPED")] /\ q.state # "NEW"
    BY <1>5 DEF Cancel, Waiting
  <2>2. Unmoved(q, Finish(q, "STOPPED"))
    BY <1>1, FinishUnmoved
  <2> QED
    BY <1>1, <1>2, <2>1, <2>2, UnmovedSizing, OneSized
<1>6. CASE Deregister(r)
  <2> DEFINE n == [q EXCEPT !.dereg = TRUE, !.mid = cmid + 1, !.retrans = 0,
                            !.state = "SEND_REQUEST"]
             d == [q EXCEPT !.dereg = TRUE]
  <2>1. q.state # "NEW" /\ \/ creq' = [creq EXCEPT ![r] = d]
                           \/ creq' = [creq EXCEPT ![r] = n] /\ q.state = "WAIT_RESPONSE"
    BY <1>6 DEF Deregister, Exists, ClientSized, IsArray
  <2>2. q.state = "WAIT_RESPONSE" => Unmoved(q, n)
    BY <1>1 DEF Unmoved, Sizing, HasFields, SizingFields, Open, Unfinished, Waiting
  <2>3. Unmoved(q, d)
    BY <1>1 DEF Unmoved, Sizing, HasFields, SizingFields
  <2> HIDE DEF n, d
  <2> QED
    BY <1>1, <1>2, <2>1, <2>2, <2>3, UnmovedSizing, OneSized
<1>7. CASE Free(r)
  <2>1. creq' = [creq EXCEPT ![r] = [NewRequest EXCEPT !.state = "FREED"]] /\ q.state # "NEW"
    BY <1>7 DEF Free
  <2> QED
    BY <1>2, <2>1, FreshSizing, OneSized
<1> QED
  BY <1>3, <1>4, <1>5, <1>6, <1>7

(* Many requests change.                                                   *)
LEMMA ManySized ==
  ASSUME ClientSized, IsArray(creq'), UNCHANGED <<cack, crst, plan>>,
         \A r \in Request : /\ Unmoved(creq[r], creq'[r])
                            /\ creq[r].state = "NEW" => creq'[r].state = "NEW"
  PROVE  ClientSized'
<1>1. \A r \in Request : Sizing(creq'[r], r) /\ Chunking(creq'[r], r)
  BY UnmovedSizing DEF ClientSized
<1>2. Outgoing' = Outgoing
  BY DEF Outgoing
<1> QED
  BY <1>1, <1>2 DEF ClientSized

LEMMA RemoveConnectionSized ==
  ASSUME ClientSized, NEW c, RemoveClientConnection(c)
  PROVE  ClientSized'
<1>1. \A r \in Request : Unmoved(creq[r], Finish(creq[r], "STOPPED")) /\ Unmoved(creq[r], creq[r])
  BY FinishUnmoved, SameUnmoved DEF ClientSized
<1>2. creq' = [r \in Request |->
                IF ConnOf[r] = c /\ creq[r].state \in Unfinished
                  THEN Finish(creq[r], "STOPPED") ELSE creq[r]]
  BY DEF RemoveClientConnection
<1>3. IsArray(creq') /\ UNCHANGED <<cack, crst, plan>>
  BY <1>2 DEF IsArray, RemoveClientConnection
<1>4. "NEW" \notin Unfinished
  BY DEF Unfinished, Waiting
<1> QED
  BY <1>1, <1>2, <1>3, <1>4, ManySized

LEMMA TimeoutSized ==
  ASSUME ClientSized, NEW r \in Request, HandleClientTimeout(r)
  PROVE  ClientSized'
<1> DEFINE q == creq[r]
           n == Retried(q)
<1>1. Sizing(q, r) /\ Chunking(q, r)
  BY DEF ClientSized
<1>2. q.state \in Waiting /\ UNCHANGED <<cack, crst, plan>>
  BY DEF HandleClientTimeout, NeedWait, Waiting
<1>3. creq' = [creq EXCEPT ![r] = n] \/ creq' = [creq EXCEPT ![r] = Finish(q, "TIMEOUT")]
  BY DEF HandleClientTimeout
<1>4. Unmoved(q, n)
  BY <1>1, <1>2 DEF Unmoved, Sizing, HasFields, SizingFields, Open, Unfinished, Retried
<1>5. Unmoved(q, Finish(q, "TIMEOUT"))
  BY <1>1, FinishUnmoved
<1>6. q.state # "NEW"
  BY <1>2 DEF Waiting
<1> HIDE DEF n
<1> QED
  BY <1>1, <1>2, <1>3, <1>4, <1>5, <1>6, UnmovedSizing, OneSized

(* The other server sends no Observe option: nothing is observed.          *)
LEMMA CallbackSized ==
  ASSUME ClientSized, HandleCallback
  PROVE  ClientSized'
<1>1. PICK r \in Request :
        /\ creq[r].state = "DONE_CALLBACK"
        /\ \/ Rearms(r)
           \/ creq' = [creq EXCEPT ![r].state = "DONE"]
  BY DEF HandleCallback, NextDue
<1> DEFINE q == creq[r]
           n == [q EXCEPT !.state = "DONE"]
<1>2. Sizing(q, r) /\ Chunking(q, r)
  BY DEF ClientSized
<1>3. creq' = [creq EXCEPT ![r] = n] /\ q.state = "DONE_CALLBACK"
  BY <1>1, <1>2 DEF Rearms, Sizing
<1>4. UNCHANGED <<cack, crst, plan>>
  BY DEF HandleCallback
<1>5. Unmoved(q, n)
  BY <1>2 DEF Unmoved, Sizing, HasFields, SizingFields, Open, Unfinished, Waiting
<1> HIDE DEF n
<1> QED
  BY <1>2, <1>3, <1>4, <1>5, UnmovedSizing, OneSized

LEMMA ResetsSized ==
  ASSUME ClientSized, NEW m, HandleAck(m) \/ HandleRst(m)
  PROVE  ClientSized'
<1> DEFINE n(r) == [creq[r] EXCEPT !.state = "WAIT_RESPONSE"]
<1>1. \A r \in Request : creq[r].state = "WAIT_ACK" => Unmoved(creq[r], n(r))
  BY DEF ClientSized, Unmoved, Sizing, HasFields, SizingFields, Open, Unfinished, Waiting
<1>2. \A r \in Request : Unmoved(creq[r], Finish(creq[r], "RESET")) /\ Unmoved(creq[r], creq[r])
  BY FinishUnmoved, SameUnmoved DEF ClientSized
<1>3. UNCHANGED <<cack, crst, plan>>
  BY DEF HandleAck, HandleRst
<1>4. CASE HandleAck(m)
  <2>1. creq' = [r \in Request |->
                  IF creq[r].state = "WAIT_ACK" /\ creq[r].mid = m.mid /\ ConnOf[r] = m.conn
                    THEN n(r) ELSE creq[r]]
    BY <1>4 DEF HandleAck
  <2> HIDE DEF n
  <2>2. IsArray(creq')
    BY <2>1 DEF IsArray
  <2> QED
    BY <1>1, <1>2, <1>3, <2>1, <2>2, ManySized
<1>5. CASE HandleRst(m)
  <2>1. creq' = [r \in Request |->
                  IF Resettable(r) /\ creq[r].mid = m.mid /\ ConnOf[r] = m.conn
                    THEN Finish(creq[r], "RESET") ELSE creq[r]]
    BY <1>5 DEF HandleRst
  <2>2. IsArray(creq')
    BY <2>1 DEF IsArray
  <2>3. \A r \in Request : Resettable(r) => creq[r].state # "NEW"
    BY DEF Resettable
  <2> QED
    BY <1>2, <1>3, <2>1, <2>2, <2>3, ManySized
<1> QED
  BY <1>4, <1>5

LEMMA UnexpectedSized ==
  ASSUME ClientSized, NEW m, Unexpected(m)
  PROVE  ClientSized'
<1>1. /\ UNCHANGED <<creq, plan>>
      /\ Outgoing' \subseteq Outgoing \cup {EmptyMessage("server", "RST", m.mid, m.conn)}
  BY DEF Unexpected, Outgoing
<1>2. EmptyMessage("server", "RST", m.mid, m.conn).code = "EMPTY"
        /\ EmptyMessage("server", "RST", m.mid, m.conn).to = "server"
  BY DEF EmptyMessage, Message
<1> QED
  BY <1>1, <1>2 DEF ClientSized

(* A smaller block size divides a larger one.                              *)
LEMMA SizeDivides ==
  ASSUME NEW a \in Szx, NEW b \in 0..a
  PROVE  \E d \in {1, 2, 4, 8, 16, 32, 64} : Size(a) = d * Size(b)
<1>1. /\ Size(0) = 1 /\ Size(1) = 2 /\ Size(2) = 4 /\ Size(3) = 8 /\ Size(4) = 16
      /\ Size(5) = 32 /\ Size(6) = 64
  BY DEF Size
<1>2. /\ b \in {0, 1, 2, 3, 4, 5, 6} /\ a \in {0, 1, 2, 3, 4, 5, 6} /\ b <= a
  BY DEF Szx
<1>3. CASE b = 0
  BY <1>1, <1>2, <1>3
<1>4. CASE b = 1
  BY <1>1, <1>2, <1>4
<1>5. CASE b = 2
  BY <1>1, <1>2, <1>5
<1>6. CASE b = 3
  BY <1>1, <1>2, <1>6
<1>7. CASE b = 4
  BY <1>1, <1>2, <1>7
<1>8. CASE b = 5
  BY <1>1, <1>2, <1>8
<1>9. CASE b = 6
  BY <1>1, <1>2, <1>9
<1> QED
  BY <1>2, <1>3, <1>4, <1>5, <1>6, <1>7, <1>8, <1>9

LEMMA SizeOrder ==
  ASSUME NEW a \in Szx, NEW b \in 0..a
  PROVE  b \in Szx /\ Size(b) <= Size(a)
<1>1. b \in Szx
  BY DEF Szx
<1>2. PICK d \in {1, 2, 4, 8, 16, 32, 64} : Size(a) = d * Size(b)
  BY SizeDivides
<1> DEFINE s == Size(b)
<1>3. s \in Nat
  BY <1>1, SizePositive
<1> HIDE DEF s
<1>4. s <= d * s
  BY <1>3
<1> QED
  BY <1>1, <1>2, <1>4 DEF s

(* A place in step with a size is in step with every smaller one.          *)
LEMMA Rescaled ==
  ASSUME NEW a \in Szx, NEW b \in 0..a, NEW k \in Nat
  PROVE  \E j \in Nat : k * Size(a) = j * Size(b)
<1>1. PICK d \in {1, 2, 4, 8, 16, 32, 64} : Size(a) = d * Size(b)
  BY SizeDivides
<1> DEFINE s == Size(b)
<1>2. s \in {1, 2, 4, 8, 16, 32, 64}
  BY SizeOrder, SizeValues
<1> HIDE DEF s
<1>3. k * (d * s) = (k * d) * s
  <2>1. CASE d = 1
    BY <1>2, <2>1
  <2>2. CASE d = 2
    BY <1>2, <2>2
  <2>3. CASE d = 4
    BY <1>2, <2>3
  <2>4. CASE d = 8
    BY <1>2, <2>4
  <2>5. CASE d = 16
    BY <1>2, <2>5
  <2>6. CASE d = 32
    BY <1>2, <2>6
  <2>7. CASE d = 64
    BY <1>2, <2>7
  <2> QED
    BY <2>1, <2>2, <2>3, <2>4, <2>5, <2>6, <2>7
<1>4. k * d \in Nat
  OBVIOUS
<1>5. k * Size(a) = (k * d) * s
  BY <1>1, <1>3 DEF s
<1> QED
  BY <1>4, <1>5 DEF s

LEMMA PacketSized ==
  ASSUME NEW r \in Request, Sizing(creq[r], r), Chunking(creq[r], r),
         creq[r].state = "SEND_REQUEST", r \in plan
  PROVE  Sized(RequestPacket(r))
<1> DEFINE q == creq[r]
           m == RequestPacket(r)
           size == Size(q.b1size)
           L == BodyLen[r]
           carries == q.b2.num <= 0 /\ q.b1off < L
           num == q.b1off \div size
<1>1. /\ m.to = "server" /\ m.token = r
      /\ m.b1 = IF carries /\ L > size
                  THEN [num |-> num, more |-> L - q.b1off > size, szx |-> q.b1size]
                  ELSE NoBlock
      /\ m.pay = IF carries THEN BlockOf(Whole(r), num, q.b1size) ELSE <<>>
  BY DEF RequestPacket, Message, Whole
<1> HIDE DEF m
<1>2. L \in Nat /\ Whole(r) \in Seq(Unit) /\ Len(Whole(r)) = L
  BY WholeShape
<1>3. /\ q.b2.num = -1 /\ q.b1off \in Nat /\ q.b1size \in 0..ClientSzx
      /\ (Small(r) => q.b1size = ClientSzx)
      /\ (q.b1off < L => \E k \in Nat : q.b1off = k * size)
      /\ (L > 0 => q.b1off < L)
  <2>1. q.state \in Open
    BY DEF Open, Unfinished
  <2> QED
    BY <2>1, NoBlockPlace DEF Sizing, InStep, Chunking
<1>4. q.b1size \in Szx /\ size <= Size(ClientSzx) /\ size \in Nat /\ size > 0
        /\ Size(ClientSzx) \in Nat
  BY <1>3, ClientSize, SizeOrder, SizePositive
<1>5. CASE L = 0
  <2>1. m.b1 = NoBlock /\ m.pay = <<>>
    BY <1>1, <1>3, <1>5
  <2>2. Whole(r) = <<>>
    BY <1>2, <1>5
  <2>3. Small(r)
    BY <1>4, <1>5 DEF Small
  <2> QED
    BY <1>1, <2>1, <2>2, <2>3, NoBlockPlace DEF Sized, SizedChunk, m
<1>6. CASE L > 0
  <2>1. carries
    BY <1>3, <1>6
  <2>2. PICK k \in Nat : q.b1off = k * size
    BY <1>3, <1>6
  <2>3. num = k
    BY <1>3, <1>4, <2>2, Division
  <2>4. m.pay = BlockOf(Whole(r), k, q.b1size)
    BY <1>1, <2>1, <2>3
  <2>5. m.b1 = IF L > size THEN [num |-> k, more |-> L - q.b1off > size, szx |-> q.b1size]
                           ELSE NoBlock
    BY <1>1, <2>1, <2>3
  <2>6. q.b1off < L
    BY <1>3, <1>6
  <2> HIDE DEF q, L, carries, num
  <2>7. PICK upto \in (k * size)..L :
          /\ m.pay = SubSeq(Whole(r), k * size + 1, upto)
          /\ k * size + size >= L => upto = L
    <3>1. k * size <= Len(Whole(r))
      BY <1>2, <1>3, <2>2, <2>6
    <3> QED
      BY <1>2, <1>4, <2>4, <3>1, BlockOfPart
  <2> DEFINE off == k * size
  <2>8. off \in Nat /\ off < L /\ (k > 0 => off >= size) /\ (k = 0 => off = 0)
    BY <1>4, <2>2, <2>6, Products
  <2>9. CASE L > size
    <3>1. ~Small(r)
      BY <1>2, <1>3, <1>4, <2>9 DEF Small, L
    <3>2. m.b1 = [num |-> k, more |-> L - q.b1off > size, szx |-> q.b1size]
      BY <2>5, <2>9
    <3>3. m.b1.num = k /\ m.b1.szx = q.b1size /\ m.b1.more = (L - off > size)
      BY <2>2, <3>2
    <3>4. HasBlock(m.b1) /\ Offset(m.b1) = off
      BY <3>3 DEF HasBlock, Offset
    <3>5. m.b1 \in Blocks
      BY <1>4, <3>2 DEF Blocks
    <3>6. m.b1.more = FALSE => upto = L
      <4>1. SUFFICES ASSUME m.b1.more = FALSE PROVE upto = L
        OBVIOUS
      <4>2. ~(L - off > size)
        BY <3>3, <4>1
      <4> HIDE DEF off, size
      <4>3. off + size >= L
        BY <1>2, <1>4, <2>8, <4>2
      <4> QED
        BY <2>7, <4>3 DEF off
    <3>7. SizedChunk(m)
      BY <1>1, <2>7, <3>1, <3>4, <3>5, <3>6 DEF SizedChunk, L
    <3> QED
      BY <1>1, <3>7 DEF Sized, m
  <2>10. CASE ~(L > size)
    <3>1. k = 0 /\ off = 0 /\ Small(r)
      <4> HIDE DEF off, size
      <4>1. k = 0
        BY <1>2, <1>4, <2>8, <2>10
      <4>2. L <= Size(ClientSzx)
        BY <1>2, <1>4, <2>10
      <4> QED
        BY <2>8, <4>1, <4>2 DEF Small, L
    <3>2. upto = L
      <4> HIDE DEF off, size
      <4>1. off + size >= L
        BY <1>2, <1>4, <2>10, <3>1
      <4> QED
        BY <2>7, <4>1 DEF off
    <3>3. m.pay = Whole(r)
      BY <2>7, <3>1, <3>2, WholeShape DEF L
    <3>4. m.b1 = NoBlock
      BY <2>5, <2>10
    <3>5. SizedChunk(m)
      BY <1>1, <3>1, <3>3, <3>4, NoBlockPlace DEF SizedChunk
    <3> QED
      BY <1>1, <3>5 DEF Sized, m
  <2> QED
    BY <2>9, <2>10
<1> QED
  BY <1>2, <1>5, <1>6
-----------------------------------------------------------------------------
(* A reply of the other server: no block of a response, no observation.    *)
LEMMA OpenedSized ==
  ASSUME NEW r, NEW q, Sizing(q, r), NEW m, m.b2 = NoBlock, m.obs = NoObserve
  PROVE  /\ Sizing(Opened(q, m), r)
         /\ Opened(q, m).b1off = q.b1off /\ Opened(q, m).b1size = q.b1size
         /\ Opened(q, m).state = q.state
<1> DEFINE further == Offset(m.b2) > 0
           keeps == q.resp.has /\ further
           resp == [has |-> TRUE, code |-> m.code,
                    body |-> IF keeps THEN q.resp.body ELSE <<>>,
                    obs |-> IF m.obs = NoObserve /\ keeps THEN q.resp.obs ELSE m.obs]
           b2 == IF q.resp.has /\ ~further THEN NoBlock ELSE q.b2
           o == [q EXCEPT !.resp = resp, !.b2 = b2]
<1>1. Opened(q, m) = o
  BY DEF Opened
<1>2. HasFields(resp, {"obs"}) /\ resp.obs = NoObserve
  BY DEF HasFields, Sizing
<1>3. b2 = NoBlock
  BY DEF Sizing
<1> HIDE DEF resp, b2, keeps, further
<1>4. /\ HasFields(o, SizingFields)
      /\ o.resp = resp /\ o.b2 = b2 /\ o.state = q.state
      /\ o.b1off = q.b1off /\ o.b1size = q.b1size
  BY DEF Sizing, HasFields, SizingFields
<1> HIDE DEF o
<1> QED
  BY <1>1, <1>2, <1>3, <1>4 DEF Sizing

LEMMA StoredSized ==
  ASSUME NEW r, NEW q, Sizing(q, r), NEW m, m.b2 = NoBlock
  PROVE  /\ Sizing(Stored(q, m), r)
         /\ Stored(q, m).b1off = q.b1off /\ Stored(q, m).b1size = q.b1size
         /\ Stored(q, m).state = q.state
<1> DEFINE resp == [q.resp EXCEPT !.body = q.resp.body \o m.pay]
           n == [q EXCEPT !.resp = resp, !.b2 = q.b2]
<1>1. Stored(q, m) = n
  BY NoBlockPlace DEF Stored
<1>2. HasFields(resp, {"obs"}) /\ resp.obs = NoObserve
  BY DEF Sizing, HasFields
<1> HIDE DEF resp
<1>3. /\ HasFields(n, SizingFields)
      /\ n.resp = resp /\ n.b2 = q.b2 /\ n.state = q.state
      /\ n.b1off = q.b1off /\ n.b1size = q.b1size
  BY DEF Sizing, HasFields, SizingFields
<1> HIDE DEF n
<1> QED
  BY <1>1, <1>2, <1>3 DEF Sizing

LEMMA DroppedSized ==
  ASSUME NEW r, NEW q, Sizing(q, r)
  PROVE  /\ Sizing(Dropped(q), r)
         /\ Dropped(q).b1off = q.b1off /\ Dropped(q).b1size = q.b1size
         /\ Dropped(q).state = q.state
<1> DEFINE n == [q EXCEPT !.resp = NoResponse]
<1>1. HasFields(NoResponse, {"obs"}) /\ NoResponse.obs = NoObserve
  BY DEF HasFields, NoResponse
<1>2. /\ HasFields(n, SizingFields)
      /\ n.resp = NoResponse /\ n.b2 = q.b2 /\ n.state = q.state
      /\ n.b1off = q.b1off /\ n.b1size = q.b1size
  BY DEF Sizing, HasFields, SizingFields
<1>3. Dropped(q) = n
  BY DEF Dropped
<1> HIDE DEF n
<1> QED
  BY <1>1, <1>2, <1>3 DEF Sizing

LEMMA AgainSized ==
  ASSUME NEW r, NEW q, Sizing(q, r)
  PROVE  Sizing(SendAgain(q), r) /\ SendAgain(q).b1off = q.b1off
<1> DEFINE n == SendAgain(q)
<1>1. /\ HasFields(n, SizingFields) /\ n.resp = q.resp /\ n.b2 = q.b2
      /\ n.b1off = q.b1off /\ n.b1size = q.b1size
  BY DEF Sizing, HasFields, SizingFields, SendAgain
<1> HIDE DEF n
<1>2. Sizing(n, r)
  BY <1>1 DEF Sizing
<1> QED
  BY <1>1, <1>2 DEF n

(* The next chunk begins where this one ends, in step with the size that   *)
(* the other server asks for.                                              *)
LEMMA AdvancedSized ==
  ASSUME NEW r \in Request, NEW q, Sizing(q, r), NEW b, b.szx \in Szx, ~Small(r)
  PROVE  Sizing(Advanced(r, q, b), r)
<1> DEFINE size == Size(q.b1size)
           off == IF BodyLen[r] - q.b1off > size THEN q.b1off + size ELSE BodyLen[r]
           szx == IF Adopts(r, q, b.szx) THEN b.szx ELSE q.b1size
           n == [q EXCEPT !.b1off = off, !.b1size = szx]
<1>1. Advanced(r, q, b) = n
  BY DEF Advanced
<1>2. /\ q.b1off \in Nat /\ q.b1size \in 0..ClientSzx
      /\ (q.b1off < BodyLen[r] => \E k \in Nat : q.b1off = k * size)
  BY DEF Sizing, InStep
<1>3. BodyLen[r] \in Nat /\ ClientSzx \in Szx
  BY WholeShape, ClientSize
<1>4. q.b1size \in Szx
  BY <1>2, <1>3, SizeOrder
<1>5. size \in Nat /\ size > 0
  BY <1>4, SizePositive
<1>6. szx \in 0..q.b1size /\ szx \in 0..ClientSzx
  BY <1>2, <1>3, <1>4 DEF Adopts, Szx
<1>7. off \in Nat /\ (off < BodyLen[r] => \E k \in Nat : off = k * Size(szx))
  <2>1. CASE BodyLen[r] - q.b1off > size
    <3>1. off = q.b1off + size /\ off \in Nat
      BY <1>2, <1>5, <2>1
    <3>2. q.b1off < BodyLen[r]
      <4> HIDE DEF size
      <4> QED
        BY <1>2, <1>3, <1>5, <2>1
    <3>3. PICK k \in Nat : q.b1off = k * size
      BY <1>2, <3>2
    <3>4. (k + 1) * size = k * size + size /\ k + 1 \in Nat
      BY <1>5, Products
    <3>5. off = (k + 1) * Size(q.b1size)
      BY <3>1, <3>3, <3>4
    <3> HIDE DEF off, szx
    <3>6. \E j \in Nat : (k + 1) * Size(q.b1size) = j * Size(szx)
      BY <1>4, <1>6, <3>4, Rescaled
    <3> QED
      BY <3>1, <3>5, <3>6
  <2>2. CASE ~(BodyLen[r] - q.b1off > size)
    <3>1. off = BodyLen[r]
      BY <2>2
    <3> HIDE DEF off, szx
    <3> QED
      BY <1>3, <3>1
  <2> QED
    BY <2>1, <2>2
<1>8. InStep(off, szx, r)
  <2> HIDE DEF off, szx
  <2> QED
    BY <1>6, <1>7 DEF InStep
<1> HIDE DEF off, szx
<1>9. /\ HasFields(n, SizingFields) /\ n.resp = q.resp /\ n.b2 = q.b2
      /\ n.b1off = off /\ n.b1size = szx
  BY DEF Sizing, HasFields, SizingFields
<1> HIDE DEF n
<1> QED
  BY <1>1, <1>8, <1>9 DEF Sizing

LEMMA OutcomeSized ==
  ASSUME NEW r \in Request, NEW m, Sizing(creq[r], r), Chunking(creq[r], r),
         creq[r].state \in Waiting, SizedReply(m), m.token = r
  PROVE  Sizing(Outcome(r, m).req, r) /\ Chunking(Outcome(r, m).req, r)
<1> DEFINE open == Opened(creq[r], m)
           q == Stored(open, m)
           acks == HasBlock(m.b1) /\ IsSuccess(m.code)
           restarts == /\ HasBlock(m.b1) /\ m.code = "TOO_LARGE"
                       /\ ~q.restarted /\ Adopts(r, q, m.b1.szx)
           next == IF acks THEN Advanced(r, q, m.b1) ELSE q
           again == [q EXCEPT !.b1size = m.b1.szx, !.b1off = 0, !.restarted = TRUE]
           over == [next EXCEPT !.state = "DONE_CALLBACK"]
           out == Outcome(r, m).req
<1>1. m.b2.more = FALSE
  BY DEF SizedReply, NoBlock
<1>2. \/ out = Dropped(open)
      \/ out = open
      \/ restarts /\ out = SendAgain(again)
      \/ out = q
      \/ out = Dropped(q)
      \/ acks /\ next.b1off < BodyLen[r] /\ out = SendAgain(next)
      \/ out = over
  BY <1>1 DEF Outcome
<1>3. HasBlock(m.b1) => ~Small(r) /\ m.b1.szx \in Szx
  BY BlockTypes DEF SizedReply
<1>4. BodyLen[r] > 0 => creq[r].b1off < BodyLen[r]
  BY DEF Chunking, Open, Unfinished
<1>5. Sizing(open, r) /\ open.b1off = creq[r].b1off
  BY OpenedSized DEF SizedReply
<1> HIDE DEF open
<1>6. Sizing(q, r) /\ q.b1off = creq[r].b1off
  BY <1>5, StoredSized DEF SizedReply
<1>7. Sizing(Dropped(open), r) /\ Dropped(open).b1off = creq[r].b1off
  BY <1>5, DroppedSized
<1> HIDE DEF q
<1>8. Sizing(Dropped(q), r) /\ Dropped(q).b1off = creq[r].b1off
  BY <1>6, DroppedSized
<1>9. Sizing(next, r)
  BY <1>3, <1>6, AdvancedSized
<1>10. CASE out \in {Dropped(open), open, q, Dropped(q)}
  BY <1>4, <1>5, <1>6, <1>7, <1>8, <1>10 DEF Chunking
<1>11. CASE restarts /\ out = SendAgain(again)
  <2>1. /\ HasFields(again, SizingFields) /\ again.resp = q.resp /\ again.b2 = q.b2
        /\ again.b1off = 0 /\ again.b1size = m.b1.szx
    BY <1>6 DEF Sizing, HasFields, SizingFields
  <2>2. q.b1size \in 0..ClientSzx /\ m.b1.szx < q.b1size /\ ~Small(r) /\ m.b1.szx \in Szx
    BY <1>3, <1>6, <1>11 DEF Adopts, Sizing, InStep
  <2>3. m.b1.szx \in 0..ClientSzx /\ BodyLen[r] \in Nat
    <3> HIDE DEF again, out, over, next, restarts
    <3>1. m.b1.szx \in Nat /\ q.b1size \in Nat /\ q.b1size <= ClientSzx /\ ClientSzx \in Nat
      BY <2>2, ClientSize DEF Szx
    <3>2. BodyLen[r] \in Nat
      BY WholeShape
    <3> QED
      BY <2>2, <3>1, <3>2
  <2>4. 0 * Size(m.b1.szx) = 0
    BY <2>2, SizePositive
  <2>5. InStep(0, m.b1.szx, r)
    BY <2>2, <2>3, <2>4 DEF InStep
  <2> HIDE DEF again
  <2>6. Sizing(again, r)
    BY <1>6, <2>1, <2>5 DEF Sizing
  <2>7. Sizing(out, r) /\ out.b1off = 0
    BY <1>11, <2>1, <2>6, AgainSized
  <2> QED
    BY <2>3, <2>7 DEF Chunking
<1> HIDE DEF next
<1>12. CASE acks /\ next.b1off < BodyLen[r] /\ out = SendAgain(next)
  BY <1>9, <1>12, AgainSized DEF Chunking
<1>13. CASE out = over
  <2>1. /\ HasFields(over, SizingFields) /\ over.resp = next.resp /\ over.b2 = next.b2
        /\ over.b1off = next.b1off /\ over.b1size = next.b1size /\ over.state = "DONE_CALLBACK"
    BY <1>9 DEF Sizing, HasFields, SizingFields
  <2> HIDE DEF over
  <2>2. over.state \notin Open
    BY <2>1 DEF Open, Unfinished, Waiting
  <2> QED
    BY <1>9, <1>13, <2>1, <2>2 DEF Sizing, Chunking
<1> HIDE DEF out
<1> QED
  BY <1>2, <1>10, <1>11, <1>12, <1>13

LEMMA ResponseSized ==
  ASSUME OneCall, ClientSized, NEW m, SizedReply(m), HandleResponse(m)
  PROVE  ClientSized'
<1> DEFINE r == m.token
           n == Outcome(r, m).req
           ack == EmptyMessage("server", "ACK", m.mid, m.conn)
<1>1. r \in plan /\ r \in Request
  BY DEF SizedReply, OneCall
<1>2. creq' = [creq EXCEPT ![r] = n] /\ UNCHANGED <<crst, plan>> /\ creq[r].state \in Waiting
        /\ cack' \subseteq cack \cup {ack}
  BY DEF HandleResponse
<1>3. Sizing(n, r) /\ Chunking(n, r)
  BY <1>1, <1>2, OutcomeSized DEF ClientSized
<1>4. ack.code = "EMPTY" /\ ack.to = "server"
  BY DEF EmptyMessage, Message
<1> HIDE DEF n, ack
<1>5. IsArray(creq') /\ creq'[r] = n /\ \A s \in Request : s # r => creq'[s] = creq[s]
  BY <1>1, <1>2 DEF ClientSized, IsArray
<1>6. \A s \in Request : Sizing(creq'[s], s) /\ Chunking(creq'[s], s)
  BY <1>3, <1>5 DEF ClientSized
<1>7. \A s \in Request : creq'[s].state # "NEW" => s \in plan'
  BY <1>1, <1>2, <1>5 DEF ClientSized
<1>8. \A x \in Outgoing' : x.code = "EMPTY" /\ x.to = "server"
  BY <1>2, <1>4 DEF ClientSized, Outgoing
<1> QED
  BY <1>5, <1>6, <1>7, <1>8 DEF ClientSized

LEMMA SendRequestSized ==
  ASSUME OneCall, ClientSized, NetSized, NEW p, Carried(p, net, late), SendRequest
  PROVE  ClientSized' /\ NetSized'
<1>1. PICK r \in Request :
        /\ creq[r].state = "SEND_REQUEST"
        /\ \/ /\ Sends(RequestPacket(r))
              /\ creq' = [creq EXCEPT ![r].state = IF TypeOf[r] = "NON" THEN "WAIT_RESPONSE"
                                                                       ELSE "WAIT_ACK"]
           \/ /\ creq' = [creq EXCEPT ![r] = Finish(creq[r], "DECODE_ERROR")]
              /\ UNCHANGED netVars
  BY DEF SendRequest, NextDue
<1>2. UNCHANGED <<cack, crst, plan>>
  BY DEF SendRequest
<1> DEFINE q == creq[r]
           state == IF TypeOf[r] = "NON" THEN "WAIT_RESPONSE" ELSE "WAIT_ACK"
           n == [q EXCEPT !.state = state]
<1>3. Sizing(q, r) /\ Chunking(q, r) /\ q.state # "NEW" /\ r \in plan
  BY <1>1 DEF ClientSized
<1>4. CASE Sends(RequestPacket(r))
             /\ creq' = [creq EXCEPT ![r].state = IF TypeOf[r] = "NON" THEN "WAIT_RESPONSE"
                                                                      ELSE "WAIT_ACK"]
  <2>1. creq' = [creq EXCEPT ![r] = n]
    BY <1>4 DEF ClientSized, IsArray
  <2>2. Unmoved(q, n)
    BY <1>1, <1>3 DEF Unmoved, Sizing, HasFields, SizingFields, Open, Unfinished
  <2>3. UnderWay' \subseteq UnderWay \cup {RequestPacket(r)}
    BY <1>4, SendsUnder
  <2>4. Sized(RequestPacket(r))
    BY <1>1, <1>3, PacketSized
  <2>5. NetSized'
    <3>1. \A m \in UnderWay \cup {RequestPacket(r)} : Sized(m) /\ Sized(m)'
      BY <1>2, <2>4 DEF NetSized, Sized, SizedChunk, SizedReply
    <3> QED
      BY <2>3, <3>1 DEF NetSized
  <2> HIDE DEF n
  <2>6. ClientSized'
    BY <1>2, <1>3, <2>1, <2>2, UnmovedSizing, OneSized
  <2> QED
    BY <2>5, <2>6
<1>5. CASE creq' = [creq EXCEPT ![r] = Finish(creq[r], "DECODE_ERROR")] /\ UNCHANGED netVars
  <2>1. Unmoved(q, Finish(q, "DECODE_ERROR"))
    BY <1>3, FinishUnmoved
  <2>2. ClientSized'
    BY <1>2, <1>3, <1>5, <2>1, UnmovedSizing, OneSized
  <2>3. NetSized'
    BY <1>2, <1>5 DEF NetSized, UnderWay, netVars, Sized, SizedChunk, SizedReply
  <2> QED
    BY <2>2, <2>3
<1> QED
  BY <1>1, <1>4, <1>5
-----------------------------------------------------------------------------
(* The other server. *)

LEMMA ReplySized ==
  ASSUME NEW m, SizedChunk(m), NEW code, NEW szx \in Szx
  PROVE  OtherReply(m, code, szx).to = "client" /\ SizedReply(OtherReply(m, code, szx))
<1> DEFINE x == OtherReply(m, code, szx)
           b1 == IF HasBlock(m.b1) THEN [m.b1 EXCEPT !.szx = szx] ELSE NoBlock
<1>1. /\ x.to = "client" /\ x.token = m.token /\ x.b2 = NoBlock /\ x.obs = NoObserve
      /\ x.b1 = b1
  BY DEF OtherReply, Message
<1>2. b1 \in Blocks /\ (HasBlock(b1) => ~Small(m.token))
  <2>1. CASE HasBlock(m.b1)
    <3>1. m.b1 \in Blocks /\ ~Small(m.token) /\ m.b1 # NoBlock
      BY <2>1, NoBlockPlace DEF SizedChunk
    <3>2. m.b1 \in [num : Nat, more : BOOLEAN, szx : Szx]
      BY <3>1 DEF Blocks
    <3>3. b1 = [m.b1 EXCEPT !.szx = szx]
      BY <2>1
    <3>4. b1 \in [num : Nat, more : BOOLEAN, szx : Szx]
      BY <3>2, <3>3
    <3> QED
      BY <3>1, <3>4 DEF Blocks
  <2>2. CASE ~HasBlock(m.b1)
    BY <2>2, NoBlockPlace DEF Blocks
  <2> QED
    BY <2>1, <2>2
<1>3. m.token \in plan
  BY DEF SizedChunk
<1> HIDE DEF x, b1
<1>4. x.to = "client" /\ SizedReply(x)
  BY <1>1, <1>2, <1>3 DEF SizedReply
<1> QED
  BY <1>4 DEF x

(* What the other server has is the beginning of the body, and a chunk in  *)
(* its place continues it.                                                 *)
LEMMA ChunkGathered ==
  ASSUME OneCall, Gathered, other.done = FALSE, NEW m, SizedChunk(m),
         HasBlock(m.b1) => Offset(m.b1) = Len(other.body)
  PROVE  /\ m.b1.more \in BOOLEAN
         /\ Prefix(other.body \o m.pay, m.token)
         /\ IF ~m.b1.more THEN other.body \o m.pay = Whole(m.token) ELSE ~Small(m.token)
<1> DEFINE r == m.token
           body == other.body
           L == BodyLen[r]
<1>1. r \in plan /\ r \in Request
  BY DEF SizedChunk, OneCall
<1>2. L \in Nat /\ Whole(r) \in Seq(Unit) /\ Len(Whole(r)) = L
        /\ SubSeq(Whole(r), 1, L) = Whole(r)
  BY <1>1, WholeShape
<1>3. body = <<>> \/ (Prefix(body, r) /\ ~Small(r))
  <2>1. CASE \E s \in plan : Prefix(body, s) /\ ~Small(s)
    BY <1>1, <2>1 DEF OneCall
  <2> QED
    BY <2>1 DEF Gathered
<1>4. CASE HasBlock(m.b1)
  <2>1. PICK n \in 0..L : body = SubSeq(Whole(r), 1, n)
    <3>1. CASE body = <<>>
      <4>1. SubSeq(Whole(r), 1, 0) = <<>>
        BY <1>2
      <4> QED
        BY <1>2, <3>1, <4>1
    <3>2. CASE Prefix(body, r)
      BY <3>2 DEF Prefix
    <3> QED
      BY <1>3, <3>1, <3>2
  <2>2. Len(body) = n
    BY <1>1, <2>1, PrefixLength
  <2>3. /\ m.b1 \in Blocks /\ ~Small(r)
        /\ \E upto \in n..L : /\ m.pay = SubSeq(Whole(r), n + 1, upto)
                              /\ m.b1.more = FALSE => upto = L
    BY <1>4, <2>2 DEF SizedChunk
  <2>4. PICK upto \in n..L : /\ m.pay = SubSeq(Whole(r), n + 1, upto)
                             /\ m.b1.more = FALSE => upto = L
    BY <2>3
  <2>5. m.b1.more \in BOOLEAN
    BY <2>3, BlockTypes
  <2>6. body \o m.pay = SubSeq(Whole(r), 1, upto)
    <3>1. SubSeq(Whole(r), 1, n) \o SubSeq(Whole(r), n + 1, upto) = SubSeq(Whole(r), 1, upto)
      BY <1>2, JoinParts
    <3> QED
      BY <2>1, <2>4, <3>1
  <2>7. upto \in 0..L
    BY <1>2
  <2>8. Prefix(body \o m.pay, r)
    BY <2>6, <2>7 DEF Prefix
  <2> QED
    BY <1>2, <2>3, <2>4, <2>5, <2>6, <2>8
<1>5. CASE ~HasBlock(m.b1)
  <2>1. Small(r) /\ m.b1 = NoBlock /\ m.pay = Whole(r)
    BY <1>5 DEF SizedChunk
  <2>2. body = <<>>
    BY <1>3, <2>1
  <2>3. body \o m.pay = Whole(r)
    BY <1>2, <2>1, <2>2
  <2>4. L \in 0..L
    BY <1>2
  <2>5. Prefix(body \o m.pay, r)
    BY <1>2, <2>3, <2>4 DEF Prefix
  <2> QED
    BY <2>1, <2>3, <2>5, NoBlockPlace
<1> QED
  BY <1>4, <1>5

LEMMA TakesSized ==
  ASSUME OneCall, OtherSized, NEW m, SizedChunk(m), InPlace(m), UNCHANGED plan,
         OtherRefuses(m) \/ OtherTakes(m)
  PROVE  /\ OtherSized'
         /\ \E reply : SizedReply(reply) /\ reply.to = "client" /\ OtherSends(m, reply)
<1>1. HasFields(other, {"body", "done", "refused", "replies"})
  BY DEF OtherSized, Gathered
<1>2. other.done = FALSE
  BY DEF InPlace, OtherSized, Gathered
<1>3. CASE OtherRefuses(m)
  <2> DEFINE reply == OtherReply(m, "TOO_LARGE", m.b1.szx - 1)
  <2>1. OtherSends(m, reply) /\ other' = [other EXCEPT !.refused = TRUE, !.replies = @ \cup {reply}]
    BY <1>3 DEF OtherRefuses
  <2>2. m.b1.szx - 1 \in Szx
    <3>1. m.b1.szx \in Szx /\ m.b1.szx > 0
      BY <1>3, BlockTypes DEF OtherRefuses, SizedChunk
    <3> QED
      BY <3>1 DEF Szx
  <2>3. SizedReply(reply) /\ reply.to = "client"
    BY <2>2, ReplySized
  <2> HIDE DEF reply
  <2>4. /\ HasFields(other', {"body", "done", "refused", "replies"})
        /\ other'.body = other.body /\ other'.done = other.done
        /\ other'.replies = other.replies \cup {reply}
    BY <1>1, <2>1 DEF HasFields
  <2>5. Gathered'
    BY <2>4 DEF OtherSized, Gathered, Prefix, Whole, Small
  <2>6. \A x \in other'.replies : x.to = "client" /\ SizedReply(x)
    BY <2>3, <2>4 DEF OtherSized
  <2>7. OtherSized'
    BY <2>5, <2>6 DEF OtherSized, SizedReply
  <2> QED
    BY <2>1, <2>3, <2>7
<1>4. CASE OtherTakes(m)
  <2>1. /\ m.b1.more \in BOOLEAN
        /\ Prefix(other.body \o m.pay, m.token)
        /\ IF ~m.b1.more THEN other.body \o m.pay = Whole(m.token) ELSE ~Small(m.token)
    BY <1>2, ChunkGathered DEF InPlace, OtherSized
  <2>2. PICK code, szx : LET reply == OtherReply(m, code, szx)
                         IN  /\ szx \in Szx
                             /\ OtherSends(m, reply)
                             /\ other' = [other EXCEPT !.body = @ \o m.pay, !.done = ~m.b1.more,
                                                       !.replies = @ \cup {reply}]
    <3>1. m.b1.szx \in Szx
      BY BlockTypes, NoBlockPlace DEF SizedChunk, Szx
    <3>2. PICK szx \in 0..(IF m.b1.more THEN m.b1.szx ELSE 0) :
            LET reply == IF m.b1.more THEN OtherReply(m, "CONTINUE", szx)
                                      ELSE OtherReply(m, "OK", m.b1.szx)
            IN  /\ OtherSends(m, reply)
                /\ other' = [other EXCEPT !.body = @ \o m.pay, !.done = ~m.b1.more,
                                          !.replies = @ \cup {reply}]
      BY <1>4 DEF OtherTakes
    <3>3. CASE m.b1.more
      <4>1. szx \in Szx
        BY <3>1, <3>3 DEF Szx
      <4> QED
        BY <3>2, <3>3, <4>1
    <3>4. CASE ~m.b1.more
      BY <3>1, <3>2, <3>4
    <3> QED
      BY <3>3, <3>4
  <2> DEFINE reply == OtherReply(m, code, szx)
  <2>3. SizedReply(reply) /\ reply.to = "client"
    BY <2>2, ReplySized
  <2>4. OtherSends(m, reply)
    BY <2>2
  <2>5. other' = [other EXCEPT !.body = @ \o m.pay, !.done = ~m.b1.more,
                               !.replies = @ \cup {reply}]
    BY <2>2
  <2> HIDE DEF reply
  <2>6. /\ HasFields(other', {"body", "done", "refused", "replies"})
        /\ other'.body = other.body \o m.pay /\ other'.done = ~m.b1.more
        /\ other'.replies = other.replies \cup {reply}
    BY <1>1, <2>5 DEF HasFields
  <2>7. m.token \in plan'
    BY DEF SizedChunk
  <2>8. Gathered'
    <3>1. Prefix(other'.body, m.token)
            /\ IF other'.done THEN other'.body = Whole(m.token) ELSE ~Small(m.token)
      BY <2>1, <2>6
    <3> QED
      BY <2>6, <2>7, <3>1 DEF Gathered, Prefix, Whole, Small
  <2>9. \A x \in other'.replies : x.to = "client" /\ SizedReply(x)
    BY <2>3, <2>6 DEF OtherSized
  <2>10. OtherSized'
    BY <2>8, <2>9 DEF OtherSized, SizedReply
  <2> QED
    BY <2>3, <2>4, <2>10
<1> QED
  BY <1>3, <1>4

LEMMA NetKeeps ==
  ASSUME NetSized, UNCHANGED plan, UnderWay' \subseteq UnderWay
  PROVE  NetSized'
<1>1. \A m : Sized(m) => Sized(m)'
  BY DEF Sized, SizedChunk, SizedReply
<1> QED
  BY <1>1 DEF NetSized

LEMMA NetGrows ==
  ASSUME NetSized, UNCHANGED plan, NEW m, Sized(m), UnderWay' \subseteq UnderWay \cup {m}
  PROVE  NetSized'
<1>1. \A x : Sized(x) => Sized(x)'
  BY DEF Sized, SizedChunk, SizedReply
<1> QED
  BY <1>1 DEF NetSized

LEMMA OtherSizes ==
  ASSUME OneCall, NetSized, OtherSized, UNCHANGED plan, NEW p, Carried(p, net, late), OtherNext
  PROVE  OtherSized' /\ NetSized'
<1>1. PICK m \in Arriving("server", Conn) : OtherHandles(m)
  BY DEF OtherNext
<1>2. m.to = "server" /\ (m \in late \/ OnTime(m)) /\ m \in UnderWay
  BY <1>1, ArrivingGood, ArrivingUnder
<1>3. Sized(m)
  BY <1>2 DEF NetSized
<1>4. CASE OtherRepeats(m)
  <2>1. PICK reply \in other.replies : OtherSends(m, reply)
    BY <1>4 DEF OtherRepeats
  <2>2. Sized(reply)
    BY <2>1 DEF OtherSized, Sized
  <2>3. UnderWay' \subseteq UnderWay \cup {reply}
    BY <1>2, <2>1, OtherSendsUnder
  <2>4. NetSized'
    BY <2>2, <2>3, NetGrows
  <2>5. other' = other
    BY <1>4 DEF OtherRepeats
  <2> QED
    BY <2>4, <2>5 DEF OtherSized, Gathered, Prefix, Whole, Small, SizedReply
<1>5. CASE InPlace(m) /\ (OtherRefuses(m) \/ OtherTakes(m))
  <2>1. SizedChunk(m)
    BY <1>2, <1>3, <1>5 DEF Sized, InPlace
  <2>2. OtherSized' /\ \E reply : SizedReply(reply) /\ reply.to = "client" /\ OtherSends(m, reply)
    BY <1>5, <2>1, TakesSized
  <2>3. PICK reply : SizedReply(reply) /\ reply.to = "client" /\ OtherSends(m, reply)
    BY <2>2
  <2>4. Sized(reply)
    BY <2>3 DEF Sized
  <2>5. UnderWay' \subseteq UnderWay \cup {reply}
    BY <1>2, <2>3, OtherSendsUnder
  <2>6. NetSized'
    BY <2>4, <2>5, NetGrows
  <2> QED
    BY <2>2, <2>6
<1>6. CASE Arrives(m) /\ UNCHANGED other
  <2>1. UnderWay' \subseteq UnderWay
    BY <1>6, ArrivesUnder
  <2>2. NetSized'
    BY <2>1, NetKeeps
  <2> QED
    BY <1>6, <2>2 DEF OtherSized, Gathered, Prefix, Whole, Small, SizedReply
<1> QED
  BY <1>1, <1>4, <1>5, <1>6 DEF OtherHandles
-----------------------------------------------------------------------------
LEMMA ClientSlotsSized ==
  ASSUME ClientSized, NetSized, NEW p, Carried(p, net, late), SendClientRst \/ SendClientAck
  PROVE  ClientSized' /\ NetSized'
<1>1. PICK m \in Outgoing : Sends(m)
  BY DEF SendClientRst, SendClientAck, Outgoing
<1>2. Sized(m)
  BY DEF ClientSized, Sized
<1>3. UNCHANGED <<creq, plan>> /\ Outgoing' \subseteq Outgoing
  BY DEF SendClientRst, SendClientAck, Outgoing
<1>4. UnderWay' \subseteq UnderWay \cup {m}
  BY <1>1, SendsUnder
<1>5. NetSized'
  BY <1>2, <1>3, <1>4, NetGrows
<1> QED
  BY <1>3, <1>5 DEF ClientSized

LEMMA ClientSizes ==
  ASSUME OneCall, ClientSized, NetSized, NEW p, Carried(p, net, late), ClientNext
  PROVE  ClientSized' /\ NetSized'
<1>1. UNCHANGED netVars /\ UNCHANGED plan => NetSized'
  BY DEF NetSized, UnderWay, netVars, Sized, SizedChunk, SizedReply
<1>2. CASE \E r \in Request : New(r) \/ Send(r) \/ Cancel(r) \/ Deregister(r) \/ Free(r)
  <2>1. UNCHANGED netVars /\ UNCHANGED plan
    BY <1>2 DEF New, Send, Cancel, Deregister, Free
  <2> QED
    BY <1>1, <1>2, <2>1, CallsSized
<1>3. CASE \E c \in Conn : RemoveClientConnection(c)
  <2>1. UNCHANGED netVars /\ UNCHANGED plan
    BY <1>3 DEF RemoveClientConnection
  <2> QED
    BY <1>1, <1>3, <2>1, RemoveConnectionSized
<1>4. CASE HandleCallback
  <2>1. UNCHANGED netVars /\ UNCHANGED plan
    BY <1>4 DEF HandleCallback
  <2> QED
    BY <1>1, <1>4, <2>1, CallbackSized
<1>5. CASE SendClientRst \/ SendClientAck \/ SendRequest
  BY <1>5, ClientSlotsSized, SendRequestSized
<1>6. CASE \E m \in Arriving("client", cup) : ClientHandles(m)
  <2>1. PICK m \in Arriving("client", cup) : ClientHandles(m)
    BY <1>6
  <2>2. m.to = "client" /\ m \in UnderWay
    BY <2>1, ArrivingGood, ArrivingUnder
  <2>3. SizedReply(m)
    BY <2>2 DEF NetSized, Sized
  <2>4. Arrives(m) /\ UNCHANGED plan
    BY <2>1 DEF ClientHandles, HandleAck, HandleRst, Unexpected, HandleResponse
  <2>5. UnderWay' \subseteq UnderWay
    BY <2>4, ArrivesUnder
  <2>6. NetSized'
    BY <2>4, <2>5, NetKeeps
  <2>7. ClientSized'
    BY <2>1, <2>3, ResetsSized, UnexpectedSized, ResponseSized DEF ClientHandles
  <2> QED
    BY <2>6, <2>7
<1> QED
  BY <1>2, <1>3, <1>4, <1>5, <1>6 DEF ClientNext, ClientLoop

LEMMA InitSize ==
  ASSUME Init
  PROVE  SizeInv
<1> SUFFICES ASSUME peer = "other" PROVE OneCall /\ ClientSized /\ NetSized /\ OtherSized
  BY DEF SizeInv
<1>1. PICK s \in Scenarios : /\ InitClient(s.calls) /\ InitNet(s.faults) /\ InitOther
                             /\ peer = s.peer
  BY DEF Init
<1>2. OneCall
  BY <1>1, ScenariosAssumption DEF InitClient, OneCall
<1>3. ClientSized
  <2>1. ASSUME NEW r \in Request PROVE Sizing(NewRequest, r) /\ Chunking(NewRequest, r)
    <3>1. NewRequest.state = "NEW" /\ [NewRequest EXCEPT !.state = NewRequest.state] = NewRequest
      BY DEF NewRequest
    <3> QED
      BY <3>1, FreshSizing
  <2>2. NewRequest.state = "NEW"
    BY DEF NewRequest
  <2> QED
    BY <1>1, <2>1, <2>2 DEF InitClient, ClientSized, IsArray, Outgoing
<1>4. NetSized
  BY <1>1 DEF InitNet, NetSized, UnderWay, On
<1>5. OtherSized
  BY <1>1 DEF InitOther, OtherSized, Gathered, HasFields
<1> QED
  BY <1>2, <1>3, <1>4, <1>5

LEMMA StepSize ==
  ASSUME BodyInv, SizeInv, [Next]_vars
  PROVE  SizeInv'
<1>0. peer' = peer
  BY DEF Next, Step, vars, InClient, InServer, InOther, Trouble, Undeliverable, ClientTimer, ServerTimer
<1> SUFFICES ASSUME peer = "other" PROVE (OneCall /\ ClientSized /\ NetSized /\ OtherSized)'
  BY <1>0 DEF SizeInv
<1>1. OneCall /\ ClientSized /\ NetSized /\ OtherSized
  BY DEF SizeInv
<1>2. Carried(peer, net, late)
  BY DEF BodyInv, NetInv
<1>3. plan' = plan => OneCall'
  BY <1>1 DEF OneCall
<1>4. UNCHANGED clientVars => ClientSized' /\ OneCall'
  BY <1>1 DEF ClientSized, clientVars, Outgoing, OneCall
<1>5. plan' = plan /\ other' = other => OtherSized'
  BY <1>1 DEF OtherSized, Gathered, Prefix, Whole, Small, SizedReply
<1>6. CASE InClient(ClientNext)
  <2>1. ClientSized' /\ NetSized'
    BY <1>1, <1>2, <1>6, ClientSizes DEF InClient
  <2>2. plan' = plan /\ other' = other
    BY <1>6 DEF InClient, ClientNext, ClientLoop, New, Send, Cancel, Deregister, Free,
                RemoveClientConnection, SendClientRst, SendClientAck, SendRequest, HandleCallback,
                ClientHandles, HandleAck, HandleRst, Unexpected, HandleResponse
  <2> QED
    BY <1>3, <1>5, <2>1, <2>2
<1>7. CASE InOther(OtherNext)
  <2>1. OtherSized' /\ NetSized'
    BY <1>1, <1>2, <1>7, OtherSizes DEF InOther, clientVars
  <2> QED
    BY <1>4, <1>7, <2>1 DEF InOther
<1>8. CASE Trouble \/ Undeliverable
  <2>1. UNCHANGED clientVars /\ UNCHANGED other
    BY <1>8 DEF Trouble, Undeliverable
  <2>2. UnderWay' \subseteq UnderWay
    <3>1. CASE Trouble
      <4>1. PICK to, m : m \in Arriving(to, Conn) /\ (Lose(m) \/ Delay(m) \/ Copy(m))
        BY <3>1 DEF Trouble, OnTimeFor
      <4> QED
        BY <1>2, <4>1, ArrivingUnder, TroubleUnder
    <3>2. CASE Undeliverable
      BY <1>2, <3>2, ArrivesUnder DEF Undeliverable
    <3> QED
      BY <1>8, <3>1, <3>2
  <2>3. NetSized'
    BY <1>1, <2>1, <2>2, NetKeeps DEF clientVars
  <2> QED
    BY <1>4, <1>5, <2>1, <2>3 DEF clientVars
<1>9. ASSUME NEW r \in Request, ClientTimer(r) PROVE (OneCall /\ ClientSized /\ NetSized /\ OtherSized)'
  <2>1. ClientSized'
    BY <1>1, <1>9, TimeoutSized DEF ClientTimer, InClient
  <2>2. plan' = plan /\ other' = other /\ UNCHANGED netVars
    BY <1>9 DEF ClientTimer, InClient, HandleClientTimeout
  <2>3. NetSized'
    BY <1>1, <2>2 DEF NetSized, UnderWay, netVars, Sized, SizedChunk, SizedReply
  <2> QED
    BY <1>3, <1>5, <2>1, <2>2, <2>3
<1>10. CASE UNCHANGED vars
  <2>1. UNCHANGED clientVars /\ UNCHANGED other /\ UNCHANGED netVars
    BY <1>10 DEF vars
  <2>2. NetSized'
    BY <1>1, <2>1 DEF NetSized, UnderWay, netVars, clientVars, Sized, SizedChunk, SizedReply
  <2> QED
    BY <1>4, <1>5, <2>1, <2>2 DEF clientVars
<1>11. ~InServer(ServerNext) /\ \A r \in Request : ~ServerTimer(r)
  BY DEF InServer, ServerTimer
<1> QED
  BY <1>6, <1>7, <1>8, <1>9, <1>10, <1>11 DEF Next, Step

(* Another server that has taken the last chunk has the whole body of the  *)
(* request, for every body, every block size and every choice of smaller   *)
(* sizes, whatever messages are lost, repeated or late: the client never   *)
(* sends a chunk that begins elsewhere than where the size it carries says *)
(* (block1_adopt_size, block1_advance, request_create_packet).             *)
THEOREM OtherHasAll == Spec => []OtherIntact
<1>1. Init => BodyInv /\ SizeInv
  BY InitBody, InitSize
<1>2. BodyInv /\ SizeInv /\ [Next]_vars => BodyInv' /\ SizeInv'
  BY StepBody, StepSize
<1>3. Init => peer = "other" \/ other.done = FALSE
  BY DEF Init, InitOther
<1>4. (peer = "other" \/ other.done = FALSE) /\ [Next]_vars
        => (peer = "other" \/ other.done = FALSE)'
  BY DEF Next, Step, vars, InClient, InServer, InOther, Trouble, Undeliverable, ClientTimer, ServerTimer
<1>5. (peer = "other" \/ other.done = FALSE) /\ SizeInv => OtherIntact
  BY DEF SizeInv, OneCall, OtherSized, Gathered, OtherIntact, Whole
<1> QED
  BY <1>1, <1>2, <1>3, <1>4, <1>5, PTL DEF Spec
-----------------------------------------------------------------------------
(***************************************************************************)
(* Acknowledgements of responses.  A message id names at most one response *)
(* or notification, for ever: the server counts.  So what is under way     *)
(* with the id of a response that the server has not forgotten says what   *)
(* the response now is, and an acknowledgement of it was sent for that.    *)
(***************************************************************************)
Alive == {"REQUEST", "USER", "RESPONSE"}
Past == {"DONE_CALLBACK", "DONE", "FREED"}

(* No one asks for smaller blocks than the server starts with. *)
OwnSize(b) == HasBlock(b) => b.szx = ServerSzx

FitFields == {"state", "b1", "b2req", "isObs", "resp"}
ReplyFields == {"code", "body", "cur", "szx", "mid"}

Fits(q, r) ==
  /\ HasFields(q, FitFields) /\ HasFields(q.resp, ReplyFields)
  /\ OwnSize(q.b2req) /\ q.resp.szx = ServerSzx
  /\ q.resp.body = <<>> \/ q.resp.code = "OK"
  /\ q.isObs = TRUE => r \in Observing

(* A request keeps the message id of its response, and the response that   *)
(* is being sent stays what it is.                                         *)
Steady(q, n) ==
  n.state \in Alive =>
    /\ q.state \in Alive /\ n.resp.mid = q.resp.mid
    /\ q.state = "RESPONSE" =>
         /\ n.state = "RESPONSE" /\ n.resp.code = q.resp.code
         /\ n.resp.body = q.resp.body /\ n.resp.cur = q.resp.cur

(* A message hands the request over: with what the request has of its body *)
(* already, or as the first message of a new one.                          *)
Begun(q) == HasFields(q, ServedFields) /\ q.body = <<>>

Handed(r) ==
  \E m \in Arriving("server", sup) :
    /\ Asks(m) /\ m.token = r
    /\ \E q : /\ Begun(q) \/ (q = sreq[r] /\ q.state = "REQUEST")
             /\ Refusal(q, m) = "NONE" /\ sreq'[r] = Taken(q, m)

(* How a request comes to the application, and on to its response. *)
Enters(q, n, r) ==
  /\ n.state = "USER" => q.state = "USER" \/ Handed(r)
  /\ n.state = "RESPONSE" => q.state \in {"USER", "RESPONSE"}

Moves(q, n, r) == Fits(n, r) /\ Steady(q, n) /\ Enters(q, n, r)

AllFit(reqs) == IsArray(reqs) /\ \A r \in Request : Fits(reqs[r], r)
AllMove(new) == IsArray(new) /\ \A r \in Request : Moves(sreq[r], new[r], r)

LEMMA AbsentFits ==
  ASSUME NEW r
  PROVE  Fits(Absent, r) /\ Absent.state = "NONE"
<1>1. /\ HasFields(Absent, FitFields) /\ Absent.b2req = NoBlock /\ Absent.isObs = FALSE
      /\ Absent.resp = NoAnswer /\ Absent.state = "NONE"
  BY DEF Absent, HasFields, FitFields
<1>2. /\ HasFields(NoAnswer, ReplyFields) /\ NoAnswer.szx = ServerSzx
      /\ NoAnswer.body = <<>>
  BY DEF NoAnswer, HasFields, ReplyFields
<1>3. OwnSize(NoBlock)
  BY NoBlockPlace DEF OwnSize
<1> QED
  BY <1>1, <1>2, <1>3 DEF Fits

LEMMA SettledMoves ==
  ASSUME NEW q, NEW n, NEW r, Moves(q, n, r)
  PROVE  Moves(q, Settled(n), r)
<1>1. Moves(q, Absent, r)
  BY AbsentFits DEF Moves, Steady, Alive, Enters
<1> QED
  BY <1>1 DEF Settled

(* A request of which only the state changes, to one that is not alive,    *)
(* or nothing that matters here.                                           *)
SameReply(q, n) ==
  /\ HasFields(n, FitFields) /\ n.resp = q.resp /\ n.b2req \in {q.b2req, NoBlock}
  /\ n.isObs = q.isObs
  /\ n.state \in {q.state, "DONE"}

LEMMA SameReplyMoves ==
  ASSUME NEW q, NEW n, NEW r, Fits(q, r), SameReply(q, n)
  PROVE  Moves(q, n, r)
<1>1. Fits(n, r)
  BY NoBlockPlace DEF Fits, SameReply, OwnSize
<1>2. Steady(q, n) /\ Enters(q, n, r)
  BY DEF SameReply, Steady, Alive, Enters
<1> QED
  BY <1>1, <1>2 DEF Moves

LEMMA FlagsMove ==
  ASSUME NEW q, NEW r, Fits(q, r)
  PROVE  /\ Moves(q, q, r) /\ Moves(q, Over(q), r) /\ Moves(q, Discarded(q), r)
         /\ Moves(q, [q EXCEPT !.conn = FALSE], r)
         /\ Moves(q, [q EXCEPT !.continue = FALSE], r)
         /\ Moves(q, [q EXCEPT !.continue = TRUE], r)
         /\ Moves(q, [q EXCEPT !.observer = TRUE], r)
         /\ Moves(q, [q EXCEPT !.observer = FALSE], r)
         /\ Moves(q, [q EXCEPT !.freed = TRUE], r)
<1>1. HasFields(q, FitFields)
  BY DEF Fits
<1>2. SameReply(q, q) /\ SameReply(q, Over(q)) /\ SameReply(q, Discarded(q))
  BY <1>1 DEF SameReply, Over, Discarded, HasFields, FitFields
<1>3. SameReply(q, [q EXCEPT !.conn = FALSE]) /\ SameReply(q, [q EXCEPT !.continue = FALSE])
  BY <1>1 DEF SameReply, HasFields, FitFields
<1>4. SameReply(q, [q EXCEPT !.continue = TRUE]) /\ SameReply(q, [q EXCEPT !.observer = TRUE])
  BY <1>1 DEF SameReply, HasFields, FitFields
<1>5. SameReply(q, [q EXCEPT !.observer = FALSE]) /\ SameReply(q, [q EXCEPT !.freed = TRUE])
  BY <1>1 DEF SameReply, HasFields, FitFields
<1> QED
  BY <1>2, <1>3, <1>4, <1>5, SameReplyMoves

LEMMA SetRequestsMove ==
  ASSUME NEW new, AllMove(new), SetRequests(new)
  PROVE  AllMove(sreq')
<1>1. sreq' = [r \in Request |-> Settled(new[r])]
  BY DEF SetRequests
<1> QED
  BY <1>1, SettledMoves DEF AllMove, IsArray

LEMMA UpdateMoves ==
  ASSUME NEW reqs, AllMove(reqs), NEW r, NEW q, r \in Request => Moves(sreq[r], q, r)
  PROVE  AllMove([reqs EXCEPT ![r] = q])
BY DEF AllMove, IsArray

LEMMA SameMove ==
  ASSUME AllFit(sreq)
  PROVE  AllMove(sreq)
BY FlagsMove DEF AllFit, AllMove

LEMMA SetRequestMoves ==
  ASSUME AllFit(sreq), NEW r, NEW q, r \in Request => Moves(sreq[r], q, r), SetRequest(r, q)
  PROVE  AllMove(sreq')
<1>1. AllMove([sreq EXCEPT ![r] = q])
  BY SameMove, UpdateMoves
<1> QED
  BY <1>1, SetRequestsMove DEF SetRequest

LEMMA ForgettingMoves ==
  ASSUME NEW reqs, AllMove(reqs), NEW gone
  PROVE  AllMove(Forgetting(reqs, gone))
<1>1. ASSUME NEW r \in Request PROVE Moves(sreq[r], [reqs[r] EXCEPT !.observer = FALSE], r)
  <2> DEFINE n == [reqs[r] EXCEPT !.observer = FALSE]
  <2>1. Moves(sreq[r], reqs[r], r)
    BY DEF AllMove
  <2>2. HasFields(n, FitFields) /\ n.resp = reqs[r].resp /\ n.b2req = reqs[r].b2req
          /\ n.isObs = reqs[r].isObs /\ n.state = reqs[r].state
    BY <2>1 DEF Moves, Fits, HasFields, FitFields
  <2> HIDE DEF n
  <2>3. Fits(n, r) /\ Steady(sreq[r], n) /\ Enters(sreq[r], n, r)
    BY <2>1, <2>2 DEF Moves, Fits, Steady, Enters
  <2> QED
    BY <2>3 DEF Moves, n
<1> QED
  BY <1>1 DEF AllMove, Forgetting, IsArray

ObserverFields == {"on", "mid"}
Watch(o, r) == HasFields(o, ObserverFields) /\ (o.on = TRUE => r \in Observing)
AllWatch(obs) == IsArray(obs) /\ \A r \in Request : Watch(obs[r], r)

(* A message id that is used from now on. *)
NewMids == (smid + 1)..smid'

(* A step of the server that starts no response. *)
Quiet ==
  /\ AllMove(sreq') /\ AllWatch(sobs')
  /\ smid' \in Nat /\ smid <= smid'
  /\ \A r \in Request : sobs'[r].mid \in {0, sobs[r].mid} \cup NewMids

FitInv == AllFit(sreq) /\ AllWatch(sobs) /\ smid \in Nat

LEMMA NobodyWatches ==
  ASSUME NEW r
  PROVE  Watch(NoObserver, r) /\ NoObserver.mid = 0
BY DEF NoObserver, Watch, HasFields, ObserverFields

LEMMA FreeObserversWatch ==
  ASSUME AllWatch(sobs), NEW gone, FreeObservers(gone)
  PROVE  AllWatch(sobs') /\ \A r \in Request : sobs'[r].mid \in {0, sobs[r].mid}
BY NobodyWatches DEF AllWatch, FreeObservers, IsArray

LEMMA OneWatches ==
  ASSUME AllWatch(sobs), NEW r \in Request, NEW o, Watch(o, r), sobs' = [sobs EXCEPT ![r] = o]
  PROVE  /\ AllWatch(sobs') /\ sobs'[r] = o
         /\ \A s \in Request : s # r => sobs'[s] = sobs[s]
BY DEF AllWatch, IsArray

(* Requests move, and observers stay or go. *)
LEMMA RequestsQuiet ==
  ASSUME FitInv, AllMove(sreq'), smid' = smid,
         sobs' = sobs \/ \E gone : FreeObservers(gone)
  PROVE  Quiet
<1>1. AllWatch(sobs') /\ \A r \in Request : sobs'[r].mid \in {0, sobs[r].mid}
  <2>1. CASE sobs' = sobs
    BY <2>1 DEF FitInv
  <2>2. CASE \E gone : FreeObservers(gone)
    BY <2>2, FreeObserversWatch DEF FitInv
  <2> QED
    BY <2>1, <2>2
<1> QED
  BY <1>1 DEF Quiet, FitInv
-----------------------------------------------------------------------------
LEMMA ReadyFits ==
  ASSUME NEW r, NEW q, Fits(q, r), NEW answer, HasFields(answer, ReplyFields),
         answer.szx = ServerSzx, answer.body = <<>> \/ answer.code = "OK"
  PROVE  /\ Fits(Ready(q, answer), r)
         /\ Ready(q, answer).state \in {"RESPONSE", "DONE"}
         /\ Ready(q, answer).state = "RESPONSE" => Ready(q, answer).resp.mid = answer.mid
<1> DEFINE b == q.b2req
           szx == IF HasBlock(b) /\ b.szx < answer.szx THEN b.szx ELSE answer.szx
           past == HasBlock(b) /\ Offset(b) # 0 /\ Offset(b) >= Len(answer.body)
           none == [answer EXCEPT !.code = "BAD_REQUEST", !.body = <<>>, !.cur = 0]
           placed == [answer EXCEPT !.cur = Offset(b) \div Size(szx)]
           served == IF past THEN none ELSE IF HasBlock(b) THEN placed ELSE answer
           resp == [served EXCEPT !.szx = szx, !.sendNow = TRUE]
           n == [q EXCEPT !.state = "RESPONSE", !.b2req = NoBlock, !.resp = resp]
<1>1. Ready(q, answer) = IF q.conn THEN n ELSE Over(q)
  BY DEF Ready
<1>2. szx = ServerSzx
  BY DEF Fits, OwnSize
<1> HIDE DEF szx, past
<1>3. /\ HasFields(none, ReplyFields) /\ none.body = <<>> /\ none.mid = answer.mid
      /\ HasFields(placed, ReplyFields) /\ placed.body = answer.body
      /\ placed.code = answer.code /\ placed.mid = answer.mid
  BY DEF HasFields, ReplyFields
<1>4. HasFields(served, ReplyFields) /\ served.mid = answer.mid
        /\ (served.body = <<>> \/ served.code = "OK")
  <2> HIDE DEF none, placed
  <2> QED
    BY <1>3
<1> HIDE DEF served
<1>5. HasFields(resp, ReplyFields) /\ resp.mid = answer.mid /\ resp.szx = ServerSzx
        /\ (resp.body = <<>> \/ resp.code = "OK")
  BY <1>2, <1>4 DEF HasFields, ReplyFields
<1> HIDE DEF resp
<1>6. HasFields(n, FitFields) /\ n.resp = resp /\ n.b2req = NoBlock /\ n.isObs = q.isObs
        /\ n.state = "RESPONSE"
  BY DEF Fits, HasFields, FitFields
<1> HIDE DEF n
<1>7. Fits(n, r)
  BY <1>5, <1>6, NoBlockPlace DEF Fits, OwnSize
<1>8. Fits(Over(q), r) /\ Over(q).state = "DONE"
  BY FlagsMove DEF Moves, Over, Fits, HasFields, FitFields
<1> QED
  BY <1>1, <1>5, <1>6, <1>7, <1>8

LEMMA RespondQuiet ==
  ASSUME FitInv, NEW r \in Request, Respond(r)
  PROVE  Quiet
<1> DEFINE q == sreq[r]
           answer == [q.resp EXCEPT !.code = "OK", !.body = Units(ver, RespLen[r])]
<1>1. Fits(q, r) /\ q.state = "USER" /\ SetRequest(r, Ready(q, answer))
        /\ sobs' = sobs /\ smid' = smid
  BY DEF Respond, FitInv, AllFit, observerVars
<1>2. HasFields(answer, ReplyFields) /\ answer.szx = ServerSzx /\ answer.code = "OK"
        /\ answer.mid = q.resp.mid
  BY <1>1 DEF Fits, HasFields, ReplyFields
<1> HIDE DEF q, answer
<1>3. Fits(Ready(q, answer), r) /\ Steady(q, Ready(q, answer)) /\ Enters(q, Ready(q, answer), r)
  BY <1>1, <1>2, ReadyFits DEF Steady, Alive, Enters
<1>4. Moves(sreq[r], Ready(q, answer), r)
  BY <1>3 DEF Moves, q
<1>5. AllMove(sreq')
  BY <1>1, <1>4, SetRequestMoves DEF FitInv
<1> QED
  BY <1>1, <1>5, RequestsQuiet

LEMMA FreeRequestQuiet ==
  ASSUME FitInv, NEW r \in Request, FreeRequest(r)
  PROVE  Quiet
<1> DEFINE q == sreq[r]
           p == [q EXCEPT !.b2req = NoBlock]
           answer == [q.resp EXCEPT !.code = "ERROR", !.body = <<>>]
           failed == Ready(p, answer)
           n == IF q.state = "USER" THEN failed ELSE q
           m == [n EXCEPT !.freed = TRUE]
<1>1. Fits(q, r) /\ SetRequest(r, m) /\ sobs' = sobs /\ smid' = smid
  BY DEF FreeRequest, FitInv, AllFit, observerVars
<1>2. HasFields(answer, ReplyFields) /\ answer.szx = ServerSzx /\ answer.body = <<>>
        /\ answer.mid = q.resp.mid
  BY <1>1 DEF Fits, HasFields, ReplyFields
<1>3. Fits(p, r)
  <2>1. SameReply(q, p)
    BY <1>1 DEF Fits, SameReply, HasFields, FitFields
  <2> QED
    BY <1>1, <2>1, SameReplyMoves DEF Moves
<1> HIDE DEF answer, p
<1>4. Fits(failed, r) /\ (q.state = "USER" => Steady(q, failed) /\ Enters(q, failed, r))
  BY <1>2, <1>3, ReadyFits DEF Steady, Alive, Enters
<1> HIDE DEF failed
<1>5. Moves(q, n, r)
  BY <1>1, <1>4, FlagsMove DEF Moves
<1> HIDE DEF n
<1>6. Moves(q, m, r)
  <2>1. Moves(n, m, r)
    BY <1>5, FlagsMove DEF Moves
  <2> QED
    BY <1>5, <2>1 DEF Moves, Steady, Alive, Enters
<1> HIDE DEF m
<1>7. AllMove(sreq')
  BY <1>1, <1>6, SetRequestMoves DEF FitInv
<1> QED
  BY <1>1, <1>7, RequestsQuiet

LEMMA AcceptObserveQuiet ==
  ASSUME FitInv, NEW r \in Request, AcceptObserve(r)
  PROVE  Quiet
<1> DEFINE o == [NoObserver EXCEPT !.on = TRUE, !.conn = sreq[r].conn]
           n == [sreq[r] EXCEPT !.observer = TRUE]
<1>1. sreq[r].isObs = TRUE /\ sreq' = [sreq EXCEPT ![r] = n] /\ smid' = smid
        /\ sobs' = [sobs EXCEPT ![r] = o]
  BY DEF AcceptObserve, FitInv, AllFit, IsArray
<1>2. Fits(sreq[r], r)
  BY DEF FitInv, AllFit
<1>3. Moves(sreq[r], n, r)
  BY <1>2, FlagsMove
<1>4. HasFields(o, ObserverFields) /\ o.mid = 0
  BY DEF NoObserver, HasFields, ObserverFields
<1> HIDE DEF o, n
<1>5. Watch(o, r)
  BY <1>1, <1>2, <1>4 DEF Watch, Fits
<1>6. AllWatch(sobs') /\ \A s \in Request : sobs'[s].mid \in {0, sobs[s].mid}
  BY <1>1, <1>4, <1>5, OneWatches DEF FitInv
<1>7. AllMove(sreq')
  BY <1>1, <1>3, SameMove, UpdateMoves DEF FitInv
<1> QED
  BY <1>1, <1>6, <1>7 DEF Quiet, FitInv

LEMMA RemovalsQuiet ==
  ASSUME FitInv, \/ \E r \in Request : RemoveObserver(r)
                 \/ \E c \in Conn : RemoveServerConnection(c)
  PROVE  Quiet
<1>1. CASE \E r \in Request : RemoveObserver(r)
  <2>1. PICK gone : FreeObservers(gone) /\ sreq' = Forgetting(sreq, gone) /\ smid' = smid
    BY <1>1 DEF RemoveObserver
  <2>2. AllMove(sreq')
    BY <2>1, SameMove, ForgettingMoves DEF FitInv
  <2> QED
    BY <2>1, <2>2, RequestsQuiet
<1>2. ASSUME NEW c \in Conn, RemoveServerConnection(c) PROVE Quiet
  <2> DEFINE gone == {r \in Request : sobs[r].on /\ sobs[r].conn /\ ConnOf[r] = c}
             left(r) == CASE sreq[r].state = "REQUEST" -> Discarded(sreq[r])
                          [] sreq[r].state = "RESPONSE" -> Over(sreq[r])
                          [] OTHER -> [sreq[r] EXCEPT !.conn = FALSE]
             reqs == [r \in Request |->
                        IF sreq[r].conn /\ ConnOf[r] = c THEN left(r) ELSE sreq[r]]
  <2>1. FreeObservers(gone) /\ SetRequests(Forgetting(reqs, gone)) /\ smid' = smid
    BY <1>2 DEF RemoveServerConnection
  <2>2. ASSUME NEW r \in Request PROVE Moves(sreq[r], reqs[r], r)
    <3>1. Fits(sreq[r], r)
      BY DEF FitInv, AllFit
    <3>2. \/ reqs[r] = Discarded(sreq[r]) \/ reqs[r] = Over(sreq[r])
          \/ reqs[r] = [sreq[r] EXCEPT !.conn = FALSE] \/ reqs[r] = sreq[r]
      OBVIOUS
    <3> HIDE DEF reqs
    <3> QED
      BY <3>1, <3>2, FlagsMove
  <2>3. AllMove(reqs)
    BY <2>2 DEF AllMove, IsArray
  <2> HIDE DEF reqs, gone
  <2>4. AllMove(sreq')
    BY <2>1, <2>3, ForgettingMoves, SetRequestsMove
  <2> QED
    BY <2>1, <2>4, RequestsQuiet
<1> QED
  BY <1>1, <1>2
-----------------------------------------------------------------------------
(* No observer is listed twice.                                            *)
Distinct(s) == \A i, j \in 1..Len(s) : s[i] = s[j] => i = j

LEMMA WithoutDistinct ==
  ASSUME NEW S, NEW list \in Seq(S), NEW gone, Distinct(list)
  PROVE  Distinct(Without(list, gone))
<1> DEFINE N == Len(list)
           stays == {i \in 1..N : list[i] \notin gone}
           K == Cardinality(stays)
           At(n) == CHOOSE i \in stays : Rank(stays, i) = n
<1>0. N \in Nat /\ stays \in SUBSET (1..N)
  OBVIOUS
<1>1. Without(list, gone) = [n \in 1..K |-> list[At(n)]]
  BY DEF Without
<1>2. K \in Nat
  <2> HIDE DEF stays, N
  <2> QED
    BY <1>0, RankType
<1>3. \A n \in 1..K : At(n) \in stays /\ Rank(stays, At(n)) = n
  <2> HIDE DEF stays, N
  <2>1. \A n \in 1..K : \E i \in stays : Rank(stays, i) = n
    BY <1>0, RankReached
  <2> QED
    BY <2>1
<1>4. Len(Without(list, gone)) = K
  <2>1. Without(list, gone) \in Seq(S \ gone)
    BY WithoutKeeps
  <2>2. DOMAIN Without(list, gone) = 1..K
    BY <1>1
  <2> HIDE DEF K
  <2> QED
    BY <1>2, <2>1, <2>2
<1>5. ASSUME NEW n \in 1..K, NEW m \in 1..K, list[At(n)] = list[At(m)] PROVE n = m
  <2>1. At(n) \in 1..N /\ At(m) \in 1..N
    BY <1>0, <1>3
  <2>2. At(n) = At(m)
    <3> HIDE DEF At
    <3> QED
      BY <1>5, <2>1 DEF Distinct
  <2> HIDE DEF At, K, stays
  <2> QED
    BY <1>3, <2>2
<1> HIDE DEF At, K
<1> QED
  BY <1>1, <1>4, <1>5 DEF Distinct

LEMMA FrontDistinct ==
  ASSUME NEW S, NEW s \in Seq(S), NEW e, e \notin S, Distinct(s)
  PROVE  Distinct(<<e>> \o s)
<1>1. s \in Seq(S \cup {e})
  BY SeqGrows
<1> DEFINE T == S \cup {e}
<1>2. <<e>> \in Seq(T) /\ s \in Seq(T) /\ Len(<<e>>) = 1 /\ <<e>>[1] = e
  BY <1>1
<1>3. Len(<<e>> \o s) = Len(s) + 1 /\ Len(s) \in Nat
  <2> HIDE DEF T
  <2> QED
    BY <1>2
<1>4. \A i \in 1..Len(<<e>> \o s) :
        IF i = 1 THEN (<<e>> \o s)[i] = e
                 ELSE i - 1 \in 1..Len(s) /\ (<<e>> \o s)[i] = s[i - 1]
  <2> HIDE DEF T
  <2> QED
    BY <1>2, <1>3
<1>5. \A i \in 1..Len(s) : s[i] # e
  OBVIOUS
<1>6. ASSUME NEW i \in 1..Len(<<e>> \o s), NEW j \in 1..Len(<<e>> \o s),
             (<<e>> \o s)[i] = (<<e>> \o s)[j]
      PROVE  i = j
  <2>1. CASE i = 1 \/ j = 1
    BY <1>4, <1>5, <1>6, <2>1
  <2>2. CASE i # 1 /\ j # 1
    <3>1. i - 1 \in 1..Len(s) /\ j - 1 \in 1..Len(s) /\ s[i - 1] = s[j - 1]
      BY <1>4, <1>6, <2>2
    <3>2. i - 1 = j - 1
      BY <3>1 DEF Distinct
    <3> QED
      BY <1>3, <3>2
  <2> QED
    BY <2>1, <2>2
<1> QED
  BY <1>6 DEF Distinct

(* Resting observers are as many as their places in the list, so the ids   *)
(* that resource_notify gives them are the ones it takes from the counter. *)
LEMMA NextMidNew ==
  ASSUME ObserverList, Distinct(soorder), smid \in Nat,
         NEW n, n = smid + Cardinality({r \in Request : sobs[r].on /\ ~sobs[r].waiting})
  PROVE  /\ n \in Nat /\ smid <= n
         /\ \A r \in Request : sobs[r].on /\ ~sobs[r].waiting => NextMid(r) \in (smid + 1)..n
<1> DEFINE rest == {r \in Request : sobs[r].on /\ ~sobs[r].waiting}
           places == {i \in 1..Len(soorder) : ~sobs[soorder[i]].waiting}
           f == [i \in places |-> soorder[i]]
           upto(r) == {i \in 1..Len(soorder) : /\ ~sobs[soorder[i]].waiting
                                               /\ \E j \in i..Len(soorder) : soorder[j] = r}
<1>1. Len(soorder) \in Nat /\ \A i \in 1..Len(soorder) : soorder[i] \in Request /\ sobs[soorder[i]].on
  BY DEF ObserverList
<1>2. IsFiniteSet(1..Len(soorder))
  BY <1>1, FS_Interval
<1>3. IsFiniteSet(places) /\ Cardinality(places) \in Nat
  BY <1>2, FS_Subset, FS_CardinalityType
<1>4. f \in [places -> rest] /\ \A r \in rest : \E i \in places : f[i] = r
  <2>1. f \in [places -> rest]
    BY <1>1
  <2>2. ASSUME NEW r \in rest PROVE \E i \in places : f[i] = r
    <3>1. PICK i \in 1..Len(soorder) : soorder[i] = r
      BY DEF ObserverList
    <3>2. i \in places
      BY <3>1
    <3> QED
      BY <3>1, <3>2
  <2> QED
    BY <2>1, <2>2
<1>5. \A i, j \in places : f[i] = f[j] => i = j
  BY DEF Distinct
<1>6. Cardinality(rest) = Cardinality(places)
  <2> HIDE DEF f, rest, places
  <2>1. f \in Surjection(places, rest) /\ f \in Injection(places, rest)
    BY <1>4, <1>5 DEF Surjection, Injection, IsInjective
  <2> QED
    BY <1>3, <2>1, FS_Surjection
<1>7. ASSUME NEW r \in Request, sobs[r].on, ~sobs[r].waiting
      PROVE  NextMid(r) \in (smid + 1)..n
  <2>1. PICK k \in 1..Len(soorder) : soorder[k] = r
    BY <1>7 DEF ObserverList
  <2>2. k \in upto(r)
    BY <1>1, <1>7, <2>1
  <2>3. upto(r) \in SUBSET places
    OBVIOUS
  <2>4. NextMid(r) = smid + Cardinality(upto(r))
    BY DEF NextMid
  <2> HIDE DEF upto, places, rest
  <2>5. IsFiniteSet(upto(r)) /\ Cardinality(upto(r)) \in Nat
          /\ Cardinality(upto(r)) <= Cardinality(places)
    BY <1>3, <2>3, FS_Subset, FS_CardinalityType
  <2>6. Cardinality(upto(r)) # 0
    BY <2>2, <2>5, FS_EmptySet
  <2>7. n = smid + Cardinality(places)
    BY <1>6 DEF rest
  <2> QED
    BY <1>3, <2>4, <2>5, <2>6, <2>7
<1>8. n = smid + Cardinality(places)
  BY <1>6
<1> HIDE DEF places
<1> QED
  BY <1>3, <1>7, <1>8

LEMMA CurrentWatch ==
  ASSUME NEW r, NEW o, Watch(o, r), NEW v, NEW mid
  PROVE  Watch(Current(o, v, mid), r) /\ Current(o, v, mid).mid = mid
BY DEF Watch, HasFields, ObserverFields, Current

LEMMA NotifyQuiet ==
  ASSUME FitInv, ObserverList, Distinct(soorder), Notify
  PROVE  Quiet
<1>1. /\ sobs' = [r \in Request |-> Notified(r)] /\ sreq' = sreq
      /\ smid' = smid + Cardinality({r \in Request : sobs[r].on /\ ~sobs[r].waiting})
  BY DEF Notify, requestVars
<1>2. /\ smid' \in Nat /\ smid <= smid'
      /\ \A r \in Request : sobs[r].on /\ ~sobs[r].waiting => NextMid(r) \in NewMids
  BY <1>1, NextMidNew DEF FitInv, NewMids
<1>3. ASSUME NEW r \in Request
      PROVE  Watch(Notified(r), r) /\ Notified(r).mid \in {0, sobs[r].mid} \cup NewMids
  <2> DEFINE o == sobs[r]
             mid == NextMid(r)
             p == [o EXCEPT !.pending = {ver + 1}]
  <2>1. Watch(o, r)
    BY DEF FitInv, AllWatch
  <2>2. Watch(p, r) /\ p.mid = o.mid
    BY <2>1 DEF Watch, HasFields, ObserverFields
  <2>3. \/ Notified(r) = p
        \/ Notified(r) = Current(o, ver + 1, mid) /\ o.on /\ ~o.waiting
        \/ Notified(r) = o
    BY DEF Notified
  <2> HIDE DEF mid, p
  <2>4. CASE Notified(r) = Current(o, ver + 1, mid) /\ o.on /\ ~o.waiting
    <3>1. mid \in NewMids
      BY <1>2, <2>4 DEF mid
    <3> QED
      BY <2>1, <2>4, <3>1, CurrentWatch
  <2> QED
    BY <2>1, <2>2, <2>3, <2>4
<1>4. AllWatch(sobs')
  BY <1>1, <1>3 DEF AllWatch, IsArray
<1>5. AllMove(sreq')
  BY <1>1, SameMove DEF FitInv
<1> QED
  BY <1>1, <1>2, <1>3, <1>4, <1>5 DEF Quiet
-----------------------------------------------------------------------------
(* The loop and the deadlines of the server. *)

LEMMA RetainedMoves ==
  ASSUME NEW q, NEW n, NEW r, Fits(q, r), HasFields(n, FitFields), HasFields(n.resp, ReplyFields),
         n.b2req = q.b2req, n.isObs = q.isObs, n.state = q.state,
         n.resp.code = q.resp.code, n.resp.body = q.resp.body, n.resp.cur = q.resp.cur,
         n.resp.szx = q.resp.szx, n.resp.mid = q.resp.mid
  PROVE  Moves(q, n, r)
BY DEF Moves, Fits, Steady, Enters

LEMMA SendResponseQuiet ==
  ASSUME FitInv, SendResponse
  PROVE  Quiet
<1>1. PICK r \in Request :
        \E step : sreq' = [sreq EXCEPT ![r].resp.waiting = TRUE, ![r].resp.sendNow = FALSE,
                                       ![r].resp.retrans = @ + step]
  BY DEF SendResponse, SendingRequests
<1>2. PICK step :
        sreq' = [sreq EXCEPT ![r].resp.waiting = TRUE, ![r].resp.sendNow = FALSE,
                             ![r].resp.retrans = @ + step]
  BY <1>1
<1>3. Fits(sreq[r], r) /\ IsArray(sreq)
  BY DEF FitInv, AllFit
<1>4. /\ HasFields(sreq'[r], FitFields)
      /\ sreq'[r].b2req = sreq[r].b2req /\ sreq'[r].isObs = sreq[r].isObs
      /\ sreq'[r].state = sreq[r].state
  BY <1>2, <1>3 DEF Fits, HasFields, FitFields, IsArray
<1>5. /\ HasFields(sreq'[r].resp, ReplyFields)
      /\ sreq'[r].resp.code = sreq[r].resp.code /\ sreq'[r].resp.body = sreq[r].resp.body
      /\ sreq'[r].resp.cur = sreq[r].resp.cur /\ sreq'[r].resp.szx = sreq[r].resp.szx
      /\ sreq'[r].resp.mid = sreq[r].resp.mid
  BY <1>2, <1>3 DEF Fits, HasFields, FitFields, ReplyFields, IsArray
<1>6. Moves(sreq[r], sreq'[r], r)
  BY <1>3, <1>4, <1>5, RetainedMoves
<1>7. IsArray(sreq') /\ \A s \in Request : s # r => sreq'[s] = sreq[s]
  BY <1>2, <1>3 DEF IsArray
<1>8. AllMove(sreq')
  BY <1>6, <1>7, SameMove DEF AllMove, FitInv
<1>9. UNCHANGED <<sobs, smid>>
  BY DEF SendResponse, observerVars
<1> QED
  BY <1>8, <1>9, RequestsQuiet

LEMMA ServerLoopQuiet ==
  ASSUME FitInv, ServerLoop
  PROVE  Quiet
<1>1. CASE SendError \/ SendAck \/ SendRst
  <2>1. UNCHANGED <<sreq, sobs, smid>>
    BY <1>1 DEF SendError, SendAck, SendRst, requestVars, observerVars
  <2> QED
    BY <2>1, SameMove, RequestsQuiet DEF FitInv
<1>2. CASE SendContinue
  <2>1. PICK r \in Request : sreq' = [sreq EXCEPT ![r].continue = FALSE]
    BY <1>2 DEF SendContinue, SendingRequests
  <2>2. sreq' = [sreq EXCEPT ![r] = [sreq[r] EXCEPT !.continue = FALSE]]
    BY <2>1 DEF FitInv, AllFit, IsArray
  <2>3. Moves(sreq[r], [sreq[r] EXCEPT !.continue = FALSE], r)
    BY FlagsMove DEF FitInv, AllFit
  <2>4. AllMove(sreq')
    BY <2>2, <2>3, SameMove, UpdateMoves DEF FitInv
  <2>5. UNCHANGED <<sobs, smid>>
    BY <1>2 DEF SendContinue, observerVars
  <2> QED
    BY <2>4, <2>5, RequestsQuiet
<1>3. CASE SendNotification
  <2>1. PICK r \in Request :
          sobs' = [sobs EXCEPT ![r].sendNow = FALSE, ![r].waiting = TRUE, ![r].retrans = @ + 1]
    BY <1>3 DEF SendNotification, SendingObservers
  <2> DEFINE o == [sobs[r] EXCEPT !.sendNow = FALSE, !.waiting = TRUE, !.retrans = @ + 1]
  <2>2. Watch(sobs[r], r) /\ IsArray(sobs)
    BY DEF FitInv, AllWatch
  <2>3. sobs' = [sobs EXCEPT ![r] = o]
    BY <2>1, <2>2 DEF IsArray, Watch, HasFields
  <2>4. Watch(o, r) /\ o.mid = sobs[r].mid
    BY <2>2 DEF Watch, HasFields, ObserverFields
  <2> HIDE DEF o
  <2>5. AllWatch(sobs') /\ \A s \in Request : sobs'[s].mid = sobs[s].mid
    BY <2>3, <2>4, OneWatches DEF FitInv
  <2>6. UNCHANGED <<sreq, smid>>
    BY <1>3 DEF SendNotification, requestVars
  <2> QED
    BY <2>5, <2>6, SameMove DEF Quiet, FitInv
<1> QED
  BY <1>1, <1>2, <1>3, SendResponseQuiet DEF ServerLoop

LEMMA ExpireRequestQuiet ==
  ASSUME FitInv, NEW r \in Request, ExpireRequest(r)
  PROVE  Quiet
<1> DEFINE again == [sreq[r] EXCEPT !.resp.sendNow = TRUE]
<1>1. Fits(sreq[r], r)
  BY DEF FitInv, AllFit
<1>2. Moves(sreq[r], again, r)
  <2>1. /\ HasFields(again, FitFields)
        /\ again.b2req = sreq[r].b2req /\ again.isObs = sreq[r].isObs
        /\ again.state = sreq[r].state
    BY <1>1 DEF Fits, HasFields, FitFields
  <2>2. /\ HasFields(again.resp, ReplyFields)
        /\ again.resp.code = sreq[r].resp.code /\ again.resp.body = sreq[r].resp.body
        /\ again.resp.cur = sreq[r].resp.cur /\ again.resp.szx = sreq[r].resp.szx
        /\ again.resp.mid = sreq[r].resp.mid
    BY <1>1 DEF Fits, HasFields, FitFields, ReplyFields
  <2> HIDE DEF again
  <2> QED
    BY <1>1, <2>1, <2>2, RetainedMoves
<1>3. \/ SetRequest(r, Discarded(sreq[r]))
      \/ SetRequest(r, Over(sreq[r]))
      \/ SetRequest(r, again)
  BY DEF ExpireRequest
<1> HIDE DEF again
<1>4. AllMove(sreq')
  BY <1>1, <1>2, <1>3, FlagsMove, SetRequestMoves DEF FitInv
<1>5. UNCHANGED <<sobs, smid>>
  BY DEF ExpireRequest, observerVars
<1> QED
  BY <1>4, <1>5, RequestsQuiet

LEMMA ExpireNotificationQuiet ==
  ASSUME FitInv, NEW r \in Request, ExpireNotification(r)
  PROVE  Quiet
<1>0. smid' = smid
  BY DEF ExpireNotification
<1>1. CASE FreeObservers({r}) /\ sreq' = Forgetting(sreq, {r})
  <2>1. AllMove(sreq')
    BY <1>1, SameMove, ForgettingMoves DEF FitInv
  <2> QED
    BY <1>0, <1>1, <2>1, RequestsQuiet
<1>2. CASE sobs' = [sobs EXCEPT ![r].waiting = FALSE, ![r].sendNow = TRUE] /\ sreq' = sreq
  <2> DEFINE o == [sobs[r] EXCEPT !.waiting = FALSE, !.sendNow = TRUE]
  <2>2. Watch(sobs[r], r) /\ IsArray(sobs)
    BY DEF FitInv, AllWatch
  <2>3. sobs' = [sobs EXCEPT ![r] = o]
    BY <1>2, <2>2 DEF IsArray, Watch, HasFields
  <2>4. Watch(o, r) /\ o.mid = sobs[r].mid
    BY <2>2 DEF Watch, HasFields, ObserverFields
  <2> HIDE DEF o
  <2>5. AllWatch(sobs') /\ \A s \in Request : sobs'[s].mid = sobs[s].mid
    BY <2>3, <2>4, OneWatches DEF FitInv
  <2>6. AllMove(sreq')
    BY <1>2, SameMove DEF FitInv
  <2> QED
    BY <1>0, <2>5, <2>6 DEF Quiet, FitInv
<1> QED
  BY <1>1, <1>2 DEF ExpireNotification
-----------------------------------------------------------------------------
(* What the server receives. *)

(* A step that gives the response to x an id that was never used. *)
Started(x) ==
  /\ IsArray(sreq') /\ AllWatch(sobs')
  /\ \A r \in Request : r # x => Moves(sreq[r], sreq'[r], r)
  /\ x \in Request /\ Fits(sreq'[x], x) /\ sreq'[x].resp.mid = smid + 1
  /\ Enters(sreq[x], sreq'[x], x)
  /\ smid' = smid + 1
  /\ \A r \in Request : sobs'[r].mid \in {0, sobs[r].mid}

(* What the client says in a request. *)
Sensible(m) == OwnSize(m.b2) /\ (m.obs = 0 => m.token \in Observing)

LEMMA TakenMoves ==
  ASSUME NEW q, NEW r, Fits(q, r), q.state = "REQUEST", NEW m, OwnSize(m.b2), Handed(r)
  PROVE  Moves(q, Taken(q, m), r) /\ Taken(q, m).resp = q.resp
<1> DEFINE more == HasBlock(m.b1) /\ m.b1.more
           chunk == [q EXCEPT !.b1 = m.b1, !.mid = m.mid, !.body = q.body \o m.pay,
                              !.continue = q.continue \/ more]
           only == [q EXCEPT !.body = IF m.pay = <<>> THEN q.body ELSE m.pay]
           new == IF HasBlock(m.b1) THEN chunk ELSE only
           state == IF more THEN "REQUEST" ELSE "USER"
           asked == IF HasBlock(m.b2) THEN m.b2 ELSE new.b2req
           n == [new EXCEPT !.b2req = asked, !.state = state]
<1>1. /\ HasFields(chunk, FitFields) /\ HasFields(only, FitFields)
      /\ chunk.resp = q.resp /\ only.resp = q.resp /\ chunk.isObs = q.isObs
      /\ only.isObs = q.isObs /\ chunk.b2req = q.b2req /\ only.b2req = q.b2req
  <2> HIDE DEF more
  <2> QED
    BY DEF Fits, HasFields, FitFields
<1>2. HasFields(new, FitFields) /\ new.resp = q.resp /\ new.isObs = q.isObs
        /\ new.b2req = q.b2req
  <2> HIDE DEF chunk, only
  <2> QED
    BY <1>1
<1>3. Taken(q, m) = n
  BY DEF Taken
<1>4. state \in {"REQUEST", "USER"} /\ asked \in {m.b2, q.b2req}
  BY <1>2
<1> HIDE DEF new, state, asked
<1>5. HasFields(n, FitFields) /\ n.resp = q.resp /\ n.isObs = q.isObs /\ n.b2req = asked
        /\ n.state = state
  BY <1>2 DEF HasFields, FitFields
<1> HIDE DEF n
<1>6. Fits(n, r) /\ Steady(q, n) /\ Enters(q, n, r)
  BY <1>4, <1>5 DEF Fits, Steady, Alive, Enters
<1> QED
  BY <1>3, <1>5, <1>6 DEF Moves

LEMMA DataMoves ==
  ASSUME NEW reqs, IsArray(reqs), NEW m, m.token \in Request,
         \A r \in Request : r # m.token => Moves(sreq[r], reqs[r], r),
         Fits(reqs[m.token], m.token), reqs[m.token].state = "REQUEST",
         Begun(reqs[m.token]) \/ reqs[m.token] = sreq[m.token],
         OwnSize(m.b2), m \in Arriving("server", sup), Asks(m),
         NEW mid \in Nat, Data(reqs, m, mid)
  PROVE  /\ IsArray(sreq')
         /\ \A r \in Request : r # m.token => Moves(sreq[r], sreq'[r], r)
         /\ Moves(reqs[m.token], sreq'[m.token], m.token)
         /\ smid' \in {mid, mid + 1}
         /\ sreq'[m.token].state \in Alive =>
              smid' = mid /\ sreq'[m.token].resp = reqs[m.token].resp
<1> DEFINE x == m.token
           q == reqs[x]
           n == [reqs EXCEPT ![x] = Discarded(q)]
<1>1. CASE SetRequests(n) /\ MakeError(m, Refusal(q, m), mid)
  <2>1. sreq' = [r \in Request |-> Settled(n[r])]
    BY <1>1 DEF SetRequests
  <2>2. Moves(q, Discarded(q), x) /\ Discarded(q).state = "DONE"
    BY FlagsMove DEF Discarded, Fits, HasFields, FitFields
  <2>3. Moves(q, Settled(Discarded(q)), x) /\ Settled(Discarded(q)).state \notin Alive
    <3>1. Settled(Discarded(q)) \in {Absent, Discarded(q)}
      BY DEF Settled
    <3> QED
      BY <2>2, <3>1, SettledMoves, AbsentFits DEF Alive
  <2>4. n[x] = Discarded(q) /\ \A r \in Request : r # x => n[r] = reqs[r]
    BY DEF IsArray
  <2> HIDE DEF n, q
  <2>5. IsArray(sreq') /\ \A r \in Request : r # x => Moves(sreq[r], sreq'[r], r)
    BY <2>1, <2>4, SettledMoves DEF IsArray
  <2>6. smid' \in {mid, mid + 1}
    BY <1>1 DEF MakeError
  <2>7. sreq'[x] = Settled(Discarded(q))
    BY <2>1, <2>4
  <2> QED
    BY <2>3, <2>5, <2>6, <2>7 DEF q
<1>2. CASE /\ Refusal(q, m) = "NONE"
           /\ sreq' = [reqs EXCEPT ![x] = Taken(q, m)] /\ smid' = mid
  <2>2. sreq'[x] = Taken(q, m) /\ \A r \in Request : r # x => sreq'[r] = reqs[r]
    BY <1>2 DEF IsArray
  <2>4. Handed(x)
    BY <1>2, <2>2 DEF Handed
  <2>1. Moves(q, Taken(q, m), x) /\ Taken(q, m).resp = q.resp
    BY <2>4, TakenMoves
  <2>3. IsArray(sreq')
    BY <1>2 DEF IsArray
  <2> QED
    BY <1>2, <2>1, <2>2, <2>3
<1> QED
  BY <1>1, <1>2 DEF Data

LEMMA ErrorQuiet ==
  ASSUME FitInv, UNCHANGED <<sreq, sobs>>, smid' \in {smid, smid + 1}
  PROVE  Quiet
<1>1. AllMove(sreq')
  BY SameMove DEF FitInv
<1> QED
  BY <1>1 DEF Quiet, FitInv

LEMMA FirstMessageFits ==
  ASSUME FitInv, NEW m \in Arriving("server", sup), m.token \in Request, Sensible(m), FirstMessage(m)
  PROVE  Quiet \/ Started(m.token)
<1>1. CASE NewServerRequest(m)
  <2> DEFINE x == m.token
             ends == {r \in {m.token} : m.obs = 1 /\ sobs[r].on /\ sobs[r].conn}
             q == [Absent EXCEPT !.state = "REQUEST", !.conn = TRUE, !.type = m.type,
                                 !.mid = m.mid, !.isObs = m.obs = 0, !.resp.mid = smid + 1]
             reqs == [Forgetting(sreq, ends) EXCEPT ![m.token] = q]
  <2>1. FreeObservers(ends) /\ Data(reqs, m, smid + 1)
    BY <1>1 DEF NewServerRequest
  <2>2. Fits(q, x) /\ q.state = "REQUEST" /\ q.resp.mid = smid + 1 /\ Begun(q)
    <3> DEFINE obs == m.obs = 0
               e == [Absent EXCEPT !.state = "REQUEST", !.conn = TRUE, !.type = m.type,
                                   !.mid = m.mid, !.isObs = obs, !.resp.mid = smid + 1]
    <3>0. q = e
      OBVIOUS
    <3> HIDE DEF obs
    <3>1. /\ HasFields(e, FitFields) /\ e.b2req = NoBlock /\ e.isObs = obs /\ Begun(e)
          /\ e.state = "REQUEST" /\ e.resp = [NoAnswer EXCEPT !.mid = smid + 1]
      BY DEF Absent, HasFields, FitFields, ServedFields, Begun
    <3>2. /\ HasFields([NoAnswer EXCEPT !.mid = smid + 1], ReplyFields)
          /\ [NoAnswer EXCEPT !.mid = smid + 1].szx = ServerSzx
          /\ [NoAnswer EXCEPT !.mid = smid + 1].body = <<>>
          /\ [NoAnswer EXCEPT !.mid = smid + 1].mid = smid + 1
      BY DEF NoAnswer, HasFields, ReplyFields
    <3>3. obs => x \in Observing
      BY DEF Sensible, obs
    <3> HIDE DEF q, e
    <3>4. Fits(e, x)
      BY <3>1, <3>2, <3>3, NoBlockPlace DEF Fits, OwnSize
    <3> QED
      BY <3>0, <3>1, <3>2, <3>4
  <2> HIDE DEF q, ends
  <2>3. AllMove(Forgetting(sreq, ends))
    BY SameMove, ForgettingMoves DEF FitInv
  <2>4. IsArray(reqs) /\ reqs[x] = q
          /\ \A r \in Request : r # x => Moves(sreq[r], reqs[r], r)
    BY <2>3 DEF AllMove, IsArray
  <2>5. smid \in Nat /\ smid + 1 \in Nat /\ OwnSize(m.b2) /\ Asks(m)
    BY DEF FitInv, Sensible, FirstMessage
  <2> HIDE DEF reqs
  <2>6. /\ IsArray(sreq')
        /\ \A r \in Request : r # x => Moves(sreq[r], sreq'[r], r)
        /\ Moves(q, sreq'[x], x)
        /\ smid' \in {smid + 1, smid + 1 + 1}
        /\ sreq'[x].state \in Alive => smid' = smid + 1 /\ sreq'[x].resp = q.resp
    BY <2>1, <2>2, <2>4, <2>5, DataMoves
  <2>10. Enters(sreq[x], sreq'[x], x)
    BY <2>2, <2>6 DEF Moves, Enters
  <2>7. AllWatch(sobs') /\ \A r \in Request : sobs'[r].mid \in {0, sobs[r].mid}
    BY <2>1, FreeObserversWatch DEF FitInv
  <2>8. CASE sreq'[x].state \in Alive
    BY <2>2, <2>6, <2>7, <2>8, <2>10 DEF Started, Moves
  <2>9. CASE sreq'[x].state \notin Alive
    <3>1. Moves(sreq[x], sreq'[x], x)
      BY <2>6, <2>9, <2>10 DEF Moves, Steady
    <3> QED
      BY <2>5, <2>6, <2>7, <3>1 DEF Quiet, AllMove
  <2> QED
    BY <2>8, <2>9
<1>2. CASE NoRoom(m)
  <2>1. UNCHANGED <<sreq, sobs>> /\ smid' \in {smid, smid + 1}
    BY <1>2 DEF NoRoom, MakeError, requestVars, observerVars
  <2> QED
    BY <2>1, ErrorQuiet
<1> QED
  BY <1>1, <1>2 DEF FirstMessage

LEMMA FurtherMessageQuiet ==
  ASSUME FitInv, NEW m \in Arriving("server", sup), m.token \in Request, OwnSize(m.b2), FurtherMessage(m)
  PROVE  Quiet
<1> DEFINE x == m.token
<1>1. Data(sreq, m, smid) /\ sreq[x].state = "REQUEST" /\ sobs' = sobs /\ Asks(m)
  BY DEF FurtherMessage, observerVars
<1>2. /\ IsArray(sreq) /\ Fits(sreq[x], x) /\ smid \in Nat
      /\ \A r \in Request : Moves(sreq[r], sreq[r], r)
  BY SameMove DEF FitInv, AllFit, AllMove
<1>3. /\ IsArray(sreq') /\ \A r \in Request : Moves(sreq[r], sreq'[r], r)
      /\ smid' \in {smid, smid + 1}
  BY <1>1, <1>2, DataMoves
<1> QED
  BY <1>1, <1>2, <1>3 DEF Quiet, AllMove, FitInv

LEMMA NextBlockFits ==
  ASSUME FitInv, NEW m, m.token \in Request, OwnSize(m.b2), NextBlock(m)
  PROVE  Quiet \/ Started(m.token)
<1> DEFINE x == m.token
           q == sreq[x]
           resp == [q.resp EXCEPT !.cur = m.b2.num, !.szx = m.b2.szx, !.mid = smid + 1,
                                  !.sendNow = TRUE, !.waiting = FALSE, !.retrans = 0]
           n == [q EXCEPT !.mid = m.mid, !.resp = resp]
<1>1. Fits(q, x) /\ sobs' = sobs /\ q.state = "RESPONSE" /\ HasBlock(m.b2)
  BY DEF NextBlock, FitInv, AllFit, observerVars
<1>2. CASE SetRequest(x, Over(q)) /\ smid' \in {smid, smid + 1}
  <2>1. AllMove(sreq')
    BY <1>1, <1>2, FlagsMove, SetRequestMoves DEF FitInv
  <2> QED
    BY <1>1, <1>2, <2>1 DEF Quiet, FitInv
<1>3. CASE SetRequest(x, n) /\ smid' = smid + 1
  <2>1. /\ HasFields(resp, ReplyFields) /\ resp.code = q.resp.code /\ resp.body = q.resp.body
        /\ resp.szx = ServerSzx /\ resp.mid = smid + 1
    BY <1>1 DEF Fits, HasFields, ReplyFields, OwnSize
  <2> HIDE DEF resp
  <2>2. /\ HasFields(n, FitFields) /\ n.resp = resp /\ n.b2req = q.b2req /\ n.isObs = q.isObs
        /\ n.state = "RESPONSE"
    BY <1>1 DEF Fits, HasFields, FitFields
  <2> HIDE DEF n, q
  <2>3. Fits(n, x)
    BY <1>1, <2>1, <2>2 DEF Fits
  <2>4. Settled(n) = n
    BY <2>2 DEF Settled
  <2>5. sreq' = [r \in Request |-> Settled([sreq EXCEPT ![x] = n][r])]
    BY <1>3 DEF SetRequest, SetRequests
  <2>6. [sreq EXCEPT ![x] = n][x] = n
          /\ \A r \in Request : r # x => [sreq EXCEPT ![x] = n][r] = sreq[r]
    BY DEF FitInv, AllFit, IsArray
  <2>7. IsArray(sreq') /\ sreq'[x] = n
          /\ \A r \in Request : r # x => sreq'[r] = Settled(sreq[r])
    BY <2>4, <2>5, <2>6 DEF IsArray
  <2>8. \A r \in Request : Moves(sreq[r], Settled(sreq[r]), r)
    BY FlagsMove, SettledMoves DEF FitInv, AllFit
  <2> QED
    BY <1>1, <1>3, <2>1, <2>2, <2>3, <2>7, <2>8 DEF Started, FitInv, Enters, q
<1>4. \/ SetRequest(x, Over(q)) /\ smid' \in {smid, smid + 1}
      \/ SetRequest(x, n) /\ smid' = smid + 1
  BY DEF NextBlock, MakeError
<1> QED
  BY <1>2, <1>3, <1>4

LEMMA AckResponseQuiet ==
  ASSUME FitInv, NEW m, AckResponse(m)
  PROVE  Quiet
<1>1. UNCHANGED <<sobs, smid>>
  BY DEF AckResponse, observerVars
<1>2. PICK r \in Request :
        LET q == [sreq[r] EXCEPT !.resp.waiting = FALSE]
        IN  SetRequest(r, IF LastBlock(q.resp) THEN Over(q) ELSE [q EXCEPT !.resp.retrans = 0])
  BY DEF AckResponse, Matched
<1> DEFINE q == [sreq[r] EXCEPT !.resp.waiting = FALSE]
           n == [q EXCEPT !.resp.retrans = 0]
<1>3. Fits(sreq[r], r)
  BY DEF FitInv, AllFit
<1>4. Moves(sreq[r], q, r) /\ q.state = sreq[r].state
  <2>1. /\ HasFields(q, FitFields)
        /\ q.b2req = sreq[r].b2req /\ q.isObs = sreq[r].isObs /\ q.state = sreq[r].state
    BY <1>3 DEF Fits, HasFields, FitFields
  <2>2. /\ HasFields(q.resp, ReplyFields)
        /\ q.resp.code = sreq[r].resp.code /\ q.resp.body = sreq[r].resp.body
        /\ q.resp.cur = sreq[r].resp.cur /\ q.resp.szx = sreq[r].resp.szx
        /\ q.resp.mid = sreq[r].resp.mid
    BY <1>3 DEF Fits, HasFields, FitFields, ReplyFields
  <2> HIDE DEF q
  <2> QED
    BY <1>3, <2>1, <2>2, RetainedMoves
<1>5. Fits(q, r)
  BY <1>4 DEF Moves
<1>6. Moves(q, n, r) /\ Moves(q, Over(q), r)
  <2> HIDE DEF q
  <2>1. /\ HasFields(n, FitFields)
        /\ n.b2req = q.b2req /\ n.isObs = q.isObs /\ n.state = q.state
    BY <1>5 DEF Fits, HasFields, FitFields
  <2>2. /\ HasFields(n.resp, ReplyFields)
        /\ n.resp.code = q.resp.code /\ n.resp.body = q.resp.body
        /\ n.resp.cur = q.resp.cur /\ n.resp.szx = q.resp.szx
        /\ n.resp.mid = q.resp.mid
    BY <1>5 DEF Fits, HasFields, FitFields, ReplyFields
  <2> HIDE DEF n
  <2>3. Moves(q, n, r)
    BY <1>5, <2>1, <2>2, RetainedMoves
  <2> QED
    BY <1>5, <2>3, FlagsMove
<1>7. SetRequest(r, Over(q)) \/ SetRequest(r, n)
  BY <1>2
<1> HIDE DEF q, n
<1>8. Moves(sreq[r], n, r) /\ Moves(sreq[r], Over(q), r)
  <2>1. \A x : Moves(sreq[r], q, r) /\ Moves(q, x, r) => Steady(sreq[r], x)
    BY DEF Moves, Steady, Alive
  <2>2. \A x : Moves(q, x, r) => Enters(sreq[r], x, r)
    BY <1>4 DEF Moves, Enters
  <2> QED
    BY <1>4, <1>6, <2>1, <2>2 DEF Moves
<1>9. AllMove(sreq')
  BY <1>7, <1>8, SetRequestMoves DEF FitInv
<1> QED
  BY <1>1, <1>9, RequestsQuiet

LEMMA AckNotificationQuiet ==
  ASSUME FitInv, NEW m, AckNotification(m)
  PROVE  Quiet
<1>1. PICK r \in Request : /\ sobs' = [sobs EXCEPT ![r] = Promoted(@)]
                           /\ smid' = IF sobs[r].pending = {} THEN smid ELSE smid + 1
  BY DEF AckNotification, MatchedObserver
<1> DEFINE o == sobs[r]
           idle == [o EXCEPT !.sendNow = FALSE, !.waiting = FALSE]
           current == Current(idle, CHOOSE v \in o.pending : TRUE, smid + 1)
           next == [current EXCEPT !.pending = {}]
<1>2. Watch(o, r) /\ IsArray(sobs) /\ smid \in Nat
  BY DEF FitInv, AllWatch
<1>3. Watch(idle, r) /\ idle.mid = o.mid
  BY <1>2 DEF Watch, HasFields, ObserverFields
<1> HIDE DEF idle
<1>4. Watch(current, r) /\ current.mid = smid + 1
  BY <1>3, CurrentWatch
<1> HIDE DEF current
<1>5. Watch(next, r) /\ next.mid = smid + 1
  BY <1>4 DEF Watch, HasFields, ObserverFields
<1>6. sobs' = [sobs EXCEPT ![r] = Promoted(sobs[r])]
  BY <1>1, <1>2 DEF IsArray
<1>7. Promoted(o) = IF o.pending = {} THEN idle ELSE next
  BY DEF Promoted, idle, current
<1> HIDE DEF next
<1>8. Watch(Promoted(o), r)
  BY <1>3, <1>5, <1>7
<1>9. /\ AllWatch(sobs') /\ sobs'[r] = Promoted(o)
      /\ \A s \in Request : s # r => sobs'[s] = sobs[s]
  BY <1>6, <1>8, OneWatches DEF FitInv
<1>10. smid' \in Nat /\ smid <= smid'
  BY <1>1, <1>2
<1>11. Promoted(o).mid \in {0, o.mid} \cup NewMids
  BY <1>1, <1>2, <1>3, <1>5, <1>7 DEF NewMids
<1>12. AllMove(sreq')
  BY SameMove DEF FitInv, AckNotification, requestVars
<1> HIDE DEF o
<1>13. \A s \in Request : sobs'[s].mid \in {0, sobs[s].mid} \cup NewMids
  BY <1>9, <1>11 DEF o
<1> QED
  BY <1>9, <1>10, <1>12, <1>13 DEF Quiet

LEMMA ResetQuiet ==
  ASSUME FitInv, NEW m, ResetResponse(m) \/ ResetNotification(m)
  PROVE  Quiet
<1>1. CASE ResetResponse(m)
  <2>1. PICK r \in Request : SetRequest(r, Over(sreq[r]))
    BY <1>1 DEF ResetResponse, Matched
  <2>2. Moves(sreq[r], Over(sreq[r]), r)
    BY FlagsMove DEF FitInv, AllFit
  <2>3. AllMove(sreq')
    BY <2>1, <2>2, SetRequestMoves DEF FitInv
  <2>4. UNCHANGED <<sobs, smid>>
    BY <1>1 DEF ResetResponse, observerVars
  <2> QED
    BY <2>3, <2>4, RequestsQuiet
<1>2. CASE ResetNotification(m)
  <2>1. PICK gone : FreeObservers(gone) /\ sreq' = Forgetting(sreq, gone) /\ smid' = smid
    BY <1>2 DEF ResetNotification
  <2>2. AllMove(sreq')
    BY <2>1, SameMove, ForgettingMoves DEF FitInv
  <2> QED
    BY <2>1, <2>2, RequestsQuiet
<1> QED
  BY <1>1, <1>2

LEMMA DuplicateQuiet ==
  ASSUME FitInv, NEW m, Duplicate(m)
  PROVE  Quiet
<1>1. UNCHANGED <<sobs, smid>>
  BY DEF Duplicate, observerVars
<1>2. AllMove(sreq')
  <2>1. CASE sreq' = sreq
    BY <2>1, SameMove DEF FitInv
  <2>2. CASE sreq' = [sreq EXCEPT ![m.token].continue = TRUE]
    <3>1. sreq' = [sreq EXCEPT ![m.token] = [sreq[m.token] EXCEPT !.continue = TRUE]]
      BY <2>2 DEF FitInv, AllFit, IsArray
    <3>2. m.token \in Request =>
            Moves(sreq[m.token], [sreq[m.token] EXCEPT !.continue = TRUE], m.token)
      BY FlagsMove DEF FitInv, AllFit
    <3> QED
      BY <3>1, <3>2, SameMove, UpdateMoves DEF FitInv
  <2> QED
    BY <2>1, <2>2 DEF Duplicate
<1> QED
  BY <1>1, <1>2, RequestsQuiet

LEMMA PacketFits ==
  ASSUME FitInv, NEW m \in Arriving("server", sup), ServerHandles(m),
         m.type \in {"CON", "NON"} => m.token \in Request /\ Sensible(m)
  PROVE  Quiet \/ \E x : Started(x)
<1>1. Asks(m) => m.token \in Request /\ Sensible(m) /\ OwnSize(m.b2)
  BY DEF Asks, Sensible
<1>2. CASE BadOption(m)
  <2>1. UNCHANGED <<sreq, sobs>> /\ smid' \in {smid, smid + 1}
    BY <1>2 DEF BadOption, MakeError, requestVars, observerVars
  <2> QED
    BY <2>1, ErrorQuiet
<1>3. CASE FirstMessage(m)
  BY <1>1, <1>3, FirstMessageFits DEF FirstMessage
<1>4. CASE FurtherMessage(m)
  BY <1>1, <1>4, FurtherMessageQuiet DEF FurtherMessage
<1>5. CASE NextBlock(m)
  BY <1>1, <1>5, NextBlockFits DEF NextBlock
<1>6. CASE Ignored(m) \/ Unmatched(m)
  <2>1. UNCHANGED <<sreq, sobs>> /\ smid' \in {smid, smid + 1}
    BY <1>6 DEF Ignored, Unmatched, serverVars
  <2> QED
    BY <2>1, ErrorQuiet
<1> QED
  BY <1>2, <1>3, <1>4, <1>5, <1>6, DuplicateQuiet, AckResponseQuiet, AckNotificationQuiet,
     ResetQuiet DEF ServerHandles

LEMMA ServerFits ==
  ASSUME FitInv, ObserverList, Distinct(soorder), ServerNext,
         \A m \in Arriving("server", sup) :
           m.type \in {"CON", "NON"} => m.token \in Request /\ Sensible(m)
  PROVE  Quiet \/ \E x : Started(x)
<1>1. ASSUME NEW r \in Request,
             Respond(r) \/ FreeRequest(r) \/ AcceptObserve(r) \/ RemoveObserver(r)
      PROVE  Quiet
  BY <1>1, RespondQuiet, FreeRequestQuiet, AcceptObserveQuiet, RemovalsQuiet
<1> QED
  BY <1>1, RemovalsQuiet, NotifyQuiet, ServerLoopQuiet, PacketFits DEF ServerNext

LEMMA ServerDistinct ==
  ASSUME ObserverList, Distinct(soorder),
         ServerNext \/ \E r \in Request : ExpireRequest(r) \/ ExpireNotification(r)
  PROVE  Distinct(soorder')
<1> DEFINE S == {r \in Request : sobs[r].on}
<1>1. soorder \in Seq(S)
  BY DEF ObserverList
<1>2. ASSUME NEW r \in Request, AcceptObserve(r) PROVE Distinct(soorder')
  <2>1. Without(soorder, {r}) \in Seq(S \ {r}) /\ Distinct(Without(soorder, {r}))
    <3> DEFINE gone == {r}
    <3> HIDE DEF gone, S
    <3>1. Without(soorder, gone) \in Seq(S \ gone) /\ Distinct(Without(soorder, gone))
      BY <1>1, WithoutKeeps, WithoutDistinct
    <3> QED
      BY <3>1 DEF gone
  <2>2. soorder' = <<r>> \o Without(soorder, {r}) /\ r \notin S \ {r}
    BY <1>2 DEF AcceptObserve
  <2> HIDE DEF S
  <2> QED
    BY <2>1, <2>2, FrontDistinct
<1>3. CASE \E gone : FreeObservers(gone)
  BY <1>1, <1>3, WithoutDistinct DEF FreeObservers
<1>4. CASE soorder' = soorder
  BY <1>4
<1>5. \/ soorder' = soorder \/ \E gone : FreeObservers(gone)
      \/ \E r \in Request : AcceptObserve(r)
  <2>1. ASSUME NEW r \in Request, ExpireRequest(r) \/ ExpireNotification(r)
        PROVE  soorder' = soorder \/ \E gone : FreeObservers(gone)
    BY <2>1 DEF ExpireRequest, ExpireNotification, observerVars
  <2>2. ASSUME NEW m, ServerHandles(m)
        PROVE  soorder' = soorder \/ \E gone : FreeObservers(gone)
    BY <2>2 DEF ServerHandles, BadOption, Duplicate, FirstMessage, NewServerRequest, NoRoom,
         FurtherMessage, NextBlock, Ignored, AckResponse, AckNotification, ResetResponse,
         ResetNotification, Unmatched, observerVars, serverVars
  <2>3. CASE ServerLoop \/ Notify
    BY <2>3 DEF ServerLoop, SendError, SendAck, SendRst, SendContinue, SendResponse,
         SendNotification, Notify, observerVars
  <2>4. ASSUME NEW r \in Request, Respond(r) \/ FreeRequest(r) \/ RemoveObserver(r)
        PROVE  soorder' = soorder \/ \E gone : FreeObservers(gone)
    BY <2>4 DEF Respond, FreeRequest, RemoveObserver, observerVars
  <2>5. ASSUME NEW c \in Conn, RemoveServerConnection(c)
        PROVE  soorder' = soorder \/ \E gone : FreeObservers(gone)
    BY <2>5 DEF RemoveServerConnection
  <2> QED
    BY <2>1, <2>2, <2>3, <2>4, <2>5 DEF ServerNext
<1> QED
  BY <1>2, <1>3, <1>4, <1>5
-----------------------------------------------------------------------------
(* What the server says. *)

(* An error, an acknowledgement or a reset. *)
Terse(m) ==
  m.to = "client" /\ m.type # "CON" /\ m.b1 = NoBlock /\ m.b2 = NoBlock /\ m.pay = <<>>

TerseInv == \A m \in Replies : Terse(m)

LEMMA EmptyTerse ==
  ASSUME NEW mid, NEW conn
  PROVE  /\ Terse(EmptyMessage("client", "ACK", mid, conn))
         /\ Terse(EmptyMessage("client", "RST", mid, conn))
BY DEF Terse, EmptyMessage, Message

LEMMA QueueTerse ==
  ASSUME NEW slot, NEW m, \A x \in slot : Terse(x), Terse(m)
  PROVE  \A x \in Queue(slot, m) : Terse(x)
BY DEF Queue

LEMMA ErrorTerse ==
  ASSUME NEW m, NEW code, NEW mid, MakeError(m, code, mid), \A x \in serr : Terse(x)
  PROVE  \A x \in serr' : Terse(x)
<1> DEFINE e == [Message("client", "ACK", code, m.mid, m.conn, m.token) EXCEPT
                   !.type = IF Confirmable(m) THEN "ACK" ELSE "NON",
                   !.mid = IF Confirmable(m) THEN @ ELSE mid + 1]
<1>1. serr' = Queue(serr, e)
  BY DEF MakeError
<1>2. Terse(e)
  <2> DEFINE type == IF Confirmable(m) THEN "ACK" ELSE "NON"
             id == IF Confirmable(m) THEN m.mid ELSE mid + 1
  <2>1. type # "CON" /\ e = [Message("client", "ACK", code, m.mid, m.conn, m.token) EXCEPT
                               !.type = type, !.mid = id]
    BY DEF Message
  <2> HIDE DEF type, id, e
  <2> QED
    BY <2>1 DEF Terse, Message
<1> HIDE DEF e
<1> QED
  BY <1>1, <1>2, QueueTerse

LEMMA DataTerse ==
  ASSUME TerseInv, NEW reqs, NEW m, NEW mid, Data(reqs, m, mid)
  PROVE  (\A x \in serr' : Terse(x)) /\ (\A x \in sack' : Terse(x))
<1>0. (\A x \in serr : Terse(x)) /\ (\A x \in sack : Terse(x))
  BY DEF TerseInv, Replies
<1>1. CASE \E code : MakeError(m, code, mid) /\ sack' = sack
  BY <1>0, <1>1, ErrorTerse
<1>2. CASE serr' = serr /\ sack' \in {sack, Queue(sack, AckFor(m))}
  BY <1>0, <1>2, QueueTerse, EmptyTerse DEF AckFor
<1>3. CASE Refusal(reqs[m.token], m) # "NONE"
  BY <1>1, <1>3 DEF Data
<1>4. CASE Refusal(reqs[m.token], m) = "NONE"
  <2>1. sack' \in {sack, Queue(sack, AckFor(m))} /\ serr' = serr
    BY <1>4 DEF Data
  <2> QED
    BY <1>2, <2>1
<1> QED
  BY <1>3, <1>4

LEMMA PacketTerse ==
  ASSUME TerseInv, NEW m, ServerHandles(m)
  PROVE  TerseInv'
<1>0. /\ \A x \in serr : Terse(x)
      /\ \A x \in sack : Terse(x)
      /\ \A x \in srst : Terse(x)
  BY DEF TerseInv, Replies
<1>1. CASE BadOption(m)
  <2>1. sack' = sack
    BY <1>1 DEF BadOption
  <2>2. CASE MakeError(m, "BAD_OPTION", smid) /\ srst' = srst
    BY <1>0, <2>1, <2>2, ErrorTerse DEF TerseInv, Replies
  <2>3. CASE srst' = Queue(srst, EmptyMessage("client", "RST", m.mid, m.conn)) /\ serr' = serr
    BY <1>0, <2>1, <2>3, QueueTerse, EmptyTerse DEF TerseInv, Replies
  <2> QED
    BY <1>1, <2>2, <2>3 DEF BadOption
<1>2. CASE Duplicate(m)
  <2>1. sack' \in {sack, Queue(sack, AckFor(m))} /\ UNCHANGED <<serr, srst>>
    BY <1>2 DEF Duplicate
  <2> QED
    BY <1>0, <2>1, QueueTerse, EmptyTerse DEF TerseInv, Replies, AckFor
<1>3. CASE FirstMessage(m)
  <2>1. srst' = srst
    BY <1>3 DEF FirstMessage
  <2>2. CASE NewServerRequest(m)
    <3>1. PICK reqs : Data(reqs, m, smid + 1)
      BY <2>2 DEF NewServerRequest
    <3> QED
      BY <1>0, <2>1, <3>1, DataTerse DEF TerseInv, Replies
  <2>3. CASE NoRoom(m)
    <3>1. (\E code : MakeError(m, code, smid)) /\ sack' = sack
      BY <2>3 DEF NoRoom
    <3> QED
      BY <1>0, <2>1, <3>1, ErrorTerse DEF TerseInv, Replies
  <2> QED
    BY <1>3, <2>2, <2>3 DEF FirstMessage
<1>4. CASE FurtherMessage(m)
  BY <1>0, <1>4, DataTerse DEF FurtherMessage, TerseInv, Replies
<1>5. CASE NextBlock(m)
  <2>1. srst' = srst
    BY <1>5 DEF NextBlock
  <2>2. CASE MakeError(m, "BAD_REQUEST", smid) /\ sack' = sack
    BY <1>0, <2>1, <2>2, ErrorTerse DEF TerseInv, Replies
  <2>3. CASE serr' = serr /\ sack' \in {sack, Queue(sack, AckFor(m))}
    BY <1>0, <2>1, <2>3, QueueTerse, EmptyTerse DEF TerseInv, Replies, AckFor
  <2>4. \/ MakeError(m, "BAD_REQUEST", smid) /\ sack' = sack
        \/ serr' = serr /\ sack' \in {sack, Queue(sack, AckFor(m))}
    BY <1>5 DEF NextBlock
  <2> QED
    BY <2>2, <2>3, <2>4
<1>6. CASE UNCHANGED slots
  BY <1>6 DEF slots, TerseInv, Replies
<1>7. \/ BadOption(m) \/ Duplicate(m) \/ FirstMessage(m) \/ FurtherMessage(m) \/ NextBlock(m)
      \/ UNCHANGED slots
  BY DEF ServerHandles, Ignored, AckResponse, AckNotification, ResetResponse, ResetNotification,
     Unmatched, serverVars, slots
<1> QED
  BY <1>1, <1>2, <1>3, <1>4, <1>5, <1>6, <1>7

LEMMA ServerTerse ==
  ASSUME TerseInv,
         ServerNext \/ \E r \in Request : ExpireRequest(r) \/ ExpireNotification(r)
  PROVE  TerseInv'
<1>1. CASE Replies' \subseteq Replies
  BY <1>1 DEF TerseInv
<1>2. \/ Replies' \subseteq Replies
      \/ \E m \in Arriving("server", sup) : ServerHandles(m)
  <2>1. ASSUME NEW r \in Request,
               Respond(r) \/ FreeRequest(r) \/ AcceptObserve(r) \/ RemoveObserver(r)
                 \/ ExpireRequest(r) \/ ExpireNotification(r)
        PROVE  Replies' \subseteq Replies
    BY <2>1 DEF Respond, FreeRequest, AcceptObserve, RemoveObserver, ExpireRequest,
         ExpireNotification, slots, Replies
  <2>2. ASSUME NEW c \in Conn, RemoveServerConnection(c) PROVE Replies' \subseteq Replies
    BY <2>2 DEF RemoveServerConnection, Replies
  <2>3. CASE ServerLoop \/ Notify
    BY <2>3 DEF ServerLoop, SendError, SendAck, SendRst, SendContinue, SendResponse,
         SendNotification, Notify, slots, Replies
  <2> QED
    BY <2>1, <2>2, <2>3 DEF ServerNext
<1> QED
  BY <1>1, <1>2, PacketTerse

(* A response that takes more than one block. *)
Long(r) == RespLen[r] > Size(ServerSzx)

(* A long response is sent in blocks, and only the last block completes it. *)
Blocked(m) ==
  /\ HasBlock(m.b2) => Long(m.token)
  /\ Long(m.token) /\ ~HasBlock(m.b2) => m.pay = <<>>
  /\ HasBlock(m.b2) /\ m.b2.more = TRUE => Place(m) + Len(m.pay) < RespLen[m.token]
  /\ HasBlock(m.b2) /\ m.b2.more = FALSE => ~HasBlock(m.b1)

(* The message is the response to r as it is now. *)
Speaks(m, r) ==
  /\ m.token = r /\ m.code = sreq[r].resp.code
  /\ LastBlock(sreq[r].resp) => m.b2.more = FALSE

(* It is sent by a server whose handler has been given the request. *)
Shows(m) == HasBlock(m.b2) \/ (HasBlock(m.b1) /\ m.b1.more = FALSE)

Tells(m) ==
  /\ m.to = "client" /\ OwnSize(m.b2)
  /\ Shows(m) => m.token \in Request /\ sreq[m.token].state \in {"USER", "RESPONSE"}
  /\ m.token \in Request \ Observing => Blocked(m)
  /\ m.type = "CON" =>
       \/ \E r \in Request : /\ sreq[r].state = "RESPONSE" /\ m.mid = sreq[r].resp.mid
                             /\ Speaks(m, r)
       \/ \E r \in Request : m.mid = sobs[r].mid

LEMMA ShortTells ==
  ASSUME NEW m, m.to = "client", m.type # "CON", m.b1 = NoBlock, m.b2 = NoBlock, m.pay = <<>>
  PROVE  Tells(m)
BY NoBlockPlace DEF Tells, OwnSize, Blocked, Shows

LEMMA ContinueTells ==
  ASSUME NEW r \in Request, Served(sreq[r], r), Continues(r)
  PROVE  Tells(ContinuePacket(r))
<1> DEFINE m == ContinuePacket(r)
<1>1. /\ m.to = "client" /\ m.type = "ACK" /\ m.b2 = NoBlock /\ m.pay = <<>>
      /\ m.token = r /\ m.b1 = sreq[r].b1
  BY DEF ContinuePacket, Message
<1> HIDE DEF m
<1>3. ASSUME Shows(m) PROVE sreq[r].state \in {"USER", "RESPONSE"}
  <2>1. m.b1.more = FALSE
    BY <1>1, <1>3, NoBlockPlace DEF Shows
  <2> QED
    BY <1>1, <2>1 DEF Served, Receiving, Continues
<1>2. Tells(m)
  BY <1>1, <1>3, NoBlockPlace DEF Tells, OwnSize, Blocked
<1> QED
  BY <1>2 DEF m

LEMMA NotificationTells ==
  ASSUME NEW r \in Request, Watch(sobs[r], r), sobs[r].on
  PROVE  Tells(NotificationPacket(r))
<1> DEFINE m == NotificationPacket(r)
<1>1. /\ m.to = "client" /\ m.b1 = NoBlock /\ m.b2 = NoBlock /\ m.token = r
      /\ m.mid = sobs[r].mid
  BY DEF NotificationPacket, Message
<1>2. r \in Observing
  BY DEF Watch
<1> HIDE DEF m
<1>3. Tells(m)
  BY <1>1, <1>2, NoBlockPlace DEF Tells, OwnSize, Shows
<1> QED
  BY <1>3 DEF m

LEMMA ResponseTells ==
  ASSUME NEW r \in Request, Fits(sreq[r], r), Served(sreq[r], r), sreq[r].state = "RESPONSE"
  PROVE  Tells(ResponsePacket(r))
<1> DEFINE a == sreq[r].resp
           size == Size(a.szx)
           at == a.cur * size
           len == Len(a.body)
           m == ResponsePacket(r)
<1>1. /\ m.to = "client" /\ m.token = r /\ m.code = a.code /\ m.mid = a.mid
      /\ m.b2 = IF len > size THEN [num |-> a.cur, more |-> len - at > size, szx |-> a.szx]
                              ELSE NoBlock
      /\ m.b1 = IF at = 0 THEN sreq[r].b1 ELSE NoBlock
      /\ m.pay = BlockOf(a.body, a.cur, a.szx)
  BY DEF ResponsePacket, Message
<1>0. LastBlock(a) <=> (a.cur + 1) * size >= len
  BY DEF LastBlock
<1> HIDE DEF m
<1>2. Answering(a, r)
  BY DEF Served, Holding
<1>3. /\ a.szx \in Szx /\ a.cur \in Nat /\ Piece(a.body, 0) /\ a.szx = ServerSzx
      /\ a.body = <<>> \/ len = RespLen[r]
      /\ a.cur = 0 \/ at < len
  BY <1>2 DEF Answering, Fits
<1>12. sreq[r].state = "RESPONSE" /\ Speaks(m, r) <=>
         (m.token = r /\ m.code = a.code /\ (LastBlock(a) => m.b2.more = FALSE))
  BY DEF Speaks
<1>13. a.mid = sreq[r].resp.mid
  OBVIOUS
<1> HIDE DEF a
<1>4. /\ at \in Nat /\ size \in Nat /\ size > 0 /\ (a.cur > 0 => at >= size)
      /\ (a.cur = 0 => at = 0) /\ (a.cur + 1) * size = at + size
  BY <1>3, Products, SizePositive
<1>5. a.body \in Seq(Unit) /\ len \in Nat
  BY <1>3 DEF Piece
<1>6. at <= len
  <2> HIDE DEF at, len, size
  <2> QED
    BY <1>3, <1>4, <1>5
<1>7. Long(r) <=> RespLen[r] > size
  BY <1>3 DEF Long
<1>8. m.b2.more = FALSE \/ ~LastBlock(a)
  <2>1. CASE ~(len > size)
    BY <1>1, <2>1, NoBlockPlace
  <2>2. CASE len > size
    <3> DEFINE follows == len - at > size
    <3>1. m.b2.more = follows /\ follows \in BOOLEAN
      BY <1>1, <2>2
    <3>2. ASSUME LastBlock(a) PROVE ~follows
      <4>1. at + size >= len
        BY <1>0, <1>4, <3>2
      <4> HIDE DEF at, len, size
      <4> QED
        BY <1>4, <1>5, <4>1
    <3> HIDE DEF follows, at, len, size
    <3> QED
      BY <3>1, <3>2
  <2> QED
    BY <2>1, <2>2
<1>9. OwnSize(m.b2)
  BY <1>1, <1>3, NoBlockPlace DEF OwnSize
<1>10. Blocked(m)
  <2>1. CASE len > size
    <3>1. /\ m.b2.num = a.cur /\ m.b2.szx = a.szx /\ m.b2.more = (len - at > size)
          /\ len = RespLen[r]
      <4>1. len # 0
        BY <1>4, <1>5, <2>1
      <4>2. a.body = <<>> => len = 0
        OBVIOUS
      <4> QED
        BY <1>1, <1>3, <2>1, <4>1, <4>2
    <3>2. HasBlock(m.b2) /\ Offset(m.b2) = at
      BY <1>3, <3>1 DEF HasBlock, Offset
    <3>3. Place(m) = at
      BY <3>2 DEF Place
    <3>4. Long(m.token)
      BY <1>1, <1>7, <2>1, <3>1
    <3>5. ASSUME m.b2.more = TRUE PROVE Place(m) + Len(m.pay) < RespLen[m.token]
      <4>1. at + size < len
        <5>1. len - at > size
          BY <3>1, <3>5
        <5> HIDE DEF at, len, size
        <5> QED
          BY <1>4, <1>5, <5>1
      <4>2. m.pay = SubSeq(a.body, at + 1, at + size)
        BY <1>1, <4>1 DEF BlockOf
      <4>3. Len(m.pay) = size
        <5> HIDE DEF at, size
        <5> QED
          BY <1>4, <1>5, <4>1, <4>2
      <4> QED
        BY <1>1, <3>1, <3>3, <4>1, <4>3
    <3>6. ASSUME m.b2.more = FALSE PROVE m.b1 = NoBlock
      <4>1. at # 0
        <5>1. ~(len - at > size)
          BY <3>1, <3>6
        <5> HIDE DEF at, len, size
        <5> QED
          BY <1>4, <1>5, <2>1, <5>1
      <4> QED
        BY <1>1, <4>1
    <3> QED
      BY <3>2, <3>4, <3>5, <3>6, NoBlockPlace DEF Blocked
  <2>2. CASE ~(len > size)
    <3>1. m.b2 = NoBlock
      BY <1>1, <2>2
    <3>2. ASSUME Long(r) PROVE m.pay = <<>>
      <4>1. a.body = <<>>
        <5>1. ~(len = RespLen[r])
          <6> HIDE DEF len, size
          <6> QED
            BY <1>7, <2>2, <3>2
        <5> QED
          BY <1>3, <5>1
      <4>2. len = 0
        BY <4>1
      <4>3. a.cur = 0
        BY <1>3, <1>4, <4>2
      <4>4. m.pay = BlockOf(<<>>, 0, a.szx)
        BY <1>1, <4>1, <4>3
      <4>5. BlockOf(<<>>, 0, a.szx) = SubSeq(<<>>, 0 * Size(a.szx) + 1, 0)
        <5>1. 0 * Size(a.szx) = 0
          BY <1>3, Products
        <5>2. ~(0 + Size(a.szx) < Len(<<>>)) /\ Len(<<>>) = 0
          BY <1>4
        <5> QED
          BY <5>1, <5>2 DEF BlockOf
      <4>6. 0 * Size(a.szx) = 0
        BY <1>3, Products
      <4> QED
        BY <4>4, <4>5, <4>6
    <3> QED
      BY <1>1, <3>1, <3>2, NoBlockPlace DEF Blocked
  <2> QED
    BY <2>1, <2>2
<1>11. Speaks(m, r)
  BY <1>1, <1>8, <1>12
<1>14. Tells(m)
  BY <1>1, <1>9, <1>10, <1>11, <1>13 DEF Tells
<1> QED
  BY <1>14 DEF m

(* Whatever the server puts under way. *)
LEMMA ServerTells ==
  ASSUME FitInv, ServedInv, TerseInv, NetInv, peer = "own",
         ServerNext \/ \E r \in Request : (ExpireRequest(r) \/ ExpireNotification(r)) /\ UNCHANGED netVars
  PROVE  \A m \in UnderWay' : m \in UnderWay \/ Tells(m)
<1>0. Carried(peer, net, late)
  BY DEF NetInv
<1>1. ASSUME NEW e, Tells(e), Sends(e) PROVE \A m \in UnderWay' : m \in UnderWay \/ Tells(m)
  BY <1>0, <1>1, SendsUnder
<1>2. CASE UNCHANGED netVars
  BY <1>2 DEF UnderWay, netVars
<1>3. CASE SendError \/ SendAck \/ SendRst
  <2>1. PICK m \in Replies : Sends(m)
    BY <1>3 DEF SendError, SendAck, SendRst, Replies
  <2>2. Tells(m)
    BY ShortTells DEF TerseInv, Terse
  <2> QED
    BY <1>1, <2>1, <2>2
<1>4. CASE SendContinue
  <2>1. PICK r \in Request : SendsOn(sreq[r].conn, ContinuePacket(r)) /\ Continues(r)
    BY <1>4 DEF SendContinue, SendingRequests
  <2>2. Served(sreq[r], r)
    BY DEF ServedInv, AllServed
  <2> QED
    BY <1>1, <1>2, <2>1, <2>2, ContinueTells DEF SendsOn
<1>5. CASE SendResponse
  <2>1. PICK r \in Request : Sends(ResponsePacket(r)) /\ sreq[r].state = "RESPONSE"
    BY <1>5 DEF SendResponse, SendingRequests, Responds
  <2>2. Fits(sreq[r], r) /\ Served(sreq[r], r)
    BY DEF FitInv, AllFit, ServedInv, AllServed
  <2> QED
    BY <1>1, <2>1, <2>2, ResponseTells
<1>6. CASE SendNotification
  <2>1. PICK r \in Request : SendsOn(sobs[r].conn, NotificationPacket(r)) /\ sobs[r].on
    BY <1>6 DEF SendNotification, SendingObservers
  <2>2. Watch(sobs[r], r)
    BY DEF FitInv, AllWatch
  <2> QED
    BY <1>1, <1>2, <2>1, <2>2, NotificationTells DEF SendsOn
<1>7. ASSUME NEW m, ServerHandles(m) PROVE UnderWay' \subseteq UnderWay
  <2>1. Arrives(m)
    BY <1>7 DEF ServerHandles, BadOption, Duplicate, FirstMessage, FurtherMessage, NextBlock,
       Ignored, AckResponse, AckNotification, ResetResponse, ResetNotification, Unmatched
  <2> QED
    BY <1>0, <2>1, ArrivesUnder
<1>8. ASSUME NEW r \in Request,
             Respond(r) \/ FreeRequest(r) \/ AcceptObserve(r) \/ RemoveObserver(r)
      PROVE  UNCHANGED netVars
  BY <1>8 DEF Respond, FreeRequest, AcceptObserve, RemoveObserver
<1>9. ASSUME NEW c \in Conn, RemoveServerConnection(c) PROVE UNCHANGED netVars
  BY <1>9 DEF RemoveServerConnection
<1>10. Notify => UNCHANGED netVars
  BY DEF Notify
<1> QED
  BY <1>2, <1>3, <1>4, <1>5, <1>6, <1>7, <1>8, <1>9, <1>10 DEF ServerNext, ServerLoop
-----------------------------------------------------------------------------
(* The message ids of the server. *)
Numbered ==
  /\ \A r \in Request : sreq[r].state \in Alive => sreq[r].resp.mid \in 1..smid
  /\ \A r, s \in Request :
       sreq[r].state \in Alive /\ sreq[s].state \in Alive /\ r # s =>
         sreq[r].resp.mid # sreq[s].resp.mid
  /\ \A r \in Request : sobs[r].mid \in 0..smid
  /\ \A r, s \in Request : sreq[s].state \in Alive => sobs[r].mid # sreq[s].resp.mid

(* A response that is being sent is the one it was, or has a new id. *)
Later ==
  /\ FitInv' /\ smid <= smid'
  /\ \A r \in Request :
       /\ sreq'[r].state \in Alive => Steady(sreq[r], sreq'[r]) \/ sreq'[r].resp.mid > smid
       /\ Enters(sreq[r], sreq'[r], r)

LEMMA QuietLater ==
  ASSUME FitInv, Numbered, Quiet
  PROVE  Later /\ Numbered'
<1>1. smid \in Nat /\ smid' \in Nat /\ smid <= smid'
  BY DEF FitInv, Quiet
<1>2. \A r \in Request : /\ Fits(sreq'[r], r) /\ Steady(sreq[r], sreq'[r])
                         /\ Enters(sreq[r], sreq'[r], r)
  BY DEF Quiet, AllMove, Moves
<1>3. Later
  BY <1>1, <1>2 DEF Later, FitInv, Quiet, AllFit, AllMove
<1>4. ASSUME NEW r \in Request, sreq'[r].state \in Alive
      PROVE  sreq[r].state \in Alive /\ sreq'[r].resp.mid = sreq[r].resp.mid
               /\ sreq'[r].resp.mid \in 1..smid
  BY <1>2, <1>4 DEF Steady, Numbered
<1>5. ASSUME NEW r \in Request
      PROVE  sobs'[r].mid = 0 \/ sobs'[r].mid = sobs[r].mid \/ sobs'[r].mid \in NewMids
  BY DEF Quiet
<1>6. \A r \in Request : sobs'[r].mid \in 0..smid'
  <2> SUFFICES ASSUME NEW r \in Request PROVE sobs'[r].mid \in 0..smid'
    OBVIOUS
  <2>1. sobs[r].mid \in 0..smid
    BY DEF Numbered
  <2> QED
    BY <1>1, <1>5, <2>1 DEF NewMids
<1>7. ASSUME NEW r \in Request, NEW s \in Request, sreq'[s].state \in Alive
      PROVE  sobs'[r].mid # sreq'[s].resp.mid
  <2>1. sobs[r].mid # sreq[s].resp.mid /\ sreq'[s].resp.mid = sreq[s].resp.mid
          /\ sreq'[s].resp.mid \in 1..smid
    BY <1>4, <1>7 DEF Numbered
  <2> QED
    BY <1>1, <1>5, <2>1 DEF NewMids
<1>8. \A r \in Request : sreq'[r].state \in Alive => sreq'[r].resp.mid \in 1..smid'
  BY <1>1, <1>4
<1>9. \A r, s \in Request :
        sreq'[r].state \in Alive /\ sreq'[s].state \in Alive /\ r # s =>
          sreq'[r].resp.mid # sreq'[s].resp.mid
  BY <1>4 DEF Numbered
<1> QED
  BY <1>3, <1>6, <1>7, <1>8, <1>9 DEF Numbered

LEMMA StartedLater ==
  ASSUME FitInv, Numbered, NEW x, Started(x)
  PROVE  Later /\ Numbered'
<1>1. smid \in Nat /\ smid' = smid + 1 /\ x \in Request /\ sreq'[x].resp.mid = smid + 1
  BY DEF FitInv, Started
<1>2. /\ \A r \in Request : r # x => Fits(sreq'[r], r) /\ Steady(sreq[r], sreq'[r])
      /\ \A r \in Request : Enters(sreq[r], sreq'[r], r)
  BY DEF Started, Moves
<1>3. Later
  <2>1. AllFit(sreq')
    BY <1>2 DEF Started, AllFit
  <2>2. \A r \in Request : Steady(sreq[r], sreq'[r]) \/ sreq'[r].resp.mid > smid
    BY <1>1, <1>2
  <2> QED
    BY <1>1, <1>2, <2>1, <2>2 DEF Later, FitInv, Started
<1>4. ASSUME NEW r \in Request, sreq'[r].state \in Alive, r # x
      PROVE  sreq[r].state \in Alive /\ sreq'[r].resp.mid = sreq[r].resp.mid
               /\ sreq'[r].resp.mid \in 1..smid
  BY <1>2, <1>4 DEF Steady, Numbered
<1>5. \A r \in Request : sobs'[r].mid = 0 \/ sobs'[r].mid = sobs[r].mid
  BY DEF Started
<1>6. \A r \in Request : sobs'[r].mid \in 0..smid
  <2> SUFFICES ASSUME NEW r \in Request PROVE sobs'[r].mid \in 0..smid
    OBVIOUS
  <2>1. sobs[r].mid \in 0..smid
    BY DEF Numbered
  <2> QED
    BY <1>1, <1>5, <2>1
<1>7. ASSUME NEW r \in Request, NEW s \in Request, sreq'[s].state \in Alive
      PROVE  sobs'[r].mid # sreq'[s].resp.mid
  <2>1. CASE s = x
    BY <1>1, <1>6, <2>1
  <2>2. CASE s # x
    <3>1. sobs[r].mid # sreq[s].resp.mid /\ sreq'[s].resp.mid = sreq[s].resp.mid
            /\ sreq'[s].resp.mid \in 1..smid
      BY <1>4, <1>7, <2>2 DEF Numbered
    <3> QED
      BY <1>1, <1>5, <3>1
  <2> QED
    BY <2>1, <2>2
<1>8. ASSUME NEW r \in Request, sreq'[r].state \in Alive PROVE sreq'[r].resp.mid \in 1..smid'
  <2>1. r # x => sreq'[r].resp.mid \in 1..smid
    BY <1>4, <1>8
  <2> QED
    BY <1>1, <2>1
<1>9. ASSUME NEW r \in Request, NEW s \in Request, r # s,
             sreq'[r].state \in Alive, sreq'[s].state \in Alive
      PROVE  sreq'[r].resp.mid # sreq'[s].resp.mid
  <2>1. CASE r # x /\ s # x
    BY <1>4, <1>9, <2>1 DEF Numbered
  <2>2. CASE r = x
    <3>1. sreq'[s].resp.mid \in 1..smid
      BY <1>4, <1>9, <2>2
    <3> QED
      BY <1>1, <2>2, <3>1
  <2>3. CASE s = x
    <3>1. sreq'[r].resp.mid \in 1..smid
      BY <1>4, <1>9, <2>3
    <3> QED
      BY <1>1, <2>3, <3>1
  <2> QED
    BY <2>1, <2>2, <2>3
<1>10. \A r \in Request : sobs'[r].mid \in 0..smid'
  BY <1>1, <1>6
<1> QED
  BY <1>3, <1>7, <1>8, <1>9, <1>10 DEF Numbered

(* What the messages under way say of the responses. *)
Names(m, r) == sreq[r].state \in Alive /\ sreq[r].resp.mid = m.mid

(* The response is complete with the block that is being sent. *)
Completes(r) == r \notin Observing /\ sreq[r].resp.code = "OK" /\ LastBlock(sreq[r].resp)

ToClient(m) ==
  m.to = "client" =>
    /\ OwnSize(m.b2)
    /\ m.token \in Request \ Observing => Blocked(m)
    /\ m.type = "CON" =>
         /\ m.mid \in 0..smid
         /\ \A r \in Request : Names(m, r) => sreq[r].state = "RESPONSE" /\ Speaks(m, r)

ToServer(m) ==
  m.to = "server" =>
    /\ m.type \in {"CON", "NON"} => Sensible(m)
    /\ m.type = "ACK" =>
         /\ m.mid \in 0..smid
         /\ \A r \in Request :
              Names(m, r) => /\ sreq[r].state = "RESPONSE"
                             /\ Completes(r) => creq[r].state \in Past

LEMMA TellsToClient ==
  ASSUME FitInv, Numbered, NEW m, Tells(m)
  PROVE  ToClient(m) /\ ToServer(m)
<1>1. m.to = "client" /\ OwnSize(m.b2) /\ (m.token \in Request \ Observing => Blocked(m))
  BY DEF Tells
<1>2. ASSUME m.type = "CON"
      PROVE  /\ m.mid \in 0..smid
             /\ \A r \in Request : Names(m, r) => sreq[r].state = "RESPONSE" /\ Speaks(m, r)
  <2>1. CASE \E r \in Request : sreq[r].state = "RESPONSE" /\ m.mid = sreq[r].resp.mid
                                  /\ Speaks(m, r)
    <3>1. PICK r \in Request : sreq[r].state = "RESPONSE" /\ m.mid = sreq[r].resp.mid
                                 /\ Speaks(m, r)
      BY <2>1
    <3>2. sreq[r].state \in Alive
      BY <3>1 DEF Alive
    <3>3. sreq[r].resp.mid \in 1..smid
      BY <3>2 DEF Numbered
    <3>4. m.mid \in 0..smid
      BY <3>1, <3>3 DEF FitInv
    <3>5. \A s \in Request : Names(m, s) => s = r
      BY <3>1, <3>2 DEF Names, Numbered
    <3> QED
      BY <3>1, <3>4, <3>5
  <2>2. CASE \E r \in Request : m.mid = sobs[r].mid
    BY <2>2 DEF Names, Numbered
  <2> QED
    BY <1>2, <2>1, <2>2 DEF Tells
<1> QED
  BY <1>1, <1>2 DEF ToClient, ToServer

LEMMA LaterNames ==
  ASSUME FitInv, Later, NEW m, m.mid \in 0..smid, NEW r \in Request,
         Names(m, r)', Names(m, r) => sreq[r].state = "RESPONSE"
  PROVE  /\ Names(m, r) /\ sreq'[r].state = "RESPONSE"
         /\ sreq'[r].resp.code = sreq[r].resp.code
         /\ LastBlock(sreq'[r].resp) <=> LastBlock(sreq[r].resp)
<1>1. sreq'[r].state \in Alive /\ sreq'[r].resp.mid = m.mid
  BY DEF Names
<1>2. ~(sreq'[r].resp.mid > smid)
  BY <1>1 DEF FitInv
<1>3. Steady(sreq[r], sreq'[r])
  BY <1>1, <1>2 DEF Later
<1>4. Names(m, r)
  BY <1>1, <1>3 DEF Steady, Names
<1>5. /\ sreq'[r].state = "RESPONSE" /\ sreq'[r].resp.code = sreq[r].resp.code
      /\ sreq'[r].resp.body = sreq[r].resp.body /\ sreq'[r].resp.cur = sreq[r].resp.cur
  BY <1>1, <1>3, <1>4 DEF Steady
<1>6. sreq'[r].resp.szx = sreq[r].resp.szx
  BY DEF Later, FitInv, AllFit, Fits
<1> QED
  BY <1>4, <1>5, <1>6 DEF LastBlock

LEMMA LaterSays ==
  ASSUME FitInv, Later, UNCHANGED creq, NEW m, ToClient(m), ToServer(m)
  PROVE  ToClient(m)' /\ ToServer(m)'
<1>0. smid \in Nat /\ smid' \in Nat /\ smid <= smid'
  BY DEF FitInv, Later
<1>1. ASSUME m.mid \in 0..smid PROVE m.mid \in 0..smid'
  BY <1>0, <1>1
<1>2. ToClient(m)'
  <2>1. ASSUME m.to = "client", m.type = "CON", NEW r \in Request, Names(m, r)'
        PROVE  sreq'[r].state = "RESPONSE" /\ Speaks(m, r)'
    <3>1. m.mid \in 0..smid /\ (Names(m, r) => sreq[r].state = "RESPONSE" /\ Speaks(m, r))
      BY <2>1 DEF ToClient
    <3>2. /\ Names(m, r) /\ sreq'[r].state = "RESPONSE"
          /\ sreq'[r].resp.code = sreq[r].resp.code
          /\ LastBlock(sreq'[r].resp) <=> LastBlock(sreq[r].resp)
      BY <2>1, <3>1, LaterNames
    <3> QED
      BY <3>1, <3>2 DEF Speaks
  <2> QED
    BY <1>1, <2>1 DEF ToClient, OwnSize, Blocked, Long
<1>3. ToServer(m)'
  <2>1. ASSUME m.to = "server", m.type = "ACK", NEW r \in Request, Names(m, r)'
        PROVE  sreq'[r].state = "RESPONSE" /\ (Completes(r)' => creq'[r].state \in Past)
    <3>1. /\ m.mid \in 0..smid
          /\ Names(m, r) => sreq[r].state = "RESPONSE" /\ (Completes(r) => creq[r].state \in Past)
      BY <2>1 DEF ToServer
    <3>2. /\ Names(m, r) /\ sreq'[r].state = "RESPONSE"
          /\ sreq'[r].resp.code = sreq[r].resp.code
          /\ LastBlock(sreq'[r].resp) <=> LastBlock(sreq[r].resp)
      BY <2>1, <3>1, LaterNames
    <3> QED
      BY <3>1, <3>2 DEF Completes
  <2> QED
    BY <1>1, <2>1 DEF ToServer, Sensible, OwnSize
<1> QED
  BY <1>2, <1>3
-----------------------------------------------------------------------------
(* The client.  It asks for blocks of the size that the server uses, and a *)
(* long response that it still waits for is not complete.                  *)
Partial(body, r) == Long(r) => Len(body) < RespLen[r]

Sane(q, r) ==
  /\ OwnSize(q.b2)
  /\ r \notin Observing /\ q.state \notin Past => Partial(q.resp.body, r)

ClientFits == \A r \in Request : Sane(creq[r], r)

(* A request that keeps its response, or begins anew, and stays ended.     *)
Still(n, q) == n.b2 = q.b2 /\ n.resp = q.resp /\ n.b1off = q.b1off

Remains(q, n, r) ==
  /\ \/ Still(n, q)
     \/ n.b2 = NoBlock /\ n.resp = NoResponse /\ n.b1off = 0
  /\ r \notin Observing /\ q.state \in Past => n.state \in Past

Calm == \A r \in Request : Remains(creq[r], creq'[r], r)

LEMMA NothingPartial ==
  ASSUME NEW r \in Request
  PROVE  Partial(<<>>, r) /\ OwnSize(NoBlock) /\ NoResponse.body = <<>>
<1>1. RespLen[r] \in Nat /\ Size(ServerSzx) \in Nat /\ Size(ServerSzx) > 0
  BY ServerAssumption, SizePositive DEF Szx
<1>2. Len(<<>>) = 0
  OBVIOUS
<1> QED
  BY <1>1, <1>2, NoBlockPlace DEF Partial, Long, OwnSize, NoResponse

LEMMA RemainsSane ==
  ASSUME NEW r \in Request, NEW q, NEW n, Sane(q, r), Remains(q, n, r)
  PROVE  Sane(n, r)
<1>1. CASE Still(n, q)
  BY <1>1 DEF Sane, Remains, Still
<1>2. CASE n.b2 = NoBlock /\ n.resp = NoResponse
  BY <1>2, NothingPartial DEF Sane
<1> QED
  BY <1>1, <1>2 DEF Remains

LEMMA CalmFits ==
  ASSUME ClientFits, Calm
  PROVE  ClientFits'
BY RemainsSane DEF ClientFits, Calm, Sane, OwnSize, Partial, Long

LEMMA OneCalm ==
  ASSUME AskedInv, NEW r \in Request, NEW n, creq' = [creq EXCEPT ![r] = n], Remains(creq[r], n, r)
  PROVE  Calm
<1>1. creq'[r] = n /\ \A s \in Request : s # r => creq'[s] = creq[s]
  BY DEF AskedInv, IsArray
<1> QED
  BY <1>1 DEF Calm, Remains, Still

LEMMA FieldsRemain ==
  ASSUME AskedInv, NEW r \in Request, NEW state, NEW status, NEW mid, NEW retrans
  PROVE  LET q == creq[r]
             Only(n) == Still(n, q) /\ n.state = q.state
             Set(n) == Still(n, q) /\ n.state = state
         IN  /\ Set([q EXCEPT !.state = state, !.mid = mid])
             /\ Set([q EXCEPT !.state = state])
             /\ Set([q EXCEPT !.state = state, !.status = status])
             /\ Set([q EXCEPT !.state = state, !.retrans = retrans])
             /\ Set([q EXCEPT !.dereg = TRUE, !.mid = mid, !.retrans = retrans, !.state = state])
             /\ Only([q EXCEPT !.dereg = TRUE])
<1>1. HasFields(creq[r], AskedFields)
  BY DEF AskedInv, Asked, Going
<1> QED
  BY <1>1 DEF HasFields, AskedFields, Still

LEMMA CallsCalm ==
  ASSUME AskedInv, NEW r \in Request, New(r) \/ Send(r) \/ Cancel(r) \/ Deregister(r) \/ Free(r)
  PROVE  Calm
<1> DEFINE q == creq[r]
<1>1. CASE New(r)
  <2> DEFINE n == [q EXCEPT !.state = "IDLE", !.mid = cmid + 1]
  <2>1. creq' = [creq EXCEPT ![r] = n] /\ q.state = "NEW"
    BY <1>1 DEF New, AskedInv, IsArray
  <2>2. Still(n, q)
    BY FieldsRemain
  <2> HIDE DEF n
  <2>3. Remains(q, n, r)
    BY <2>1, <2>2 DEF Remains, Past
  <2> QED
    BY <2>1, <2>3, OneCalm
<1>2. CASE Send(r)
  <2> DEFINE n == [q EXCEPT !.state = "SEND_REQUEST"]
  <2>1. creq' = [creq EXCEPT ![r] = n] /\ q.state = "IDLE"
    BY <1>2 DEF Send, AskedInv, IsArray
  <2>2. Still(n, q)
    BY FieldsRemain
  <2> HIDE DEF n
  <2>3. Remains(q, n, r)
    BY <2>1, <2>2 DEF Remains, Past
  <2> QED
    BY <2>1, <2>3, OneCalm
<1>3. CASE Cancel(r)
  <2> DEFINE n == [q EXCEPT !.state = "DONE_CALLBACK", !.status = "STOPPED"]
  <2>1. creq' = [creq EXCEPT ![r] = n]
    BY <1>3 DEF Cancel, Finish, AskedInv, IsArray
  <2>2. Still(n, q) /\ n.state = "DONE_CALLBACK"
    BY FieldsRemain DEF Still
  <2> HIDE DEF n
  <2>3. Remains(q, n, r)
    BY <2>2 DEF Remains, Past
  <2> QED
    BY <2>1, <2>3, OneCalm
<1>4. CASE Deregister(r)
  <2> DEFINE first == [q EXCEPT !.dereg = TRUE, !.mid = cmid + 1, !.retrans = 0,
                                !.state = "SEND_REQUEST"]
             second == [q EXCEPT !.dereg = TRUE]
  <2>1. creq' = [creq EXCEPT ![r] = first] \/ creq' = [creq EXCEPT ![r] = second]
    BY <1>4 DEF Deregister, AskedInv, IsArray
  <2>2. Still(first, q) /\ Still(second, q)
    BY FieldsRemain
  <2>3. r \in Observing
    BY <1>4, ClientAssumption DEF Deregister
  <2> HIDE DEF first, second
  <2>4. Remains(q, first, r) /\ Remains(q, second, r)
    BY <2>2, <2>3 DEF Remains
  <2> QED
    BY <2>1, <2>4, OneCalm
<1>5. CASE Free(r)
  <2> DEFINE n == [NewRequest EXCEPT !.state = "FREED"]
  <2>1. creq' = [creq EXCEPT ![r] = n]
    BY <1>5 DEF Free
  <2>2. n.b2 = NoBlock /\ n.resp = NoResponse /\ n.b1off = 0 /\ n.state = "FREED"
    BY DEF NewRequest
  <2> HIDE DEF n
  <2>3. Remains(q, n, r)
    BY <2>2 DEF Remains, Past
  <2> QED
    BY <2>1, <2>3, OneCalm
<1> QED
  BY <1>1, <1>2, <1>3, <1>4, <1>5

LEMMA FinishRemains ==
  ASSUME AskedInv, NEW r \in Request, NEW status
  PROVE  Remains(creq[r], Finish(creq[r], status), r)
<1> DEFINE n == [creq[r] EXCEPT !.state = "DONE_CALLBACK", !.status = status]
<1>1. Still(n, creq[r]) /\ n.state = "DONE_CALLBACK"
  BY FieldsRemain DEF Still
<1> HIDE DEF n
<1>2. Remains(creq[r], n, r)
  BY <1>1 DEF Remains, Past
<1> QED
  BY <1>2 DEF Finish, n

LEMMA ConnectionCalm ==
  ASSUME AskedInv, NEW c, RemoveClientConnection(c)
  PROVE  Calm
<1>1. ASSUME NEW r \in Request
      PROVE  creq'[r] = creq[r] \/ creq'[r] = Finish(creq[r], "STOPPED")
  BY DEF RemoveClientConnection
<1> QED
  BY <1>1, FinishRemains DEF Calm, Remains, Still

LEMMA TimeoutCalm ==
  ASSUME AskedInv, NEW r \in Request, HandleClientTimeout(r)
  PROVE  Calm
<1> DEFINE q == creq[r]
           again == [q EXCEPT !.state = "SEND_REQUEST", !.retrans = q.retrans + 1]
<1>1. /\ \/ creq' = [creq EXCEPT ![r] = again] /\ q.state = "WAIT_ACK"
         \/ creq' = [creq EXCEPT ![r] = Finish(q, "TIMEOUT")]
  BY DEF HandleClientTimeout, AskedInv, IsArray, Retried
<1>2. Still(again, q)
  BY FieldsRemain
<1> HIDE DEF again
<1>3. q.state = "WAIT_ACK" => Remains(q, again, r)
  BY <1>2 DEF Remains, Past
<1> QED
  BY <1>1, <1>3, FinishRemains, OneCalm

LEMMA LoopCalm ==
  ASSUME AskedInv, ClientLoop
  PROVE  Calm
<1>1. CASE SendClientRst \/ SendClientAck
  BY <1>1 DEF SendClientRst, SendClientAck, Calm, Remains, Still
<1>2. CASE SendRequest
  <2>1. PICK r \in Request :
          /\ NextDue(r, "SEND_REQUEST")
          /\ \/ creq' = [creq EXCEPT ![r].state = IF TypeOf[r] = "NON" THEN "WAIT_RESPONSE"
                                                                      ELSE "WAIT_ACK"]
             \/ creq' = [creq EXCEPT ![r] = Finish(creq[r], "DECODE_ERROR")]
    BY <1>2 DEF SendRequest
  <2> DEFINE state == IF TypeOf[r] = "NON" THEN "WAIT_RESPONSE" ELSE "WAIT_ACK"
             n == [creq[r] EXCEPT !.state = state]
  <2>2. creq[r].state = "SEND_REQUEST"
    BY <2>1 DEF NextDue
  <2>3. creq' = [creq EXCEPT ![r] = n] \/ creq' = [creq EXCEPT ![r] = Finish(creq[r], "DECODE_ERROR")]
    BY <2>1 DEF AskedInv, IsArray
  <2> HIDE DEF state
  <2>4. Still(n, creq[r])
    BY FieldsRemain
  <2> HIDE DEF n
  <2>5. Remains(creq[r], n, r)
    BY <2>2, <2>4 DEF Remains, Past
  <2> QED
    BY <2>3, <2>5, FinishRemains, OneCalm
<1>3. CASE HandleCallback
  <2>1. PICK r \in Request :
          \/ Rearms(r) /\ creq' = [creq EXCEPT ![r].state = "WAIT_RESPONSE",
                                               ![r].status = "OBSERVE_NOTIFICATION"]
          \/ creq' = [creq EXCEPT ![r].state = "DONE"]
    BY <1>3 DEF HandleCallback
  <2> DEFINE armed == [creq[r] EXCEPT !.state = "WAIT_RESPONSE", !.status = "OBSERVE_NOTIFICATION"]
             done == [creq[r] EXCEPT !.state = "DONE"]
  <2>2. \/ r \in Observing /\ creq' = [creq EXCEPT ![r] = armed]
        \/ creq' = [creq EXCEPT ![r] = done]
    BY <2>1 DEF Rearms, AskedInv, IsArray
  <2>3. /\ Still(armed, creq[r])
        /\ Still(done, creq[r]) /\ done.state = "DONE"
    BY FieldsRemain DEF Still
  <2> HIDE DEF armed, done
  <2>4. (r \in Observing => Remains(creq[r], armed, r)) /\ Remains(creq[r], done, r)
    BY <2>3 DEF Remains, Past
  <2> QED
    BY <2>2, <2>4, OneCalm
<1> QED
  BY <1>1, <1>2, <1>3 DEF ClientLoop

LEMMA EmptyCalm ==
  ASSUME AskedInv, NEW m, HandleAck(m) \/ HandleRst(m) \/ Unexpected(m)
  PROVE  Calm
<1>1. ASSUME HandleAck(m), NEW r \in Request PROVE Remains(creq[r], creq'[r], r)
  <2> DEFINE n == [creq[r] EXCEPT !.state = "WAIT_RESPONSE"]
  <2>1. creq'[r] = creq[r] \/ (creq'[r] = n /\ creq[r].state = "WAIT_ACK")
    BY <1>1 DEF HandleAck
  <2>2. Still(n, creq[r])
    BY FieldsRemain
  <2> HIDE DEF n
  <2> QED
    BY <2>1, <2>2 DEF Remains, Past, Still
<1>2. ASSUME HandleRst(m), NEW r \in Request PROVE Remains(creq[r], creq'[r], r)
  <2>1. creq'[r] = creq[r] \/ creq'[r] = Finish(creq[r], "RESET")
    BY <1>2 DEF HandleRst
  <2> QED
    BY <2>1, FinishRemains DEF Remains, Still
<1>3. ASSUME Unexpected(m), NEW r \in Request PROVE Remains(creq[r], creq'[r], r)
  BY <1>3 DEF Unexpected, Remains, Still
<1> QED
  BY <1>1, <1>2, <1>3 DEF Calm

(* parse_and_handle_response: what is left of the request.                 *)
LEMMA OpenedSane ==
  ASSUME NEW p, NEW r \in Request, NEW q, Going(p, q, r), Sane(q, r), q.state \notin Past, NEW m
  PROVE  /\ OwnSize(Opened(q, m).b2)
         /\ r \notin Observing => Partial(Opened(q, m).resp.body, r)
<1> DEFINE further == Offset(m.b2) > 0
           keeps == q.resp.has /\ further
           resp == [has |-> TRUE, code |-> m.code,
                    body |-> IF keeps THEN q.resp.body ELSE <<>>,
                    obs |-> IF m.obs = NoObserve /\ keeps THEN q.resp.obs ELSE m.obs]
           b2 == IF q.resp.has /\ ~further THEN NoBlock ELSE q.b2
           o == [q EXCEPT !.resp = resp, !.b2 = b2]
<1>1. Opened(q, m) = o
  BY DEF Opened
<1>2. resp.body = q.resp.body \/ resp.body = <<>>
  OBVIOUS
<1>3. b2 = q.b2 \/ b2 = NoBlock
  OBVIOUS
<1> HIDE DEF resp, b2, keeps, further
<1>4. o.resp = resp /\ o.b2 = b2
  BY DEF Going, HasFields, AskedFields
<1> HIDE DEF o
<1> QED
  BY <1>1, <1>2, <1>3, <1>4, NothingPartial DEF Sane

LEMMA StoredSane ==
  ASSUME NEW p, NEW r, NEW q, Going(p, q, r), OwnSize(q.b2), NEW m, OwnSize(m.b2)
  PROVE  OwnSize(Stored(q, m).b2)
<1> DEFINE b2 == IF HasBlock(m.b2)
                   THEN [num |-> m.b2.num + 1, more |-> FALSE, szx |-> m.b2.szx] ELSE q.b2
           resp == [q.resp EXCEPT !.body = q.resp.body \o m.pay]
           n == [q EXCEPT !.resp = resp, !.b2 = b2]
<1>1. Stored(q, m) = n
  BY DEF Stored
<1>2. OwnSize(b2)
  BY DEF OwnSize
<1> HIDE DEF b2, resp
<1>3. n.b2 = b2
  BY DEF Going, HasFields, AskedFields
<1> QED
  BY <1>1, <1>2, <1>3

LEMMA RestKept ==
  ASSUME NEW p, NEW r, NEW q, Going(p, q, r), NEW b, NEW mid, NEW szx, NEW state
  PROVE  LET Rest(n) == n.b2 = q.b2 /\ n.resp = q.resp
         IN  /\ Rest(Advanced(r, q, b)) /\ Rest(SendAgain(q))
             /\ Rest([q EXCEPT !.b1size = szx, !.b1off = 0, !.restarted = TRUE])
             /\ Rest([q EXCEPT !.state = state]) /\ [q EXCEPT !.state = state].state = state
             /\ Dropped(q).b2 = q.b2 /\ Dropped(q).resp = NoResponse
<1>1. HasFields(q, AskedFields)
  BY DEF Going
<1> QED
  BY <1>1 DEF HasFields, AskedFields, Advanced, SendAgain, Dropped

LEMMA OutcomeSane ==
  ASSUME NEW r \in Request, NEW m, Asked("own", creq[r], r), Sane(creq[r], r),
         creq[r].state \in Waiting, Answer("own", m), m.token = r, OwnSize(m.b2),
         r \notin Observing => Blocked(m)
  PROVE  LET out == Outcome(r, m)
         IN  /\ Sane(out.req, r)
             /\ r \notin Observing /\ out.ack /\ m.code = "OK" /\ m.b2.more = FALSE
                  => out.req.state \in Past
<1> DEFINE open == Opened(creq[r], m)
           q == Stored(open, m)
           acks == HasBlock(m.b1) /\ IsSuccess(m.code)
           restarts == /\ HasBlock(m.b1) /\ m.code = "TOO_LARGE"
                       /\ ~q.restarted /\ Adopts(r, q, m.b1.szx)
           next == IF acks THEN Advanced(r, q, m.b1) ELSE q
           again == [q EXCEPT !.b1size = m.b1.szx, !.b1off = 0, !.restarted = TRUE]
           over == [next EXCEPT !.state = "DONE_CALLBACK"]
           out == Outcome(r, m).req
           ack == Outcome(r, m).ack
<1>1. \/ out = Dropped(open) /\ ack = FALSE
      \/ Held(open, m) /\ ~Overlaps(open, m) /\ out = open
      \/ /\ ~Held(open, m) /\ ~Misplaced(open, m)
         /\ \/ restarts /\ out = SendAgain(again) /\ ack = FALSE
            \/ acks /\ out = q /\ ack = FALSE
            \/ out = Dropped(q) /\ ack = FALSE
            \/ acks /\ out = SendAgain(next) /\ ack = FALSE
            \/ m.b2.more /\ out = SendAgain(next)
            \/ ~m.b2.more /\ out = over
  BY DEF Outcome
<1>2. ~HasBlock(m.b2) => m.b2 = NoBlock
  BY BlockTypes DEF Answer
<1>3. Going("own", creq[r], r) /\ creq[r].state \notin Past
  BY DEF Asked, Waiting, Past
<1>4. Going("own", open, r) /\ (~HasBlock(m.b2) => open.resp.body = <<>>)
        /\ OwnSize(open.b2) /\ (r \notin Observing => Partial(open.resp.body, r))
  <2>1. Going("own", open, r) /\ (m.b2 = NoBlock => open.resp.body = <<>>)
          /\ OwnSize(open.b2) /\ (r \notin Observing => Partial(open.resp.body, r))
    BY <1>3, OpenedGoing, OpenedEmpty, OpenedSane
  <2> HIDE DEF open
  <2> QED
    BY <1>2, <2>1
<1> HIDE DEF open
<1>5. CASE out = Dropped(open) /\ ack = FALSE
  <2>1. Dropped(open).b2 = open.b2 /\ Dropped(open).resp = NoResponse
    BY <1>4, RestKept
  <2>2. Sane(out, r)
    BY <1>4, <1>5, <2>1, NothingPartial DEF Sane
  <2> HIDE DEF out, ack
  <2>3. /\ Sane(out, r)
        /\ r \notin Observing /\ ack /\ m.code = "OK" /\ m.b2.more = FALSE => out.state \in Past
    BY <1>5, <2>2
  <2> QED
    BY <2>3 DEF out, ack
<1>6. CASE Held(open, m) /\ ~Overlaps(open, m) /\ out = open
  <2>1. Sane(out, r)
    BY <1>4, <1>6 DEF Sane
  <2>2. ASSUME r \notin Observing, m.code = "OK", m.b2.more = FALSE PROVE FALSE
    <3>1. HasBlock(m.b2) /\ Long(r) /\ Place(m) = Offset(m.b2)
      BY <1>6, <2>2 DEF Held, Blocked, Place
    <3>2. Place(m) + Len(m.pay) = RespLen[r]
      BY <2>2 DEF Answer, Total
    <3>3. ~(Place(m) + Len(m.pay) > Len(open.resp.body))
      BY <1>6, <3>1 DEF Overlaps
    <3>4. Len(open.resp.body) < RespLen[r]
      BY <1>4, <2>2, <3>1 DEF Partial
    <3>5. RespLen[r] \in Nat /\ Len(open.resp.body) \in Nat
      BY <1>4, ServerAssumption DEF Going, Piece
    <3> QED
      BY <3>2, <3>3, <3>4, <3>5
  <2> HIDE DEF out, ack
  <2>3. /\ Sane(out, r)
        /\ r \notin Observing /\ ack /\ m.code = "OK" /\ m.b2.more = FALSE => out.state \in Past
    BY <2>1, <2>2
  <2> QED
    BY <2>3 DEF out, ack
<1>7. CASE /\ ~Held(open, m) /\ ~Misplaced(open, m)
           /\ \/ restarts /\ out = SendAgain(again) /\ ack = FALSE
              \/ acks /\ out = q /\ ack = FALSE
              \/ out = Dropped(q) /\ ack = FALSE
              \/ acks /\ out = SendAgain(next) /\ ack = FALSE
              \/ m.b2.more /\ out = SendAgain(next)
              \/ ~m.b2.more /\ out = over
  <2>1. Going("own", q, r) /\ Len(q.resp.body) = Place(m) + Len(m.pay) /\ OwnSize(q.b2)
    BY <1>4, <1>7, StoredGoing, StoredSane
  <2> HIDE DEF q
  <2>2. next.b2 = q.b2 /\ next.resp = q.resp /\ Going("own", next, r)
    BY <2>1, RestKept, AdvancedGoing DEF Answer
  <2>3. ASSUME r \notin Observing, Long(r), acks \/ m.b2.more
        PROVE  Place(m) + Len(m.pay) < RespLen[r]
    <3>1. Blocked(m)
      BY <2>3
    <3>2. CASE ~HasBlock(m.b2)
      <4>1. m.pay = <<>> /\ Place(m) = 0
        BY <2>3, <3>1, <3>2 DEF Blocked, Place
      <4>2. Len(<<>>) < RespLen[r] /\ Len(<<>>) = 0
        BY <2>3, NothingPartial DEF Partial
      <4> QED
        BY <4>1, <4>2
    <3>3. CASE HasBlock(m.b2)
      <4>1. m.b2.more \in BOOLEAN
        BY BlockTypes, NoBlockPlace DEF Answer
      <4>2. m.b2.more = TRUE
        BY <2>3, <3>1, <3>3, <4>1 DEF Blocked
      <4> QED
        BY <3>1, <3>3, <4>2 DEF Blocked
    <3> QED
      BY <3>2, <3>3
  <2>4. r \notin Observing /\ (acks \/ m.b2.more) => Partial(q.resp.body, r)
    BY <2>1, <2>3 DEF Partial
  <2>5. ~restarts
    <3>1. SUFFICES ASSUME restarts PROVE FALSE
      OBVIOUS
    <3>2. m.b1.szx = ClientSzx
      BY <3>1, NoBlockPlace DEF Answer, Chunks
    <3>3. q.b1size = ClientSzx
      BY <2>1 DEF Going
    <3> QED
      BY <3>1, <3>2, <3>3, ClientAssumption DEF Adopts
  <2> HIDE DEF acks, restarts
  <2>6. SendAgain(next).b2 = q.b2 /\ SendAgain(next).resp = q.resp
    BY <2>2, RestKept
  <2>7. over.b2 = q.b2 /\ over.resp = q.resp /\ over.state = "DONE_CALLBACK"
    BY <2>2, RestKept
  <2>8. Dropped(q).b2 = q.b2 /\ Dropped(q).resp = NoResponse
    BY <2>1, RestKept
  <2> HIDE DEF next, over
  <2>9. Sane(over, r) /\ Sane(Dropped(q), r) /\ over.state \in Past
    BY <2>1, <2>7, <2>8, NothingPartial DEF Sane, Past
  <2>10. acks \/ m.b2.more => Sane(q, r) /\ Sane(SendAgain(next), r)
    BY <2>1, <2>4, <2>6 DEF Sane
  <2> HIDE DEF out, ack, again
  <2>11. Sane(out, r)
    BY <1>7, <2>5, <2>9, <2>10
  <2>12. ack /\ m.b2.more = FALSE => out = over
    BY <1>7, <2>5
  <2>13. /\ Sane(out, r)
         /\ r \notin Observing /\ ack /\ m.code = "OK" /\ m.b2.more = FALSE => out.state \in Past
    BY <2>9, <2>11, <2>12
  <2> QED
    BY <2>13 DEF out, ack
<1> QED
  BY <1>1, <1>5, <1>6, <1>7

(* A request that has ended stays so. *)
Settles == \A r \in Request \ Observing : creq[r].state \in Past => creq'[r].state \in Past

LEMMA CalmSettles ==
  ASSUME ClientFits, Calm
  PROVE  ClientFits' /\ Settles
BY CalmFits DEF Calm, Remains, Settles

(* What a response leaves, and the acknowledgement it gets. *)
LEMMA ResponseSane ==
  ASSUME AskedInv, ClientFits, peer = "own", UNCHANGED <<sreq, smid>>,
         NEW m, m.to = "client", Answer("own", m), ToClient(m), HandleResponse(m)
  PROVE  /\ ClientFits' /\ Settles
         /\ \A a \in cack' : a \in cack \/ ToServer(a)'
<1> DEFINE r == m.token
           out == Outcome(r, m)
<1>1. /\ creq' = [creq EXCEPT ![r] = out.req] /\ creq[r].state \in Waiting
      /\ cack' = cack \/ (/\ out.ack /\ m.type = "CON"
                          /\ cack' = {EmptyMessage("server", "ACK", m.mid, m.conn)})
  BY DEF HandleResponse, Confirmable
<1>2. ASSUME r \in Request
      PROVE  /\ Sane(out.req, r)
             /\ r \notin Observing /\ out.ack /\ m.code = "OK" /\ m.b2.more = FALSE
                  => out.req.state \in Past
  <2>1. Asked("own", creq[r], r) /\ Sane(creq[r], r)
    BY <1>2 DEF AskedInv, ClientFits
  <2>2. OwnSize(m.b2) /\ (r \notin Observing => Blocked(m))
    BY <1>2 DEF ToClient
  <2> QED
    BY <1>1, <1>2, <2>1, <2>2, OutcomeSane
<1> HIDE DEF out
<1>3. \A s \in Request : creq'[s] = IF s = r THEN out.req ELSE creq[s]
  BY <1>1 DEF AskedInv, IsArray
<1>4. ClientFits'
  BY <1>2, <1>3 DEF ClientFits, Sane, OwnSize, Partial, Long
<1>5. Settles
  BY <1>1, <1>3 DEF Settles, Past, Waiting
<1>6. ASSUME out.ack, m.type = "CON"
      PROVE  ToServer(EmptyMessage("server", "ACK", m.mid, m.conn))'
  <2> DEFINE a == EmptyMessage("server", "ACK", m.mid, m.conn)
  <2>1. a.to = "server" /\ a.type = "ACK" /\ a.mid = m.mid
    BY DEF EmptyMessage, Message
  <2> HIDE DEF a
  <2>2. m.mid \in 0..smid'
    BY <1>6 DEF ToClient
  <2>3. ASSUME NEW s \in Request, Names(a, s)'
        PROVE  sreq'[s].state = "RESPONSE" /\ (Completes(s)' => creq'[s].state \in Past)
    <3>1. Names(m, s) /\ sreq'[s] = sreq[s]
      BY <2>1, <2>3 DEF Names
    <3>2. sreq[s].state = "RESPONSE" /\ Speaks(m, s)
      BY <1>6, <3>1 DEF ToClient
    <3>3. s = r /\ m.code = sreq[s].resp.code /\ (LastBlock(sreq[s].resp) => m.b2.more = FALSE)
      BY <3>2 DEF Speaks
    <3>4. ASSUME Completes(s)' PROVE creq'[s].state \in Past
      <4>1. s \notin Observing /\ m.code = "OK" /\ m.b2.more = FALSE
        BY <3>1, <3>3, <3>4 DEF Completes
      <4> QED
        BY <1>2, <1>3, <1>6, <3>3, <4>1
    <3> QED
      BY <3>1, <3>2, <3>4
  <2>4. ToServer(a)'
    BY <2>1, <2>2, <2>3 DEF ToServer
  <2> QED
    BY <2>4 DEF a
<1> QED
  BY <1>1, <1>4, <1>5, <1>6

LEMMA RequestSensible ==
  ASSUME NEW r \in Request, Sane(creq[r], r)
  PROVE  ToServer(RequestPacket(r)) /\ RequestPacket(r).to = "server"
<1> DEFINE m == RequestPacket(r)
<1>1. /\ m.to = "server" /\ m.type = TypeOf[r] /\ m.token = r /\ m.b2 = creq[r].b2
      /\ m.obs = IF r \in Observing THEN (IF creq[r].dereg THEN 1 ELSE 0) ELSE NoObserve
  BY DEF RequestPacket, Message
<1>2. TypeOf[r] # "ACK"
  BY ClientAssumption
<1>3. NoObserve # 0
  BY DEF NoObserve
<1> HIDE DEF m
<1>4. Sensible(m)
  BY <1>1, <1>3 DEF Sensible, Sane
<1>5. ToServer(m)
  BY <1>1, <1>2, <1>4 DEF ToServer
<1> QED
  BY <1>1, <1>5 DEF m

(* The client's requests under way and what it is about to send.           *)
ClientSays == \A m \in Outgoing : m.to = "server" /\ ToServer(m)

LEMMA ServerSame ==
  ASSUME UNCHANGED <<sreq, smid>>, Settles, NEW m
  PROVE  (ToClient(m) => ToClient(m)') /\ (ToServer(m) => ToServer(m)')
<1>1. ToClient(m) => ToClient(m)'
  BY DEF ToClient, OwnSize, Blocked, Long, Names, Speaks
<1>2. ASSUME ToServer(m) PROVE ToServer(m)'
  <2>1. \A r \in Request : (Names(m, r)' => Names(m, r)) /\ (Completes(r)' => Completes(r))
    BY DEF Names, Completes
  <2>2. \A r \in Request : Completes(r) => r \in Request \ Observing
    BY DEF Completes
  <2> QED
    BY <1>2, <2>1, <2>2 DEF ToServer, Sensible, OwnSize, Settles
<1> QED
  BY <1>1, <1>2

(* A step of the client. *)
LEMMA ClientStep ==
  ASSUME AskedInv, NetInv, ClientFits, ClientSays, peer = "own", UNCHANGED <<sreq, smid>>,
         \A m \in UnderWay : ToClient(m) /\ ToServer(m),
         ClientNext \/ \E r \in Request : HandleClientTimeout(r) /\ UNCHANGED netVars
  PROVE  /\ ClientFits' /\ ClientSays'
         /\ \A m \in UnderWay' : ToClient(m)' /\ ToServer(m)'
<1> DEFINE Quietly == ClientFits' /\ Settles
           Old == \A m \in Outgoing' : m \in Outgoing \/ (m.to = "server" /\ ToServer(m)')
           Under == \A m \in UnderWay' :
                      m \in UnderWay \/ (m.to = "server" /\ (ToServer(m) \/ ToServer(m)'))
<1>0. Carried(peer, net, late)
  BY DEF NetInv
<1>1. UNCHANGED netVars => Under
  BY DEF UnderWay, netVars
<1>2. UNCHANGED <<cack, crst>> => Old
  BY DEF Outgoing
<1>8. ASSUME Quietly, Old, Under
      PROVE  /\ ClientFits' /\ ClientSays'
             /\ \A m \in UnderWay' : ToClient(m)' /\ ToServer(m)'
  <2>1. ASSUME NEW m, ToServer(m) PROVE ToServer(m)'
    BY <1>8, <2>1, ServerSame
  <2>2. ASSUME NEW m, ToClient(m) PROVE ToClient(m)'
    BY <1>8, <2>2, ServerSame
  <2>3. ASSUME NEW m, m.to = "server" PROVE ToClient(m)'
    BY <2>3 DEF ToClient
  <2>4. ClientSays'
    BY <1>8, <2>1 DEF ClientSays
  <2> QED
    BY <1>8, <2>1, <2>2, <2>3, <2>4
<1>3. CASE \E r \in Request : New(r) \/ Send(r) \/ Cancel(r) \/ Deregister(r) \/ Free(r)
  <2>1. Quietly
    BY <1>3, CallsCalm, CalmSettles
  <2>2. UNCHANGED netVars /\ UNCHANGED <<cack, crst>>
    BY <1>3 DEF New, Send, Cancel, Deregister, Free
  <2>3. Quietly /\ Old /\ Under
    BY <1>1, <1>2, <2>1, <2>2
  <2> QED
    BY <2>3, <1>8
<1>4. CASE \E c \in Conn : RemoveClientConnection(c)
  <2>1. Quietly
    BY <1>4, ConnectionCalm, CalmSettles
  <2>2. UNCHANGED netVars /\ UNCHANGED <<cack, crst>>
    BY <1>4 DEF RemoveClientConnection
  <2>3. Quietly /\ Old /\ Under
    BY <1>1, <1>2, <2>1, <2>2
  <2> QED
    BY <2>3, <1>8
<1>5. CASE \E r \in Request : HandleClientTimeout(r) /\ UNCHANGED netVars
  <2>1. Quietly
    BY <1>5, TimeoutCalm, CalmSettles
  <2>2. UNCHANGED <<cack, crst>>
    BY <1>5 DEF HandleClientTimeout
  <2>3. Quietly /\ Old /\ Under
    BY <1>1, <1>2, <1>5, <2>1, <2>2
  <2> QED
    BY <2>3, <1>8
<1>6. CASE ClientLoop
  <2>1. Quietly
    BY <1>6, LoopCalm, CalmSettles
  <2>2. Outgoing' \subseteq Outgoing
    BY <1>6 DEF ClientLoop, SendClientRst, SendClientAck, SendRequest, HandleCallback, Outgoing
  <2>3. UNCHANGED netVars \/ \E m : Sends(m) /\ m.to = "server" /\ ToServer(m)
    <3>1. CASE SendClientRst \/ SendClientAck
      BY <3>1 DEF SendClientRst, SendClientAck, ClientSays, Outgoing
    <3>2. CASE SendRequest
      <4>1. PICK r \in Request : Sends(RequestPacket(r)) \/ UNCHANGED netVars
        BY <3>2 DEF SendRequest
      <4>2. Sane(creq[r], r)
        BY DEF ClientFits
      <4> QED
        BY <4>1, <4>2, RequestSensible
    <3>3. CASE HandleCallback
      BY <3>3 DEF HandleCallback
    <3> QED
      BY <1>6, <3>1, <3>2, <3>3 DEF ClientLoop
  <2>4. ASSUME NEW m, Sends(m), m.to = "server", ToServer(m) PROVE Under
    BY <1>0, <2>4, SendsUnder
  <2>5. Quietly /\ Old /\ Under
    BY <1>1, <2>1, <2>2, <2>3, <2>4
  <2> QED
    BY <2>5, <1>8
<1>7. CASE \E m \in Arriving("client", cup) : ClientHandles(m)
  <2>1. PICK m \in Arriving("client", cup) : ClientHandles(m)
    BY <1>7
  <2>2. Good(peer, m) /\ m.to = "client" /\ m \in UnderWay
    BY <1>0, <2>1, ArrivingGood, ArrivingUnder
  <2>3. Answer("own", m)
    BY <2>2 DEF Good, Question
  <2>4. Arrives(m)
    BY <2>1 DEF ClientHandles, HandleAck, HandleRst, Unexpected, HandleResponse
  <2>5. Under
    BY <1>0, <2>4, ArrivesUnder
  <2>6. CASE HandleResponse(m)
    <3>1. Quietly /\ \A a \in cack' : a \in cack \/ ToServer(a)'
      BY <2>2, <2>3, <2>6, ResponseSane
    <3>2. crst' = crst /\ cack' \subseteq cack \cup {EmptyMessage("server", "ACK", m.mid, m.conn)}
      BY <2>6 DEF HandleResponse
    <3>3. EmptyMessage("server", "ACK", m.mid, m.conn).to = "server"
      BY DEF EmptyMessage, Message
    <3>4. Old
      BY <3>1, <3>2, <3>3 DEF Outgoing
    <3>5. Quietly /\ Old /\ Under
      BY <2>5, <3>1, <3>4
    <3> QED
      BY <3>5, <1>8
  <2>7. CASE HandleAck(m) \/ HandleRst(m) \/ Unexpected(m)
    <3>1. Quietly
      BY <2>7, EmptyCalm, CalmSettles
    <3>2. Outgoing' \subseteq Outgoing \cup {EmptyMessage("server", "RST", m.mid, m.conn)}
      BY <2>7 DEF HandleAck, HandleRst, Unexpected, Outgoing
    <3>3. LET a == EmptyMessage("server", "RST", m.mid, m.conn)
          IN  a.to = "server" /\ a.type = "RST"
      BY DEF EmptyMessage, Message
    <3>4. ToServer(EmptyMessage("server", "RST", m.mid, m.conn))'
      BY <3>3 DEF ToServer
    <3>5. Quietly /\ Old /\ Under
      BY <2>5, <3>1, <3>2, <3>3, <3>4
    <3> QED
      BY <3>5, <1>8
  <2> QED
    BY <2>1, <2>6, <2>7 DEF ClientHandles
<1> QED
  BY <1>3, <1>4, <1>5, <1>6, <1>7 DEF ClientNext
-----------------------------------------------------------------------------
(* A client and a server of this repository.  The other server knows no    *)
(* request by its own state.                                               *)
AckSafe ==
  /\ FitInv /\ Numbered /\ Distinct(soorder) /\ TerseInv
  /\ ClientFits /\ ClientSays
  /\ \A m \in UnderWay : ToClient(m) /\ ToServer(m)

AckInv ==
  IF peer = "own" THEN AckSafe ELSE \A r \in Request : sreq[r].state = "NONE"

LEMMA InitAck ==
  ASSUME Init
  PROVE  AckInv
<1>1. PICK s \in Scenarios : /\ InitClient(s.calls)
                             /\ InitServer({ConnOf[q] : q \in s.calls}, s.updates)
                             /\ InitNet(s.faults)
  BY DEF Init
<1>2. ASSUME NEW r \in Request PROVE Fits(sreq[r], r) /\ sreq[r].state = "NONE"
  BY <1>1, <1>2, AbsentFits DEF InitServer
<1>3. ASSUME NEW r \in Request PROVE Watch(sobs[r], r) /\ sobs[r].mid = 0
  <2>1. /\ HasFields(NoObserver, ObserverFields) /\ NoObserver.on = FALSE
        /\ NoObserver.mid = 0
    BY DEF NoObserver, HasFields, ObserverFields
  <2> QED
    BY <1>1, <2>1 DEF InitServer, Watch
<1>4. FitInv
  BY <1>1, <1>2, <1>3 DEF InitServer, FitInv, AllFit, AllWatch, IsArray
<1>5. Numbered
  <2>1. smid = 0 /\ \A r \in Request : sreq[r].state \notin Alive
    BY <1>1, <1>2 DEF InitServer, Alive
  <2> QED
    BY <1>3, <2>1 DEF Numbered
<1>6. Distinct(soorder) /\ TerseInv
  BY <1>1 DEF InitServer, Distinct, TerseInv, Replies
<1>7. ClientFits
  <2>1. NewRequest.b2 = NoBlock /\ NewRequest.resp = NoResponse
    BY DEF NewRequest
  <2> QED
    BY <1>1, <2>1, NothingPartial DEF InitClient, ClientFits, Sane
<1>8. ClientSays /\ \A m \in UnderWay : ToClient(m) /\ ToServer(m)
  <2>1. Outgoing = {}
    BY <1>1 DEF InitClient, Outgoing
  <2>2. UnderWay = {}
    BY <1>1 DEF InitNet, UnderWay, On
  <2> QED
    BY <2>1, <2>2 DEF ClientSays
<1> QED
  BY <1>2, <1>4, <1>5, <1>6, <1>7, <1>8 DEF AckInv, AckSafe

LEMMA ServerLater ==
  ASSUME TypeInv, AckSafe, peer = "own",
         \/ ServerNext
         \/ \E r \in Request : (ExpireRequest(r) \/ ExpireNotification(r)) /\ UNCHANGED netVars
  PROVE  Later /\ Numbered'
<1>0. Carried(peer, net, late)
  BY DEF TypeInv, BodyInv, NetInv
<1>1. FitInv /\ Numbered /\ Distinct(soorder) /\ TerseInv
  BY DEF AckSafe
<1>2. ASSUME NEW m \in Arriving("server", sup), m.type \in {"CON", "NON"}
      PROVE  m.token \in Request /\ Sensible(m)
  <2>1. Good(peer, m) /\ m.to = "server" /\ m \in UnderWay
    BY <1>0, ArrivingGood, ArrivingUnder
  <2>2. m.token \in Request
    BY <1>2, <2>1 DEF Good, Answer, Question
  <2> QED
    BY <1>2, <2>1, <2>2 DEF AckSafe, ToServer
<1>3. Quiet \/ \E x : Started(x)
  <2>1. CASE ServerNext
    BY <1>1, <1>2, <2>1, ServerFits DEF TypeInv
  <2>2. CASE \E r \in Request : ExpireRequest(r) \/ ExpireNotification(r)
    BY <1>1, <2>2, ExpireRequestQuiet, ExpireNotificationQuiet
  <2> QED
    BY <2>1, <2>2
<1> QED
  BY <1>1, <1>3, QuietLater, StartedLater

LEMMA ServerStep ==
  ASSUME TypeInv, AckSafe, peer = "own", UNCHANGED clientVars,
         \/ ServerNext
         \/ \E r \in Request : (ExpireRequest(r) \/ ExpireNotification(r)) /\ UNCHANGED netVars
  PROVE  AckSafe'
<1>1. FitInv /\ Numbered /\ Distinct(soorder) /\ TerseInv
  BY DEF AckSafe
<1>4. Later /\ Numbered'
  BY ServerLater
<1>5. Distinct(soorder')
  BY <1>1, ServerDistinct DEF TypeInv
<1>6. TerseInv'
  BY <1>1, ServerTerse
<1>7. UNCHANGED <<creq, cack, crst>>
  BY DEF clientVars
<1>8. ClientFits'
  BY <1>7 DEF AckSafe, ClientFits, Sane, OwnSize, Partial, Long
<1>9. ASSUME NEW m, ToClient(m), ToServer(m) PROVE ToClient(m)' /\ ToServer(m)'
  BY <1>1, <1>4, <1>7, <1>9, LaterSays
<1>10. ClientSays'
  <2>1. ASSUME NEW m \in Outgoing PROVE m.to = "server" /\ ToServer(m)'
    <3>1. m.to = "server" /\ ToServer(m)
      BY DEF AckSafe, ClientSays
    <3>2. ToClient(m)
      BY <3>1 DEF ToClient
    <3> QED
      BY <1>9, <3>1, <3>2
  <2>2. Outgoing' = Outgoing
    BY <1>7 DEF Outgoing
  <2> QED
    BY <2>1, <2>2 DEF ClientSays
<1>11. ASSUME NEW m \in UnderWay' PROVE ToClient(m)' /\ ToServer(m)'
  <2>1. m \in UnderWay \/ Tells(m)
    BY <1>1, ServerTells DEF TypeInv, BodyInv
  <2>2. ToClient(m) /\ ToServer(m)
    BY <1>1, <2>1, TellsToClient DEF AckSafe
  <2> QED
    BY <1>9, <2>2
<1> QED
  BY <1>4, <1>5, <1>6, <1>8, <1>10, <1>11 DEF AckSafe, Later

LEMMA StepAck ==
  ASSUME TypeInv, AckInv, [Next]_vars
  PROVE  AckInv'
<1>0. peer' = peer /\ Carried(peer, net, late)
  BY DEF Next, Step, vars, InClient, InServer, InOther, Trouble, Undeliverable, ClientTimer,
         ServerTimer, TypeInv, BodyInv, NetInv
<1>1. CASE peer # "own"
  <2>1. UNCHANGED serverVars
    BY <1>1 DEF Next, Step, vars, InClient, InServer, InOther, Trouble, Undeliverable, ClientTimer,
                ServerTimer
  <2> QED
    BY <1>0, <1>1, <2>1 DEF AckInv, serverVars
<1>2. CASE peer = "own"
  <2>1. AckSafe
    BY <1>2 DEF AckInv
  <2>2. ASSUME UNCHANGED serverVars, ClientFits', ClientSays',
               \A m \in UnderWay' : ToClient(m)' /\ ToServer(m)'
        PROVE  AckSafe'
    <3>1. FitInv' /\ Numbered' /\ Distinct(soorder)' /\ TerseInv'
      BY <2>1, <2>2 DEF AckSafe, FitInv, Numbered, TerseInv, Replies, serverVars, AllFit, AllWatch,
         IsArray, Fits, Watch, Distinct, OwnSize
    <3> QED
      BY <2>2, <3>1 DEF AckSafe
  <2>3. CASE InClient(ClientNext) \/ \E r \in Request : ClientTimer(r)
    <3>1. /\ ClientNext \/ \E r \in Request : HandleClientTimeout(r) /\ UNCHANGED netVars
          /\ UNCHANGED serverVars
      BY <2>3 DEF InClient, ClientTimer
    <3>2. UNCHANGED <<sreq, smid>>
      BY <3>1 DEF serverVars
    <3>3. AskedInv /\ NetInv
      BY DEF TypeInv, BodyInv
    <3>4. /\ ClientFits' /\ ClientSays'
          /\ \A m \in UnderWay' : ToClient(m)' /\ ToServer(m)'
      BY <1>2, <2>1, <3>1, <3>2, <3>3, ClientStep DEF AckSafe
    <3> QED
      BY <1>0, <1>2, <2>2, <3>1, <3>4 DEF AckInv
  <2>4. CASE InServer(ServerNext) \/ \E r \in Request : ServerTimer(r)
    <3>1. /\ UNCHANGED clientVars
          /\ \/ ServerNext
             \/ \E r \in Request :
                  (ExpireRequest(r) \/ ExpireNotification(r)) /\ UNCHANGED netVars
      BY <2>4 DEF InServer, ServerTimer
    <3> QED
      BY <1>0, <1>2, <2>1, <3>1, ServerStep DEF AckInv
  <2>5. CASE Trouble \/ Undeliverable \/ UNCHANGED vars
    <3>1. UNCHANGED serverVars /\ UNCHANGED clientVars
      BY <2>5 DEF Trouble, Undeliverable, vars
    <3>2. UnderWay' \subseteq UnderWay
      <4>1. CASE Trouble
        <5>1. PICK to, m : m \in Arriving(to, Conn) /\ (Lose(m) \/ Delay(m) \/ Copy(m))
          BY <4>1 DEF Trouble, OnTimeFor
        <5> QED
          BY <1>0, <5>1, ArrivingUnder, TroubleUnder
      <4>2. CASE Undeliverable
        BY <1>0, <4>2, ArrivesUnder DEF Undeliverable
      <4>3. CASE UNCHANGED vars
        BY <4>3 DEF vars, netVars, UnderWay
      <4> QED
        BY <2>5, <4>1, <4>2, <4>3
    <3>3. UNCHANGED <<sreq, smid>> /\ UNCHANGED <<creq, cack, crst>>
      BY <3>1 DEF serverVars, clientVars
    <3>4. ASSUME NEW m PROVE (ToClient(m) => ToClient(m)') /\ (ToServer(m) => ToServer(m)')
      <4>1. Settles
        BY <3>3 DEF Settles
      <4> QED
        BY <3>3, <4>1, ServerSame
    <3>5. ClientFits' /\ ClientSays'
      BY <2>1, <3>3, <3>4 DEF AckSafe, ClientFits, Sane, OwnSize, Partial, Long, ClientSays, Outgoing
    <3>6. \A m \in UnderWay' : ToClient(m)' /\ ToServer(m)'
      BY <2>1, <3>2, <3>4 DEF AckSafe
    <3> QED
      BY <1>0, <1>2, <2>2, <3>1, <3>5, <3>6 DEF AckInv
  <2>6. ~InOther(OtherNext)
    BY <1>2 DEF InOther
  <2> QED
    BY <2>3, <2>4, <2>5, <2>6 DEF Next, Step
<1> QED
  BY <1>1, <1>2

(* The inductive invariant: the server gives out no message id twice, so a *)
(* confirmable message under way that names a response is the block that   *)
(* the response is at, and an acknowledgement that names one was sent for  *)
(* that block (nabto_coap_server_next_message_id, whose counter is taken   *)
(* not to wrap while a message is under way, and handle_ack).              *)
THEOREM AckInvariance == Spec => [](TypeInv /\ AckInv)
<1>1. Init => TypeInv /\ AckInv
  BY InitTypes, InitAck
<1>2. TypeInv /\ AckInv /\ [Next]_vars => TypeInv' /\ AckInv'
  BY StepTypes, StepAck
<1> QED
  BY <1>1, <1>2, PTL DEF Spec

(* The acknowledgement that ends a response is of its last block.          *)
LEMMA AckEnds ==
  ASSUME TypeInv, AckInv, NEW r \in Request \ Observing,
         sreq[r].state = "RESPONSE", sreq[r].resp.code = "OK",
         NEW m \in Arriving("server", sup), AckResponse(m), sreq'[r].state \in {"DONE", "NONE"}
  PROVE  creq[r].state \in Past
<1>1. PICK s \in Matched(m) :
        LET q == [sreq[s] EXCEPT !.resp.waiting = FALSE]
        IN  SetRequest(s, IF LastBlock(q.resp) THEN Over(q) ELSE [q EXCEPT !.resp.retrans = 0])
  BY DEF AckResponse
<1> DEFINE q == [sreq[s] EXCEPT !.resp.waiting = FALSE]
           n == IF LastBlock(q.resp) THEN Over(q) ELSE [q EXCEPT !.resp.retrans = 0]
<1>2. peer = "own" /\ AckSafe
  BY DEF AckInv
<1>3. AllFit(sreq)
  BY <1>2 DEF AckSafe, FitInv
<1>4. s \in Request /\ sreq[s].state = "RESPONSE" /\ sreq[s].resp.mid = m.mid
  BY DEF Matched, InFlight
<1>5. SetRequest(s, n)
  BY <1>1
<1>6. /\ q.state = "RESPONSE" /\ q.resp.cur = sreq[s].resp.cur
      /\ q.resp.szx = sreq[s].resp.szx /\ q.resp.body = sreq[s].resp.body
      /\ [q EXCEPT !.resp.retrans = 0].state = "RESPONSE"
  <2>1. HasFields(sreq[s], FitFields) /\ HasFields(sreq[s].resp, ReplyFields)
    BY <1>3, <1>4 DEF AllFit, Fits
  <2> QED
    BY <1>4, <2>1 DEF HasFields, FitFields, ReplyFields
<1>7. n.state = "RESPONSE" \/ LastBlock(sreq[s].resp)
  <2>1. LastBlock(q.resp) <=> LastBlock(sreq[s].resp)
    BY <1>6 DEF LastBlock
  <2> QED
    BY <1>6, <2>1
<1> HIDE DEF q, n
<1>8. sreq'[r] = Settled(IF r = s THEN n ELSE sreq[r])
  BY <1>3, <1>5 DEF SetRequest, SetRequests, AllFit, IsArray
<1>9. \A p : p.state = "RESPONSE" => Settled(p) = p
  BY DEF Settled
<1>10. r = s /\ LastBlock(sreq[r].resp)
  BY <1>7, <1>8, <1>9
<1>11. Names(m, r) /\ Completes(r)
  BY <1>4, <1>10 DEF Names, Completes, Alive
<1>12. m \in UnderWay /\ m.to = "server" /\ m.type = "ACK"
  BY ArrivingGood, ArrivingUnder DEF TypeInv, BodyInv, NetInv, AckResponse
<1> QED
  BY <1>2, <1>11, <1>12 DEF AckSafe, ToServer

(* A server forgets a response of the resource for an acknowledgement only *)
(* when the client's request has ended, for every body and block size and  *)
(* whatever messages and acknowledgements of earlier blocks are lost,      *)
(* repeated or late: no message id comes back, so an acknowledgement names *)
(* the block it was sent for (handle_ack, parse_and_handle_response).  A   *)
(* request that ended with the response has all of it (ResponseIsIntact).  *)
THEOREM LastAckOfAll == Spec => LastAckEnds
<1>1. TypeInv /\ AckInv =>
        [\A r \in Request \ Observing :
           (/\ sreq[r].state = "RESPONSE" /\ sreq[r].resp.code = "OK"
            /\ \E m \in Arriving("server", sup) : AckResponse(m)
            /\ sreq'[r].state \in {"DONE", "NONE"})
              => creq[r].state \in {"DONE_CALLBACK", "DONE", "FREED"}]_vars
  BY AckEnds DEF Past
<1> QED
  BY <1>1, AckInvariance, PTL DEF LastAckEnds
-----------------------------------------------------------------------------
(***************************************************************************)
(* What the handler is given.  The client says that it has been called: it *)
(* sends no body only with what tells that the server has the whole of it. *)
(*                                                                         *)
(* `h` are the requests the handler has been given.                        *)
(***************************************************************************)
Marked(q, r, h) ==
  HasBlock(q.b2) \/ (0 < BodyLen[r] /\ BodyLen[r] <= q.b1off) => r \in h

Informs(m, h) == m.to = "client" /\ Shows(m) => m.token \in h

Wholesome(m, h) ==
  m.to = "server" /\ m.type \in {"CON", "NON"} /\ ~HasBlock(m.b1) =>
    m.pay = Whole(m.token) \/ m.token \in h

Says(m, h) == Informs(m, h) /\ Wholesome(m, h)
Short(m) == m.to = "server" /\ m.type \in {"ACK", "RST"}

Given == \A r \in Request : sreq[r].state \in {"USER", "RESPONSE"} => r \in handled

ClientMarks(h) ==
  /\ \A r \in Request : Marked(creq[r], r, h)
  /\ \A m \in Outgoing : Short(m)
  /\ \A m \in UnderWay : Says(m, h)

HandlerInv == peer = "own" => Given /\ ClientMarks(handled)

LEMMA RemainsMarked ==
  ASSUME NEW r \in Request, NEW q, NEW n, Remains(q, n, r), NEW h, Marked(q, r, h)
  PROVE  Marked(n, r, h)
<1>1. CASE Still(n, q)
  BY <1>1 DEF Marked, Still
<1>2. CASE n.b2 = NoBlock /\ n.b1off = 0
  <2>1. BodyLen[r] \in Nat
    BY WholeShape
  <2> QED
    BY <1>2, <2>1, NoBlockPlace DEF Marked
<1> QED
  BY <1>1, <1>2 DEF Remains

(* The fields of a request that say how far it is. *)
LEMMA FarKept ==
  ASSUME NEW p, NEW r, NEW q, Going(p, q, r), NEW m, NEW b, NEW state
  PROVE  LET Far(n) == n.b2 = q.b2 /\ n.b1off = q.b1off
         IN  /\ Far(SendAgain(q)) /\ Far(Dropped(q)) /\ Far([q EXCEPT !.state = state])
             /\ Opened(q, m).b1off = q.b1off /\ Opened(q, m).b2 \in {q.b2, NoBlock}
             /\ Stored(q, m).b1off = q.b1off /\ (HasBlock(m.b2) \/ Stored(q, m).b2 = q.b2)
             /\ Advanced(r, q, b).b2 = q.b2
             /\ Advanced(r, q, b).b1off =
                  IF BodyLen[r] - q.b1off > Size(q.b1size) THEN q.b1off + Size(q.b1size)
                                                          ELSE BodyLen[r]
<1>1. HasFields(q, AskedFields)
  BY DEF Going
<1>2. LET Far(n) == n.b2 = q.b2 /\ n.b1off = q.b1off
      IN  Far(SendAgain(q)) /\ Far(Dropped(q)) /\ Far([q EXCEPT !.state = state])
  BY <1>1 DEF HasFields, AskedFields, SendAgain, Dropped
<1>3. Opened(q, m).b1off = q.b1off /\ Opened(q, m).b2 \in {q.b2, NoBlock}
  BY <1>1 DEF HasFields, AskedFields, Opened
<1>4. Stored(q, m).b1off = q.b1off /\ (HasBlock(m.b2) \/ Stored(q, m).b2 = q.b2)
  BY <1>1 DEF HasFields, AskedFields, Stored
<1>5. /\ Advanced(r, q, b).b2 = q.b2
      /\ Advanced(r, q, b).b1off =
           IF BodyLen[r] - q.b1off > Size(q.b1size) THEN q.b1off + Size(q.b1size)
                                                   ELSE BodyLen[r]
  BY <1>1 DEF HasFields, AskedFields, Advanced
<1> QED
  BY <1>2, <1>3, <1>4, <1>5

(* The chunk after the acknowledged one is the last only if the server has *)
(* said so.                                                                *)
LEMMA AdvancedMarked ==
  ASSUME NEW r \in Request, NEW q, Going("own", q, r), NEW h, Marked(q, r, h),
         NEW m, m.token = r, m.to = "client", Answer("own", m), Informs(m, h),
         HasBlock(m.b1), m.b1.num = Chunk(q)
  PROVE  Marked(Advanced(r, q, m.b1), r, h)
<1> DEFINE n == Advanced(r, q, m.b1)
           size == Size(ClientSzx)
           len == BodyLen[r]
           off == q.b1off
<1>1. q.b1size = ClientSzx /\ Boundary(off, r)
  BY DEF Going
<1>2. n.b2 = q.b2 /\ n.b1off = IF len - off > size THEN off + size ELSE len
  BY <1>1, FarKept
<1> HIDE DEF n
<1>3. SUFFICES ASSUME 0 < len, len <= n.b1off, r \notin h PROVE FALSE
  <2>1. HasBlock(q.b2) => r \in h
    BY DEF Marked
  <2>2. Marked(n, r, h)
    BY <1>2, <1>3, <2>1 DEF Marked
  <2> QED
    BY <2>2 DEF n
<1>4. m.b1 \in Chunks(r) /\ m.b1 # NoBlock
  BY NoBlockPlace DEF Answer
<1>5. m.b1.num \in Nat /\ m.b1.more \in BOOLEAN /\ m.b1.szx = ClientSzx /\ LeavesMore(m.b1, r)
  BY <1>4 DEF Chunks
<1>6. m.b1.more = TRUE
  BY <1>3, <1>5 DEF Informs, Shows
<1>7. len \in Nat /\ off \in Nat /\ size \in Nat
  BY <1>1, WholeShape, ClientSize DEF Boundary
<1>8. off < len
  BY <1>3, <1>7 DEF Marked
<1>9. PICK k \in Nat : off = k * size
  BY <1>1, <1>8 DEF Boundary
<1>10. m.b1.num = k
  <2>1. Chunk(q) = off \div size
    BY <1>1 DEF Chunk
  <2>2. off \div size = k
    BY <1>7, <1>9, ClientSize, Division
  <2> QED
    BY <2>1, <2>2
<1>11. Offset(m.b1) = off
  BY <1>5, <1>9, <1>10 DEF Offset
<1>12. off + size < len
  BY <1>5, <1>6, <1>11 DEF LeavesMore
<1> HIDE DEF off, size, len
<1>13. n.b1off = off + size
  BY <1>2, <1>7, <1>12
<1> QED
  BY <1>3, <1>7, <1>12, <1>13

LEMMA OutcomeMarked ==
  ASSUME NEW r \in Request, NEW m, Asked("own", creq[r], r), NEW h, Marked(creq[r], r, h),
         Answer("own", m), m.token = r, m.to = "client", Informs(m, h)
  PROVE  Marked(Outcome(r, m).req, r, h)
<1> DEFINE open == Opened(creq[r], m)
           q == Stored(open, m)
           acks == HasBlock(m.b1) /\ IsSuccess(m.code)
           restarts == /\ HasBlock(m.b1) /\ m.code = "TOO_LARGE"
                       /\ ~q.restarted /\ Adopts(r, q, m.b1.szx)
           next == IF acks THEN Advanced(r, q, m.b1) ELSE q
           again == [q EXCEPT !.b1size = m.b1.szx, !.b1off = 0, !.restarted = TRUE]
           over == [next EXCEPT !.state = "DONE_CALLBACK"]
           out == Outcome(r, m).req
<1>1. \/ out = Dropped(open)
      \/ out = open
      \/ /\ ~Held(open, m) /\ ~Misplaced(open, m)
         /\ \/ restarts /\ out = SendAgain(again)
            \/ out = q
            \/ out = Dropped(q)
            \/ (acks => m.b1.num = Chunk(q)) /\ out = SendAgain(next)
            \/ /\ ~(acks /\ m.b1.num < Chunk(q)) /\ ~(acks /\ m.b1.num > Chunk(q))
               /\ out = SendAgain(next) \/ out = over
  BY DEF Outcome
<1>2. ~HasBlock(m.b2) => m.b2 = NoBlock
  BY BlockTypes DEF Answer
<1>3. Going("own", creq[r], r)
  BY DEF Asked
<1>4. Going("own", open, r) /\ (~HasBlock(m.b2) => open.resp.body = <<>>) /\ Marked(open, r, h)
  <2>1. Going("own", open, r) /\ (m.b2 = NoBlock => open.resp.body = <<>>)
    BY <1>3, OpenedGoing, OpenedEmpty
  <2>2. open.b1off = creq[r].b1off /\ open.b2 \in {creq[r].b2, NoBlock}
    BY <1>3, FarKept
  <2> HIDE DEF open
  <2>3. Marked(open, r, h)
    BY <2>2, NoBlockPlace DEF Marked
  <2> QED
    BY <1>2, <2>1, <2>3
<1> HIDE DEF open
<1>5. Marked(Dropped(open), r, h)
  <2>1. Dropped(open).b2 = open.b2 /\ Dropped(open).b1off = open.b1off
    BY <1>4, FarKept
  <2> QED
    BY <1>4, <2>1 DEF Marked
<1>6. CASE ~Held(open, m) /\ ~Misplaced(open, m)
  <2>1. Going("own", q, r)
    BY <1>4, <1>6, StoredGoing
  <2>2. Marked(q, r, h)
    <3>1. q.b1off = open.b1off /\ (HasBlock(m.b2) \/ q.b2 = open.b2)
      <4>1. Going("own", open, r)
        BY <1>4
      <4>2. LET n == Stored(open, m)
            IN  n.b1off = open.b1off /\ (HasBlock(m.b2) \/ n.b2 = open.b2)
        BY <4>1, FarKept
      <4> QED
        BY <4>2
    <3>2. HasBlock(m.b2) => r \in h
      BY DEF Informs, Shows
    <3> HIDE DEF q
    <3> QED
      BY <1>4, <3>1, <3>2 DEF Marked
  <2> HIDE DEF q
  <2>3. ~restarts
    <3>1. SUFFICES ASSUME restarts PROVE FALSE
      OBVIOUS
    <3>2. m.b1.szx = ClientSzx
      BY <3>1, NoBlockPlace DEF Answer, Chunks
    <3>3. q.b1size = ClientSzx
      BY <2>1 DEF Going
    <3> QED
      BY <3>1, <3>2, <3>3, ClientAssumption DEF Adopts
  <2>4. acks => HasBlock(m.b1)
    OBVIOUS
  <2>5. HasBlock(m.b1) => m.b1.num \in Nat /\ m.b1 \in Chunks(r)
    BY NoBlockPlace DEF Answer, Chunks
  <2>6. Chunk(q) \in Int
    <3>1. q.b1size = ClientSzx /\ q.b1off \in Nat
      BY <2>1 DEF Going, Boundary
    <3> QED
      BY <3>1, ClientSize, Division DEF Chunk
  <2>7. acks /\ ~(m.b1.num < Chunk(q)) /\ ~(m.b1.num > Chunk(q)) => m.b1.num = Chunk(q)
    <3> HIDE DEF acks
    <3> QED
      BY <2>4, <2>5, <2>6
  <2>8. ASSUME acks => m.b1.num = Chunk(q)
        PROVE  Going("own", next, r) /\ Marked(next, r, h)
    <3>1. CASE acks
      <4>1. Marked(Advanced(r, q, m.b1), r, h)
        BY <2>1, <2>2, <2>8, <3>1, AdvancedMarked
      <4>2. Going("own", Advanced(r, q, m.b1), r)
        BY <2>1, <2>4, <2>5, <3>1, AdvancedGoing
      <4> QED
        BY <3>1, <4>1, <4>2
    <3>2. CASE ~acks
      BY <2>1, <2>2, <3>2
    <3> QED
      BY <3>1, <3>2
  <2> HIDE DEF acks, restarts, next
  <2>9. ASSUME acks => m.b1.num = Chunk(q)
        PROVE  Marked(SendAgain(next), r, h) /\ Marked(over, r, h)
    <3>1. Going("own", next, r) /\ Marked(next, r, h)
      BY <2>8, <2>9
    <3>2. /\ SendAgain(next).b2 = next.b2 /\ SendAgain(next).b1off = next.b1off
          /\ over.b2 = next.b2 /\ over.b1off = next.b1off
      BY <3>1, FarKept
    <3> HIDE DEF over
    <3> QED
      BY <3>1, <3>2 DEF Marked
  <2>10. Marked(Dropped(q), r, h)
    <3>1. Dropped(q).b2 = q.b2 /\ Dropped(q).b1off = q.b1off
      BY <2>1, FarKept
    <3> QED
      BY <2>2, <3>1 DEF Marked
  <2> HIDE DEF over, again, out
  <2>11. Marked(out, r, h)
    BY <1>1, <1>4, <1>5, <2>2, <2>3, <2>7, <2>9, <2>10
  <2> QED
    BY <2>11 DEF out
<1>7. CASE out \in {Dropped(open), open}
  <2> HIDE DEF out
  <2>1. Marked(out, r, h)
    BY <1>4, <1>5, <1>7
  <2> QED
    BY <2>1 DEF out
<1> QED
  BY <1>1, <1>6, <1>7

(* What the client sends. *)
LEMMA RequestPacketWhole ==
  ASSUME NEW r \in Request, Asked("own", creq[r], r), NEW h, Marked(creq[r], r, h)
  PROVE  Says(RequestPacket(r), h)
<1> DEFINE q == creq[r]
           m == RequestPacket(r)
           size == Size(q.b1size)
           carries == q.b2.num <= 0 /\ q.b1off < BodyLen[r]
           num == q.b1off \div size
<1>1. /\ m.to = "server" /\ m.type = TypeOf[r] /\ m.token = r
      /\ m.pay = IF carries THEN BlockOf(Whole(r), num, q.b1size) ELSE <<>>
  BY DEF RequestPacket, Message, Whole
<1>2. Question("own", m)
  BY RequestPacketGood
<1> HIDE DEF m
<1>3. SUFFICES ASSUME ~HasBlock(m.b1), r \notin h PROVE m.pay = Whole(r)
  BY <1>1 DEF Says, Informs, Wholesome, m
<1>4. m.pay \in {<<>>, Whole(r)}
  <2>1. m.type \in {"CON", "NON"}
    BY <1>1, ClientAssumption
  <2> QED
    BY <1>1, <1>2, <1>3, <2>1 DEF Question, Chunked
<1>5. BodyLen[r] \in Nat /\ Whole(r) \in Seq(Unit) /\ Len(Whole(r)) = BodyLen[r]
  BY WholeShape
<1>6. /\ q.b1size = ClientSzx /\ q.b1off \in Nat /\ q.b2 \in Blocks
      /\ ~HasBlock(q.b2) /\ ~(0 < BodyLen[r] /\ BodyLen[r] <= q.b1off)
  BY <1>3 DEF Asked, Going, Boundary, Marked
<1>7. CASE BodyLen[r] = 0
  <2>1. Whole(r) = <<>>
    BY <1>5, <1>7
  <2> QED
    BY <1>4, <2>1
<1>8. CASE BodyLen[r] # 0
  <2>1. q.b2 = NoBlock
    BY <1>6, BlockTypes
  <2>2. carries
    BY <1>5, <1>6, <1>8, <2>1, NoBlockPlace
  <2>3. num \in Nat /\ num * size <= q.b1off /\ size \in Nat /\ size > 0 /\ num * size \in Nat
    BY <1>6, ClientSize, Division, Products
  <2> DEFINE from == num * size
             upto == IF from + size < BodyLen[r] THEN from + size ELSE BodyLen[r]
  <2>4. m.pay = SubSeq(Whole(r), from + 1, upto)
    BY <1>1, <1>5, <2>2 DEF BlockOf
  <2>5. from \in Nat /\ upto \in Nat /\ from < upto /\ upto <= BodyLen[r]
    <3>1. from < BodyLen[r] /\ from \in Nat
      BY <1>5, <1>6, <2>2, <2>3
    <3> HIDE DEF from, size
    <3> QED
      BY <1>5, <2>3, <3>1
  <2> HIDE DEF from, upto
  <2>6. Len(m.pay) = upto - from
    BY <1>5, <2>4, <2>5
  <2>7. m.pay # <<>>
    BY <2>5, <2>6
  <2> QED
    BY <1>4, <2>7
<1> QED
  BY <1>7, <1>8

LEMMA SlotSays ==
  ASSUME NEW m, Short(m), NEW h
  PROVE  Says(m, h)
BY DEF Short, Says, Informs, Wholesome

LEMMA EmptyShort ==
  ASSUME NEW type \in {"ACK", "RST"}, NEW mid, NEW conn
  PROVE  Short(EmptyMessage("server", type, mid, conn))
BY DEF Short, EmptyMessage, Message

(* A step of the client. *)
LEMMA ClientMarksStep ==
  ASSUME AskedInv, NetInv, peer = "own", NEW h, ClientMarks(h),
         ClientNext \/ \E r \in Request : HandleClientTimeout(r) /\ UNCHANGED netVars
  PROVE  ClientMarks(h)'
<1> DEFINE Told == \A r \in Request : Marked(creq'[r], r, h)
           Old == \A m \in Outgoing' : m \in Outgoing \/ Short(m)
           Under == \A m \in UnderWay' : m \in UnderWay \/ Says(m, h)
<1>0. Carried(peer, net, late)
  BY DEF NetInv
<1>1. UNCHANGED netVars => Under
  BY DEF UnderWay, netVars
<1>2. UNCHANGED <<cack, crst>> => Old
  BY DEF Outgoing
<1>3. Calm => Told
  BY RemainsMarked DEF Calm, ClientMarks
<1>4. SUFFICES Told /\ Old /\ Under
  BY DEF ClientMarks, Marked, Says, Informs, Wholesome, Short, Shows
<1>5. CASE \E r \in Request : New(r) \/ Send(r) \/ Cancel(r) \/ Deregister(r) \/ Free(r)
  <2>1. Calm
    BY <1>5, CallsCalm
  <2>2. UNCHANGED netVars /\ UNCHANGED <<cack, crst>>
    BY <1>5 DEF New, Send, Cancel, Deregister, Free
  <2> QED
    BY <1>1, <1>2, <1>3, <2>1, <2>2
<1>6. CASE \E c \in Conn : RemoveClientConnection(c)
  <2>1. Calm
    BY <1>6, ConnectionCalm
  <2>2. UNCHANGED netVars /\ UNCHANGED <<cack, crst>>
    BY <1>6 DEF RemoveClientConnection
  <2> QED
    BY <1>1, <1>2, <1>3, <2>1, <2>2
<1>7. CASE \E r \in Request : HandleClientTimeout(r) /\ UNCHANGED netVars
  <2>1. Calm
    BY <1>7, TimeoutCalm
  <2>2. UNCHANGED netVars /\ UNCHANGED <<cack, crst>>
    BY <1>7 DEF HandleClientTimeout
  <2> QED
    BY <1>1, <1>2, <1>3, <2>1, <2>2
<1>8. CASE ClientLoop
  <2>1. Calm
    BY <1>8, LoopCalm
  <2>2. Outgoing' \subseteq Outgoing
    BY <1>8 DEF ClientLoop, SendClientRst, SendClientAck, SendRequest, HandleCallback, Outgoing
  <2>3. UNCHANGED netVars \/ \E m : Sends(m) /\ Says(m, h)
    <3>1. CASE SendClientRst \/ SendClientAck
      BY <3>1, SlotSays DEF SendClientRst, SendClientAck, ClientMarks, Outgoing
    <3>2. CASE SendRequest
      <4>1. PICK r \in Request : Sends(RequestPacket(r)) \/ UNCHANGED netVars
        BY <3>2 DEF SendRequest
      <4>2. Asked("own", creq[r], r) /\ Marked(creq[r], r, h)
        BY DEF AskedInv, ClientMarks
      <4> QED
        BY <4>1, <4>2, RequestPacketWhole
    <3>3. CASE HandleCallback
      BY <3>3 DEF HandleCallback
    <3> QED
      BY <1>8, <3>1, <3>2, <3>3 DEF ClientLoop
  <2>4. ASSUME NEW m, Sends(m), Says(m, h) PROVE Under
    BY <1>0, <2>4, SendsUnder
  <2> QED
    BY <1>1, <1>3, <2>1, <2>2, <2>3, <2>4
<1>9. CASE \E m \in Arriving("client", cup) : ClientHandles(m)
  <2>1. PICK m \in Arriving("client", cup) : ClientHandles(m)
    BY <1>9
  <2>2. Good(peer, m) /\ m.to = "client" /\ m \in UnderWay
    BY <1>0, <2>1, ArrivingGood, ArrivingUnder
  <2>3. Answer("own", m) /\ Informs(m, h)
    BY <2>2 DEF Good, Question, ClientMarks, Says
  <2>4. Arrives(m)
    BY <2>1 DEF ClientHandles, HandleAck, HandleRst, Unexpected, HandleResponse
  <2>5. Under
    BY <1>0, <2>4, ArrivesUnder
  <2>6. CASE HandleResponse(m)
    <3> DEFINE out == Outcome(m.token, m).req
    <3>1. creq' = [creq EXCEPT ![m.token] = out]
      BY <2>6 DEF HandleResponse
    <3>2. m.token \in Request => Marked(out, m.token, h)
      <4>1. m.token \in Request => Asked("own", creq[m.token], m.token)
                                     /\ Marked(creq[m.token], m.token, h)
        BY DEF AskedInv, ClientMarks
      <4> QED
        BY <2>2, <2>3, <4>1, OutcomeMarked
    <3> HIDE DEF out
    <3>3. \A s \in Request : creq'[s] = IF s = m.token THEN out ELSE creq[s]
      BY <3>1 DEF AskedInv, IsArray
    <3>4. Told
      BY <3>2, <3>3 DEF ClientMarks
    <3>5. crst' = crst /\ cack' \subseteq cack \cup {EmptyMessage("server", "ACK", m.mid, m.conn)}
      BY <2>6 DEF HandleResponse
    <3>6. Old
      BY <3>5, EmptyShort DEF Outgoing
    <3> QED
      BY <2>5, <3>4, <3>6
  <2>7. CASE HandleAck(m) \/ HandleRst(m) \/ Unexpected(m)
    <3>1. Calm
      BY <2>7, EmptyCalm
    <3>2. Outgoing' \subseteq Outgoing \cup {EmptyMessage("server", "RST", m.mid, m.conn)}
      BY <2>7 DEF HandleAck, HandleRst, Unexpected, Outgoing
    <3>3. Old
      BY <3>2, EmptyShort
    <3> QED
      BY <1>3, <2>5, <3>1, <3>3
  <2> QED
    BY <2>1, <2>6, <2>7 DEF ClientHandles
<1> QED
  BY <1>5, <1>6, <1>7, <1>8, <1>9 DEF ClientNext

(* A step of the server: what it says, it says of what was given. *)
LEMMA ServerMarksStep ==
  ASSUME TypeInv, AckSafe, peer = "own", UNCHANGED clientVars,
         Given, ClientMarks(handled), Handling,
         \/ ServerNext
         \/ \E r \in Request : (ExpireRequest(r) \/ ExpireNotification(r)) /\ UNCHANGED netVars
  PROVE  Given' /\ ClientMarks(handled)'
<1>1. Later
  BY ServerLater
<1>2. handled \subseteq handled' /\ \A r \in Request : sreq'[r].state = "USER" => r \in handled'
  BY DEF Handling
<1>3. Given'
  BY <1>1, <1>2 DEF Given, Later, Enters
<1>4. ASSUME NEW m \in UnderWay' PROVE Says(m, handled')
  <2>1. FitInv /\ ServedInv /\ TerseInv /\ NetInv
    BY DEF TypeInv, BodyInv, AckSafe
  <2>2. m \in UnderWay \/ Tells(m)
    BY <2>1, ServerTells
  <2>3. CASE m \in UnderWay
    BY <1>2, <2>3 DEF ClientMarks, Says, Informs, Wholesome
  <2>4. CASE Tells(m)
    BY <1>2, <2>4 DEF Given, Tells, Says, Informs, Wholesome
  <2> QED
    BY <2>2, <2>3, <2>4
<1>5. (\A r \in Request : Marked(creq'[r], r, handled')) /\ (\A m \in Outgoing' : Short(m))
  BY <1>2 DEF ClientMarks, Marked, Outgoing, clientVars
<1> QED
  BY <1>3, <1>4, <1>5 DEF ClientMarks, Marked, Says, Informs, Wholesome, Short, Shows

LEMMA InitHandler ==
  ASSUME Init
  PROVE  HandlerInv
<1>1. PICK s \in Scenarios : /\ InitClient(s.calls)
                             /\ InitServer({ConnOf[q] : q \in s.calls}, s.updates)
                             /\ InitNet(s.faults)
  BY DEF Init
<1>2. Given
  BY <1>1, AbsentFits DEF InitServer, Given
<1>3. \A r \in Request : Marked(creq[r], r, handled)
  <2>1. NewRequest.b2 = NoBlock /\ NewRequest.b1off = 0
    BY DEF NewRequest
  <2>2. \A r \in Request : BodyLen[r] \in Nat
    BY WholeShape
  <2> QED
    BY <1>1, <2>1, <2>2, NoBlockPlace DEF InitClient, Marked
<1>4. Outgoing = {} /\ UnderWay = {}
  BY <1>1 DEF InitClient, Outgoing, InitNet, UnderWay, On
<1> QED
  BY <1>2, <1>3, <1>4 DEF HandlerInv, ClientMarks

LEMMA StepHandler ==
  ASSUME TypeInv, AckInv, HandlerInv, [Next]_vars
  PROVE  HandlerInv'
<1>0. peer' = peer /\ Carried(peer, net, late)
  BY DEF Next, Step, vars, InClient, InServer, InOther, Trouble, Undeliverable, ClientTimer,
         ServerTimer, TypeInv, BodyInv, NetInv
<1> SUFFICES ASSUME peer = "own" PROVE Given' /\ ClientMarks(handled)'
  BY <1>0 DEF HandlerInv
<1>1. AckSafe /\ Given /\ ClientMarks(handled)
  BY DEF AckInv, HandlerInv
<1>2. handled \subseteq handled'
  BY DEF Next, Handling, vars
<1>3. ASSUME UNCHANGED serverVars, \A r \in Request : Marked(creq'[r], r, handled),
             \A m \in Outgoing' : Short(m), \A m \in UnderWay' : Says(m, handled)
      PROVE  Given' /\ ClientMarks(handled)'
  <2>1. Given'
    BY <1>1, <1>2, <1>3 DEF Given, serverVars
  <2>2. /\ \A r \in Request : Marked(creq'[r], r, handled')
        /\ \A m \in UnderWay' : Says(m, handled')
    BY <1>2, <1>3 DEF Marked, Says, Informs, Wholesome
  <2> QED
    BY <1>3, <2>1, <2>2 DEF ClientMarks, Marked, Says, Informs, Wholesome, Short, Shows
<1>4. CASE InClient(ClientNext) \/ \E r \in Request : ClientTimer(r)
  <2>1. /\ ClientNext \/ \E r \in Request : HandleClientTimeout(r) /\ UNCHANGED netVars
        /\ UNCHANGED serverVars
    BY <1>4 DEF InClient, ClientTimer
  <2>2. AskedInv /\ NetInv
    BY DEF TypeInv, BodyInv
  <2>3. \A h : ClientMarks(h) => ClientMarks(h)'
    BY <2>1, <2>2, ClientMarksStep
  <2> QED
    BY <1>1, <1>3, <2>1, <2>3 DEF ClientMarks
<1>5. CASE InServer(ServerNext) \/ \E r \in Request : ServerTimer(r)
  <2>1. /\ UNCHANGED clientVars
        /\ \/ ServerNext
           \/ \E r \in Request :
                (ExpireRequest(r) \/ ExpireNotification(r)) /\ UNCHANGED netVars
    BY <1>5 DEF InServer, ServerTimer
  <2>2. CASE Handling
    BY <1>1, <2>1, <2>2, ServerMarksStep
  <2>3. CASE UNCHANGED vars
    BY <1>1, <2>3 DEF vars, clientVars, serverVars, netVars, Given, ClientMarks, Marked, Says,
                      Informs, Wholesome, Short, Shows, Outgoing, UnderWay
  <2> QED
    BY <2>2, <2>3 DEF Next
<1>6. CASE Trouble \/ Undeliverable \/ UNCHANGED vars
  <2>1. UNCHANGED serverVars /\ UNCHANGED clientVars
    BY <1>6 DEF Trouble, Undeliverable, vars
  <2>2. UnderWay' \subseteq UnderWay
    <3>1. CASE Trouble
      <4>1. PICK to, m : m \in Arriving(to, Conn) /\ (Lose(m) \/ Delay(m) \/ Copy(m))
        BY <3>1 DEF Trouble, OnTimeFor
      <4> QED
        BY <1>0, <4>1, ArrivingUnder, TroubleUnder
    <3>2. CASE Undeliverable
      BY <1>0, <3>2, ArrivesUnder DEF Undeliverable
    <3>3. CASE UNCHANGED vars
      BY <3>3 DEF vars, netVars, UnderWay
    <3> QED
      BY <1>6, <3>1, <3>2, <3>3
  <2> QED
    BY <1>1, <1>3, <2>1, <2>2 DEF ClientMarks, clientVars, Outgoing
<1>7. ~InOther(OtherNext)
  BY DEF InOther
<1> QED
  BY <1>4, <1>5, <1>6, <1>7 DEF Next, Step

(* The message that hands a request over has the rest of the body. *)
LEMMA TakenWhole ==
  ASSUME NEW r \in Request, NEW q, HasFields(q, ServedFields), Prefix(q.body, r),
         NEW m, m.token = r, Chunked(m), ~HasBlock(m.b1) => m.pay = Whole(r),
         Refusal(q, m) = "NONE", Taken(q, m).state = "USER"
  PROVE  Taken(q, m).body = Whole(r)
<1> DEFINE more == HasBlock(m.b1) /\ m.b1.more
           chunk == [q EXCEPT !.b1 = m.b1, !.mid = m.mid, !.body = q.body \o m.pay,
                              !.continue = q.continue \/ more]
           plain == [q EXCEPT !.body = IF m.pay = <<>> THEN q.body ELSE m.pay]
           new == IF HasBlock(m.b1) THEN chunk ELSE plain
           state == IF more THEN "REQUEST" ELSE "USER"
           n == [new EXCEPT !.b2req = IF HasBlock(m.b2) THEN m.b2 ELSE new.b2req,
                            !.state = state]
<1>1. Taken(q, m) = n
  BY DEF Taken
<1>2. m.b1.more \in BOOLEAN
  BY ChunksAreBlocks, BlockTypes DEF Chunked
<1>3. PICK k \in 0..BodyLen[r] : q.body = SubSeq(Whole(r), 1, k)
  BY DEF Prefix
<1>4. BodyLen[r] \in Nat /\ Whole(r) \in Seq(Unit) /\ Len(Whole(r)) = BodyLen[r]
        /\ SubSeq(Whole(r), 1, BodyLen[r]) = Whole(r)
  BY WholeShape
<1>5. HasFields(new, ServedFields)
        /\ new.body = IF HasBlock(m.b1) THEN q.body \o m.pay
                      ELSE IF m.pay = <<>> THEN q.body ELSE m.pay
  <2>1. HasFields(chunk, ServedFields) /\ chunk.body = q.body \o m.pay
    <3> HIDE DEF more
    <3> QED
      BY DEF HasFields, ServedFields
  <2>2. HasFields(plain, ServedFields)
          /\ plain.body = IF m.pay = <<>> THEN q.body ELSE m.pay
    BY DEF HasFields, ServedFields
  <2> HIDE DEF chunk, plain
  <2> QED
    BY <2>1, <2>2
<1> HIDE DEF new, state
<1>6. n.body = new.body /\ n.state = state
  BY <1>5 DEF HasFields, ServedFields
<1>7. ~more
  BY <1>1, <1>6 DEF state
<1> HIDE DEF n
<1>8. CASE HasBlock(m.b1)
  <2>1. Offset(m.b1) = Len(q.body)
    BY <1>8 DEF Refusal
  <2>2. Offset(m.b1) = k
    BY <1>3, <2>1, PrefixLength
  <2>3. m.b1.more = FALSE
    BY <1>2, <1>7, <1>8
  <2>4. m.pay = SubSeq(Whole(r), k + 1, BodyLen[r])
    BY <1>8, <2>2, <2>3 DEF Chunked
  <2>5. q.body \o m.pay = Whole(r)
    <3> DEFINE whole == Whole(r)
    <3>1. whole \in Seq(Unit) /\ k \in 0..Len(whole) /\ BodyLen[r] \in k..Len(whole)
      BY <1>4
    <3>2. SubSeq(whole, 1, BodyLen[r]) = whole
      BY <1>4
    <3> HIDE DEF whole
    <3>3. SubSeq(whole, 1, k) \o SubSeq(whole, k + 1, BodyLen[r]) = SubSeq(whole, 1, BodyLen[r])
      BY <3>1, JoinParts
    <3> QED
      BY <1>3, <2>4, <3>2, <3>3 DEF whole
  <2> QED
    BY <1>1, <1>5, <1>6, <1>8, <2>5
<1>9. CASE ~HasBlock(m.b1)
  <2>1. m.pay = Whole(r)
    BY <1>9
  <2>2. m.pay = <<>> => q.body = Whole(r)
    <3>1. SUFFICES ASSUME Whole(r) = <<>> PROVE q.body = Whole(r)
      BY <2>1
    <3>2. BodyLen[r] = 0
      BY <1>4, <3>1
    <3> QED
      BY <1>3, <1>4, <3>2
  <2> QED
    BY <1>1, <1>5, <1>6, <1>9, <2>1, <2>2
<1> QED
  BY <1>8, <1>9

LEMMA CallWhole ==
  ASSUME TypeInv, TypeInv', AckInv, AckInv', HandlerInv, Next, NEW r \in Request, Called(r)
  PROVE  /\ sreq'[r].body = SubSeq(Whole(r), 1, Len(sreq'[r].body))
         /\ r \notin handled => sreq'[r].body = Whole(r)
<1>1. peer' = peer
  BY DEF Next, Step, vars, InClient, InServer, InOther, Trouble, Undeliverable, ClientTimer,
         ServerTimer
<1>2. peer = "own"
  BY <1>1 DEF AckInv, Called
<1>3. AckSafe /\ Given /\ ClientMarks(handled)
  BY <1>2 DEF AckInv, HandlerInv
<1>4. sreq'[r].body = SubSeq(Whole(r), 1, Len(sreq'[r].body))
  <2>1. Served(sreq'[r], r)
    BY DEF TypeInv, BodyInv, ServedInv, AllServed
  <2>2. PICK n \in 0..BodyLen[r] : sreq'[r].body = SubSeq(Whole(r), 1, n)
    BY <2>1 DEF Served, Receiving, Prefix, Called
  <2> QED
    BY <2>2, PrefixLength
<1>5. ServerNext \/ \E s \in Request :
                      (ExpireRequest(s) \/ ExpireNotification(s)) /\ UNCHANGED netVars
  <2>1. sreq' # sreq
    BY DEF Called
  <2> QED
    BY <2>1 DEF Next, Step, InClient, InServer, InOther, Trouble, Undeliverable, ClientTimer,
                ServerTimer, serverVars
<1>6. Handed(r)
  BY <1>2, <1>3, <1>5, ServerLater DEF Later, Enters, Called
<1>7. ASSUME r \notin handled PROVE sreq'[r].body = Whole(r)
  <2>0. PICK m \in Arriving("server", sup) :
          /\ Asks(m) /\ m.token = r
          /\ \E q : /\ Begun(q) \/ (q = sreq[r] /\ q.state = "REQUEST")
                   /\ Refusal(q, m) = "NONE" /\ sreq'[r] = Taken(q, m)
    BY <1>6 DEF Handed
  <2>1. PICK q : /\ Asks(m) /\ m.token = r
                 /\ Begun(q) \/ (q = sreq[r] /\ q.state = "REQUEST")
                 /\ Refusal(q, m) = "NONE" /\ sreq'[r] = Taken(q, m)
    BY <2>0
  <2>2. Good(peer, m) /\ m.to = "server" /\ m \in UnderWay
    BY ArrivingGood, ArrivingUnder DEF TypeInv, BodyInv, NetInv
  <2>3. Chunked(m)
    BY <1>2, <2>1, <2>2 DEF Good, Answer, Question, Asks
  <2>4. ~HasBlock(m.b1) => m.pay = Whole(r)
    BY <1>3, <1>7, <2>1, <2>2 DEF ClientMarks, Says, Wholesome, Asks
  <2>5. HasFields(q, ServedFields) /\ Prefix(q.body, r)
    <3>1. CASE Begun(q)
      <4>1. 0 \in 0..BodyLen[r] /\ SubSeq(Whole(r), 1, 0) = <<>>
        BY WholeShape
      <4> QED
        BY <3>1, <4>1 DEF Begun, Prefix
    <3>2. CASE q = sreq[r] /\ q.state = "REQUEST"
      <4>1. Served(q, r)
        BY <3>2 DEF TypeInv, BodyInv, ServedInv, AllServed
      <4> QED
        BY <3>2, <4>1 DEF Served, Holding, Receiving
    <3> QED
      BY <2>1, <3>1, <3>2
  <2>6. Taken(q, m).state = "USER"
    BY <2>1 DEF Called
  <2> QED
    BY <2>1, <2>3, <2>4, <2>5, <2>6, TakenWhole
<1> QED
  BY <1>4, <1>7

(* The first time the resource's handler is called for a request it is     *)
(* given the whole of its body, and whenever it is called again a part of  *)
(* the body from its start, for every body, block size and limit, whatever *)
(* chunks are lost, repeated, late or come after the server has discarded  *)
(* the transfer: a client leaves the body out only when it has seen that   *)
(* the handler was called (handle_data_for_request, request_create_packet).*)
THEOREM RequestIsIntact == Spec => RequestIntact
<1>1. Init => HandlerInv
  BY InitHandler
<1>2. TypeInv /\ AckInv /\ HandlerInv /\ [Next]_vars => HandlerInv'
  BY StepHandler
<1>3. TypeInv /\ AckInv /\ TypeInv' /\ AckInv' /\ HandlerInv /\ [Next]_vars =>
        [\A r \in Request : Called(r) =>
           LET whole == Units(r, BodyLen[r])
               got == sreq'[r].body
           IN  /\ got = SubSeq(whole, 1, Len(got))
               /\ r \notin handled => got = whole]_vars
  BY CallWhole DEF Whole
<1> QED
  BY <1>1, <1>2, <1>3, AckInvariance, PTL DEF Spec, RequestIntact
=============================================================================
