----------------------------- MODULE StreamPair -----------------------------
(***************************************************************************)
(* Two streams, the initiator and the responder of one connection, their   *)
(* event loops, their applications, and a network that loses, duplicates   *)
(* and reorders packets.                                                   *)
(*                                                                         *)
(* A stream is used by one thread.  The integrator's loop asks             *)
(* nabto_stream_next_event_to_handle, performs that event and reports it   *)
(* with nabto_stream_event_handled: one action per event type, guarded by  *)
(* NextEvent.  nabto_stream_handle_packet is one action per packet type;   *)
(* the segments of an ack packet are handled one by one by ParseData and   *)
(* ParseFin, and nothing else happens until the packet is finished.        *)
(*                                                                         *)
(* The integrator and the allocators are not part of the repository: their *)
(* actions (Release, AnswerRst, Silence, EarlyTimer, Lose and the network  *)
(* in Arrives) follow from how the streaming component is used.            *)
(***************************************************************************)
EXTENDS StreamSender, StreamReceiver

Initiator == "initiator"
Responder == "responder"
End == {Initiator, Responder}

Peer(e) == IF e = Initiator THEN Responder ELSE Initiator

CONSTANTS
  StartSeq,          \* nabto_stream_set_start_sequence_number of each end
  SegmentSizes,      \* segment sizes an end may be configured with
  ReplayChoices,     \* sets of ends that may keep replay protection enabled
  Deferred,          \* application events whose dispatch may be delayed
  Closers,           \* ends whose application calls nabto_stream_close
  MaxWrites,         \* bound: data segments each application writes
  MaxSegsPerWrite,   \* bound: segments of one write_buffer call
  MaxSegsPerPacket,  \* bound: segments that fit in a packet
  MaxClock,          \* bound: packets an end creates
  MaxLoss,           \* bound: packets lost
  MaxDup,            \* bound: packets delivered twice
  MaxReorder,        \* bound: packets overtaken by a later one
  MaxSpurious,       \* bound: timers that pass while something is pending
  MaxAvailable,      \* bound: calls of nabto_stream_*_segment_available
  MaxAborts,         \* bound: streams stopped before they are closed
  MaxDeaths          \* bound: calls of nabto_stream_connection_died

EventKinds == {"opened", "dataReady", "dataWrite", "writeClosed", "closed"}

ASSUME PairAssumption ==
  /\ StartSeq \in [End -> Nat]
  /\ SegmentSizes \subseteq Nat \ {0}
  /\ ReplayChoices \subseteq SUBSET End
  /\ Deferred \subseteq EventKinds
  /\ Closers \subseteq End
  /\ MaxWrites \in [End -> Nat]
  /\ MaxSegsPerWrite \in Nat \ {0}
  /\ MaxSegsPerPacket \in Nat \ {0}
  /\ MaxClock \in Nat
  /\ MaxLoss \in Nat /\ MaxDup \in Nat /\ MaxReorder \in Nat /\ MaxSpurious \in Nat
  /\ MaxAvailable \in Nat /\ MaxAborts \in Nat /\ MaxDeaths \in Nat

VARIABLES
  ctl,    \* per end: state, retransmission timer, pending application events
  snd,    \* per end: the send half
  rcv,    \* per end: the receive half
  opt,    \* per end: negotiated segment sizes, replay protection, nonce
  inbox,  \* per end: the segments of the packet being parsed
  app,    \* per end: what the application has read, and whether it has closed
  net,    \* the packets in flight
  env     \* what is left of the bounds on the environment

vars == <<ctl, snd, rcv, opt, inbox, app, net, env>>
-----------------------------------------------------------------------------
(* Stream states, in the order of enum nabto_stream_state; RELEASED stands *)
(* for a stream the integrator has destroyed.                              *)

OpeningStates == {"ACCEPT", "WAIT_ACCEPT", "SYN_SENT", "SYN_RCVD"}
ClosedStates == {"CLOSED", "ABORTED", "ABORTED_RST"}
OpenStates == {"ESTABLISHED", "FIN_WAIT_1", "FIN_WAIT_2", "CLOSING", "TIME_WAIT",
               "CLOSE_WAIT", "LAST_ACK"}
StreamStates == {"IDLE", "RELEASED"} \cup OpeningStates \cup OpenStates \cup ClosedStates

(* The states in which next_event_to_handle looks for data to send. *)
TransmitStates == {"ESTABLISHED", "FIN_WAIT_1", "CLOSE_WAIT", "LAST_ACK", "CLOSING"}

(* A stamp is now, infinite, or in the future; a future stamp that has      *)
(* passed is tested like now.                                              *)
Timers == {"now", "inf", "future"}

Control == [st : StreamStates, timer : Timers, ev : SUBSET EventKinds]

(* Application events raised on entering a state. *)
Raised(old, new) ==
  CASE new = "ESTABLISHED" -> {"opened"}
    [] new = "FIN_WAIT_2" -> {"writeClosed"}
    [] new = "TIME_WAIT" -> IF old \in {"FIN_WAIT_1", "CLOSING"} THEN {"writeClosed"} ELSE {}
    [] new = "CLOSED" -> {"closed"} \cup (IF old = "LAST_ACK" THEN {"writeClosed"} ELSE {})
    [] new \in {"ABORTED", "ABORTED_RST"} -> {"closed"}
    [] OTHER -> {}

Raise(c, events) == [c EXCEPT !.ev = @ \cup (events \cap Deferred)]

(* nabto_stream_state_transition. *)
Transition(c, new) ==
  IF c.st = new THEN c
  ELSE Raise([c EXCEPT !.st = new,
                       !.timer = IF new \in {"SYN_SENT", "SYN_RCVD"} THEN "now"
                                 ELSE IF new \in {"ACCEPT", "WAIT_ACCEPT", "ESTABLISHED"} THEN "inf"
                                 ELSE @],
             Raised(c.st, new))

(* The order in which nabto_stream_dispatch_event delivers the events. *)
EventOrder == <<"opened", "dataReady", "dataWrite", "writeClosed", "closed">>

FirstEvent(events) ==
  EventOrder[CHOOSE i \in 1..Len(EventOrder) :
                /\ EventOrder[i] \in events
                /\ \A j \in 1..(i - 1) : EventOrder[j] \notin events]
-----------------------------------------------------------------------------
(* Packets.                                                                *)

SynPackets == [type : {"SYN"}, src : End, stamp : Nat, seq : Nat,
               maxSend : Nat \ {0}, maxRecv : Nat \ {0}, nonce : BOOLEAN]
SynAckPackets == [type : {"SYN_ACK"}, src : End, stamp : Nat, seq : Nat,
                  maxSend : Nat \ {0}, maxRecv : Nat \ {0}, nonce : BOOLEAN, ack : Ack]
AckPackets == [type : {"ACK"}, src : End, stamp : Nat, nonce : BOOLEAN, ack : Ack,
               data : SUBSET Nat, size : Nat, fin : Nat]
RstPackets == [type : {"RST"}, src : End, stamp : {0}]

Packets == SynPackets \cup SynAckPackets \cup AckPackets \cup RstPackets

RstPacket(e) == [type |-> "RST", src |-> e, stamp |-> 0]

Options == [maxSend : Nat \ {0}, maxRecv : Nat \ {0},
            replayOff : BOOLEAN, nonceValidated : BOOLEAN, sendNonce : BOOLEAN]

Inbox == [data : SUBSET Nat, size : Nat, fin : Nat]
EmptyInbox == [data |-> {}, size |-> 0, fin |-> NoFin]

(* No packet is being parsed. *)
Idle(e) == inbox[e] = EmptyInbox
NothingParsed == \A e \in End : Idle(e)

TypeOK ==
  /\ ctl \in [End -> Control]
  /\ DOMAIN snd = End
  /\ \A e \in End : snd[e].unacked \in SUBSET Nat /\ snd[e] \in SendHalf(snd[e].unacked)
  /\ rcv \in [End -> RecvHalf]
  /\ opt \in [End -> Options]
  /\ inbox \in [End -> Inbox]
  /\ app \in [End -> [got : Seq(Nat), eof : BOOLEAN, closed : BOOLEAN]]
  /\ net \subseteq Packets
  /\ env \in [loss : 0..MaxLoss, dup : 0..MaxDup, reorder : 0..MaxReorder,
               spurious : 0..MaxSpurious, available : 0..MaxAvailable, aborts : 0..MaxAborts, deaths : 0..MaxDeaths]

(* nabto_stream_init, init_initiator and init_responder, and the integrator's *)
(* settings of segment sizes and replay protection.                        *)
Init ==
  /\ ctl = [e \in End |-> [st |-> "IDLE", timer |-> "inf", ev |-> {}]]
  /\ snd = [e \in End |-> InitSend]
  /\ rcv = [e \in End |-> InitRecv]
  /\ \E send \in [End -> SegmentSizes], recv \in [End -> SegmentSizes], protected \in ReplayChoices :
       opt = [e \in End |-> [maxSend |-> send[e], maxRecv |-> recv[e],
                             replayOff |-> e \notin protected,
                             nonceValidated |-> e = Initiator, sendNonce |-> FALSE]]
  /\ inbox = [e \in End |-> EmptyInbox]
  /\ app = [e \in End |-> [got |-> <<>>, eof |-> FALSE, closed |-> FALSE]]
  /\ net = {}
  /\ env = [loss |-> MaxLoss, dup |-> MaxDup, reorder |-> MaxReorder,
            spurious |-> MaxSpurious, available |-> MaxAvailable, aborts |-> MaxAborts, deaths |-> MaxDeaths]
-----------------------------------------------------------------------------
(* The event loop.                                                         *)

(* next_event_to_handle first retries the allocations that failed. *)
NeedsPoll(e) ==
  \/ rcv[e].wait /\ RecvSegmentsFree(rcv[e]) > 0
  \/ snd[e].segWait /\ SendSegmentsFree(snd[e]) > 0

(* The event nabto_stream_next_event_to_handle answers; WAIT also stands   *)
(* for ET_NOTHING, which differs in the integrator's use of timers only.   *)
NextEvent(e) ==
  LET st == ctl[e].st
      passed == ctl[e].timer = "now"
  IN  IF st = "ACCEPT" THEN "ACCEPT"
      ELSE IF st \in {"IDLE", "WAIT_ACCEPT", "RELEASED"} THEN "WAIT"
      ELSE IF st = "SYN_SENT" /\ passed THEN "SYN"
      ELSE IF st = "SYN_RCVD" /\ passed THEN "SYN_ACK"
      ELSE IF st \in TransmitStates /\ DataToSend(snd[e]) THEN "DATA"
      ELSE IF st \in TransmitStates /\ snd[e].unacked # {} /\ passed THEN "TIMEOUT"
      ELSE IF st \in OpenStates /\ rcv[e].ackNow THEN "ACK"
      ELSE IF st = "ABORTED" THEN "RST"
      ELSE IF ctl[e].ev # {} THEN "APPLICATION_EVENT"
      ELSE IF st = "TIME_WAIT" THEN "TIME_WAIT"
      ELSE IF st \in ClosedStates THEN "CLOSED"
      ELSE "WAIT"

Turn(e, event) ==
  /\ NothingParsed
  /\ ~NeedsPoll(e)
  /\ NextEvent(e) = event

CanCreatePacket(e) == snd[e].clock < MaxClock

(* The retries of nabto_stream_allocate_next_*_segment. *)
Poll(e) ==
  /\ NothingParsed
  /\ ctl[e].st # "RELEASED"
  /\ NeedsPoll(e)
  /\ rcv' = [rcv EXCEPT ![e] = IF @.wait THEN AllocateNextRecvSegment(@) ELSE @]
  /\ snd' = [snd EXCEPT ![e] = IF @.segWait THEN AllocateNextSendSegment(@) ELSE @]
  /\ ctl' = [ctl EXCEPT ![e] = IF snd[e].segWait /\ snd'[e].hasSeg
                               THEN Raise(@, {"dataWrite"}) ELSE @]
  /\ UNCHANGED <<opt, inbox, app, net, env>>

(* ET_ACCEPT: the stream is put on the integrator's accept queue. *)
QueueAccept(e) ==
  /\ Turn(e, "ACCEPT")
  /\ ctl' = [ctl EXCEPT ![e] = Transition(@, "WAIT_ACCEPT")]
  /\ UNCHANGED <<snd, rcv, opt, inbox, app, net, env>>

(* ET_SYN: nabto_stream_create_syn_packet. *)
SendSyn(e) ==
  /\ Turn(e, "SYN")
  /\ CanCreatePacket(e)
  /\ net' = net \cup {[type |-> "SYN", src |-> e, stamp |-> snd[e].clock, seq |-> StartSeq[e],
                       maxSend |-> opt[e].maxSend, maxRecv |-> opt[e].maxRecv,
                       nonce |-> ~opt[e].replayOff]}
  /\ snd' = [snd EXCEPT ![e].clock = @ + 1]
  /\ ctl' = [ctl EXCEPT ![e].timer = "future"]
  /\ UNCHANGED <<rcv, opt, inbox, app, env>>

(* ET_SYN_ACK: nabto_stream_create_syn_ack_packet. *)
SendSynAck(e) ==
  /\ Turn(e, "SYN_ACK")
  /\ CanCreatePacket(e)
  /\ net' = net \cup {[type |-> "SYN_ACK", src |-> e, stamp |-> snd[e].clock, seq |-> StartSeq[e],
                       maxSend |-> opt[e].maxSend, maxRecv |-> opt[e].maxRecv,
                       nonce |-> ~opt[e].replayOff, ack |-> AckExtension(rcv[e])]}
  /\ snd' = [snd EXCEPT ![e].clock = @ + 1]
  /\ ctl' = [ctl EXCEPT ![e].timer = "future"]
  /\ UNCHANGED <<rcv, opt, inbox, app, env>>

(* nabto_stream_create_ack_packet with the segments `out`. *)
AckPacket(e, out) ==
  [type |-> "ACK", src |-> e, stamp |-> snd[e].clock, nonce |-> opt[e].sendNonce,
   ack |-> AckExtension(rcv[e]), data |-> out \ {snd[e].fin}, size |-> opt[e].maxSend,
   fin |-> IF snd[e].fin \in out THEN snd[e].fin ELSE NoFin]

Fills(e) ==
  {out \in SUBSET Sendable(snd[e]) :
      /\ PacketFill(snd[e], out)
      /\ Cardinality(out) <= MaxSegsPerPacket
      /\ out # {} \/ Sendable(snd[e]) = {}}

(* ET_DATA. *)
SendData(e) ==
  /\ Turn(e, "DATA")
  /\ CanCreatePacket(e)
  /\ \E out \in Fills(e) :
       /\ net' = net \cup {AckPacket(e, out)}
       /\ snd' = [snd EXCEPT ![e] = [WriteDataToPacket(@, out) EXCEPT !.probed = TRUE]]
  /\ opt' = [opt EXCEPT ![e].sendNonce = FALSE]
  /\ rcv' = [rcv EXCEPT ![e].ackNow = FALSE]
  /\ ctl' = [ctl EXCEPT ![e].timer = "future"]
  /\ UNCHANGED <<inbox, app, env>>

(* ET_ACK: the same packet, so it may carry data past the congestion       *)
(* window, but event_handled leaves the timer and the probe flag alone.    *)
SendAck(e) ==
  /\ Turn(e, "ACK")
  /\ CanCreatePacket(e)
  /\ \E out \in Fills(e) :
       /\ net' = net \cup {AckPacket(e, out)}
       /\ snd' = [snd EXCEPT ![e] = WriteDataToPacket(@, out)]
  /\ opt' = [opt EXCEPT ![e].sendNonce = FALSE]
  /\ rcv' = [rcv EXCEPT ![e].ackNow = FALSE]
  /\ UNCHANGED <<ctl, inbox, app, env>>

(* ET_TIMEOUT: nabto_stream_handle_timeout. *)
Timeout(e) ==
  /\ Turn(e, "TIMEOUT")
  /\ snd' = [snd EXCEPT ![e] = HandleTimeout(@)]
  /\ ctl' = [ctl EXCEPT ![e].timer = "future"]
  /\ UNCHANGED <<rcv, opt, inbox, app, net, env>>

(* ET_RST: nabto_stream_create_rst_packet. *)
SendRst(e) ==
  /\ Turn(e, "RST")
  /\ net' = net \cup {RstPacket(e)}
  /\ ctl' = [ctl EXCEPT ![e] = Transition(@, "ABORTED_RST")]
  /\ UNCHANGED <<snd, rcv, opt, inbox, app, env>>

(* ET_APPLICATION_EVENT: nabto_stream_dispatch_event. *)
DispatchEvent(e) ==
  /\ Turn(e, "APPLICATION_EVENT")
  /\ ctl' = [ctl EXCEPT ![e].ev = @ \ {FirstEvent(@)}]
  /\ UNCHANGED <<snd, rcv, opt, inbox, app, net, env>>

(* ET_TIME_WAIT: handle_time_wait does nothing, event_handled closes. *)
TimeWait(e) ==
  /\ Turn(e, "TIME_WAIT")
  /\ ctl' = [ctl EXCEPT ![e] = Transition(@, "CLOSED")]
  /\ UNCHANGED <<snd, rcv, opt, inbox, app, net, env>>
-----------------------------------------------------------------------------
(* Packets from the peer.                                                  *)

(* The packets of the same end that p overtakes; rst packets carry no stamp. *)
Overtaken(p) == {q \in net : q.src = p.src /\ q.type # "RST" /\ q.stamp < p.stamp}

(* The packet leaves the network unless it was duplicated. *)
Arrives(e, p, type) ==
  /\ NothingParsed
  /\ p.src = Peer(e)
  /\ p.type = type
  /\ ctl[e].st # "RELEASED"
  /\ Cardinality(Overtaken(p)) <= env.reorder
  /\ \E again \in BOOLEAN :
       /\ again => env.dup > 0
       /\ net' = IF again THEN net ELSE net \ {p}
       /\ env' = [env EXCEPT !.reorder = @ - Cardinality(Overtaken(p)),
                             !.dup = IF again THEN @ - 1 ELSE @]

SmallerOf(a, b) == IF a < b THEN a ELSE b

(* Faulty variant: each size is compared with the peer's size of its own kind. *)
NegotiateSwapped(o, p) ==
  [o EXCEPT !.maxSend = SmallerOf(@, p.maxSend), !.maxRecv = SmallerOf(@, p.maxRecv)]

(* What we send fits the peer's segments, what we receive fits ours. *)
Negotiate(o, p) ==
  [o EXCEPT !.maxSend = SmallerOf(@, p.maxRecv), !.maxRecv = SmallerOf(@, p.maxSend)]

(* nabto_stream_parse_syn, nabto_stream_handle_syn. *)
RecvSyn(e, p) ==
  /\ Arrives(e, p, "SYN")
  /\ CASE ctl[e].st = "IDLE" ->
            /\ ctl' = [ctl EXCEPT ![e] = Transition(@, "ACCEPT")]
            /\ rcv' = [rcv EXCEPT ![e] = AnchorRecv(@, p.seq, p.stamp)]
            /\ opt' = [opt EXCEPT ![e] = [Negotiate(opt[e], p) EXCEPT !.replayOff = @ \/ ~p.nonce]]
       [] ctl[e].st = "SYN_RCVD" ->
            /\ ctl' = [ctl EXCEPT ![e].timer = "now"]
            /\ rcv' = [rcv EXCEPT ![e] = NoteStamp(@, p.stamp)]
            /\ opt' = opt
       [] OTHER ->
            /\ rcv' = [rcv EXCEPT ![e] = NoteStamp(@, p.stamp)]
            /\ UNCHANGED <<ctl, opt>>
  /\ UNCHANGED <<snd, inbox, app>>

(* Faulty variant: an ack of the fin in CLOSING goes unnoticed. *)
AckOnFinNotClosing(c) ==
  CASE c.st = "FIN_WAIT_1" -> Transition(c, "FIN_WAIT_2")
    [] c.st = "LAST_ACK" -> Transition(c, "CLOSED")
    [] OTHER -> c

(* nabto_stream_handle_ack_on_fin. *)
AckOnFin(c) ==
  CASE c.st = "FIN_WAIT_1" -> Transition(c, "FIN_WAIT_2")
    [] c.st = "CLOSING" -> Transition(c, "TIME_WAIT")
    [] c.st = "LAST_ACK" -> Transition(c, "CLOSED")
    [] OTHER -> c

(* nabto_stream_parse_ack_extension on control c and send half s: move the *)
(* window if the packet is the newest, free what is acknowledged, and when *)
(* nothing is outstanding any more stop the timer or queue the fin that    *)
(* nabto_stream_close left to be sent.                                     *)
Windowed(s, ack, newest) == IF newest THEN UpdateWindow(s, ack) ELSE s

AckedSegments(s, ack, newest) == Acked(Windowed(s, ack, newest), ack)

CtlAfterFinAck(c, s, ack, newest) ==
  IF s.fin \in AckedSegments(s, ack, newest) THEN AckOnFin(c) ELSE c

(* Faulty variant: any ack counts as the last one. *)
DrainedByAnyAck(s, ack, newest) == AckedSegments(s, ack, newest) # {}

Drained(s, ack, newest) ==
  /\ AckedSegments(s, ack, newest) # {}
  /\ Outstanding(HandleAcks(Windowed(s, ack, newest), ack)) = {}

FinDue(c, s, ack, newest) ==
  /\ Drained(s, ack, newest)
  /\ s.fin = NoSeq
  /\ c.st \in {"FIN_WAIT_1", "LAST_ACK", "CLOSING"}

SendAfterAck(c, s, ack, newest) ==
  LET h == HandleAcks(Windowed(s, ack, newest), ack)
  IN  IF FinDue(c, s, ack, newest) THEN AddFinSegment(h) ELSE h

CtlAfterAck(c, s, ack, newest) ==
  LET f == CtlAfterFinAck(c, s, ack, newest)
      t == IF Drained(s, ack, newest) /\ ~FinDue(c, s, ack, newest)
           THEN [f EXCEPT !.timer = "inf"] ELSE f
  IN  IF AckedSegments(s, ack, newest) # {} THEN Raise(t, {"dataWrite"}) ELSE t

(* nabto_stream_parse_syn_ack, nabto_stream_handle_syn_ack. *)
RecvSynAck(e, p) ==
  LET opening == ctl[e].st = "SYN_SENT"
      c == IF opening THEN Transition(ctl[e], "ESTABLISHED") ELSE ctl[e]
      s == IF opening THEN AllocateNextSendSegment(snd[e]) ELSE snd[e]
      o == IF opt[e].replayOff \/ p.nonce
           THEN [opt[e] EXCEPT !.sendNonce = @ \/ ~opt[e].replayOff]
           ELSE [opt[e] EXCEPT !.replayOff = TRUE]
      noted == NoteStamp(rcv[e], p.stamp)
      r == IF opening
           THEN AllocateNextRecvSegment([AnchorRecv(noted, p.seq, p.stamp) EXCEPT !.ackNow = TRUE])
           ELSE [noted EXCEPT !.ackNow = @ \/ ctl[e].st = "ESTABLISHED"]
      newest == r.echo <= p.stamp
  IN  /\ Arrives(e, p, "SYN_ACK")
      /\ ctl[e].st # "IDLE"
      /\ opt' = [opt EXCEPT ![e] = IF opening THEN Negotiate(o, p) ELSE o]
      /\ rcv' = [rcv EXCEPT ![e] = r]
      /\ ctl' = [ctl EXCEPT ![e] = CtlAfterAck(c, s, p.ack, newest)]
      /\ snd' = [snd EXCEPT ![e] = SendAfterAck(c, s, p.ack, newest)]
      /\ UNCHANGED <<inbox, app>>

(* Faulty variant: acks are taken without a nonce. *)
NonceIgnored(o, p) == TRUE

(* The gate at the start of nabto_stream_parse_ack: with replay protection *)
(* a responder takes nothing before it has seen its nonce.                 *)
NonceAccepted(o, p) == o.replayOff \/ o.nonceValidated \/ p.nonce

(* nabto_stream_parse_ack up to the data and fin extensions, which are left *)
(* in the inbox.                                                           *)
RecvAck(e, p) ==
  /\ Arrives(e, p, "ACK")
  /\ ctl[e].st # "IDLE"
  /\ NonceAccepted(opt[e], p)
  /\ LET c == IF ctl[e].st = "SYN_RCVD" THEN Transition(ctl[e], "ESTABLISHED") ELSE ctl[e]
         r == NoteStamp(rcv[e], p.stamp)
         newest == r.echo <= p.stamp
     IN  /\ rcv' = [rcv EXCEPT ![e] = r]
         /\ ctl' = [ctl EXCEPT ![e] = CtlAfterAck(c, snd[e], p.ack, newest)]
         /\ snd' = [snd EXCEPT ![e] = SendAfterAck(c, snd[e], p.ack, newest)]
  /\ opt' = [opt EXCEPT ![e].nonceValidated = @ \/ (~opt[e].replayOff /\ p.nonce)]
  /\ inbox' = [inbox EXCEPT ![e] = [data |-> p.data, fin |-> p.fin,
                                    size |-> IF p.data = {} THEN 0 ELSE p.size]]
  /\ UNCHANGED app

RecvAckWithoutNonce(e, p) ==
  /\ Arrives(e, p, "ACK")
  /\ ctl[e].st # "IDLE"
  /\ ~NonceAccepted(opt[e], p)
  /\ rcv' = [rcv EXCEPT ![e] = NoteStamp(@, p.stamp)]
  /\ UNCHANGED <<ctl, snd, opt, inbox, app>>

(* nabto_stream_parse_data_extension, nabto_stream_handle_data. *)
ParseData(e) ==
  /\ inbox[e].data # {}
  /\ LET q == CHOOSE x \in inbox[e].data : \A y \in inbox[e].data : x <= y
         rest == inbox[e].data \ {q}
         takes == /\ inbox[e].size <= opt[e].maxRecv
                  /\ ctl[e].st \in {"ESTABLISHED", "CLOSE_WAIT", "FIN_WAIT_1", "FIN_WAIT_2"}
     IN  /\ rcv' = [rcv EXCEPT ![e] = IF takes THEN HandleData(@, q) ELSE @]
         /\ ctl' = [ctl EXCEPT ![e] = IF rcv'[e].top # rcv[e].top
                                      THEN Raise(@, {"dataReady"}) ELSE @]
         /\ inbox' = [inbox EXCEPT ![e].data = rest, ![e].size = IF rest = {} THEN 0 ELSE @]
  /\ UNCHANGED <<snd, opt, app, net, env>>

(* nabto_stream_parse_fin_extension, nabto_stream_handle_fin. *)
StateAfterFin(st) ==
  CASE st = "ESTABLISHED" -> "CLOSE_WAIT"
    [] st = "FIN_WAIT_1" -> "CLOSING"
    [] st = "FIN_WAIT_2" -> "TIME_WAIT"

ParseFin(e) ==
  /\ inbox[e].data = {}
  /\ inbox[e].fin # NoFin
  /\ IF ctl[e].st \in {"ESTABLISHED", "FIN_WAIT_1", "FIN_WAIT_2"}
     THEN /\ rcv' = [rcv EXCEPT ![e] = HandleFin(@, inbox[e].fin)]
          /\ ctl' = [ctl EXCEPT ![e] =
                       IF BufferFound(rcv[e], inbox[e].fin)
                       THEN Transition(IF rcv'[e].top # rcv[e].top THEN Raise(@, {"dataReady"}) ELSE @,
                                       StateAfterFin(@.st))
                       ELSE @]
     ELSE /\ rcv' = [rcv EXCEPT ![e].ackNow = TRUE]
          /\ ctl' = ctl
  /\ inbox' = [inbox EXCEPT ![e] = EmptyInbox]
  /\ UNCHANGED <<snd, opt, app, net, env>>

(* Faulty variants: an rst always, or never, ends the stream cleanly. *)
AnyRstCloses(s) == TRUE
NoRstCloses(s) == FALSE

(* nabto_stream_handle_rst: nothing but the fin can be lost. *)
FinIsNext(s) ==
  \/ Outstanding(s) = {}
  \/ s.fin \in s.unacked /\ \A q \in s.unacked : s.fin <= q

RecvRst(e, p) ==
  /\ Arrives(e, p, "RST")
  /\ ctl[e].st # "IDLE"
  /\ ctl' = [ctl EXCEPT ![e] =
               IF @.st \in ClosedStates THEN @
               ELSE IF @.st = "TIME_WAIT" \/ (@.st \in {"LAST_ACK", "CLOSING"} /\ FinIsNext(snd[e]))
               THEN Transition(@, "CLOSED")
               ELSE Transition(@, "ABORTED_RST")]
  /\ UNCHANGED <<snd, rcv, opt, inbox, app>>
-----------------------------------------------------------------------------
(* The application.                                                        *)

(* nabto_stream_open. *)
Open(e) ==
  /\ NothingParsed
  /\ e = Initiator
  /\ ctl[e].st = "IDLE"
  /\ ctl' = [ctl EXCEPT ![e] = Transition(@, "SYN_SENT")]
  /\ snd' = [snd EXCEPT ![e].xmit = StartSeq[e]]
  /\ UNCHANGED <<rcv, opt, inbox, app, net, env>>

(* nabto_stream_accept. *)
Accept(e) ==
  /\ NothingParsed
  /\ ctl[e].st \in {"WAIT_ACCEPT", "ACCEPT"}
  /\ ctl' = [ctl EXCEPT ![e] = Transition(@, "SYN_RCVD")]
  /\ snd' = [snd EXCEPT ![e] = AllocateNextSendSegment([@ EXCEPT !.xmit = StartSeq[e]])]
  /\ rcv' = [rcv EXCEPT ![e] = AllocateNextRecvSegment(@)]
  /\ UNCHANGED <<opt, inbox, app, net, env>>

(* Data segments written; before open or accept xmit is still zero. *)
Written(e) == LargerOf(0, LastData(snd[e]) - StartSeq[e])

(* Faulty variant: writes are accepted after close. *)
WritableWhileClosing == {"ESTABLISHED", "CLOSE_WAIT", "SYN_RCVD", "FIN_WAIT_1"}

WritableStates == {"ESTABLISHED", "CLOSE_WAIT", "SYN_RCVD"}

(* nabto_stream_write_buffer with a buffer that fills n segments, or more  *)
(* than the allocator has.                                                 *)
Write(e, n) ==
  /\ NothingParsed
  /\ ctl[e].st \in WritableStates
  /\ CanWrite(snd[e])
  /\ Written(e) + n <= MaxWrites[e]
  /\ n <= SendSegmentsFree(snd[e]) + 1
  /\ snd' = [snd EXCEPT ![e] = WriteSegments(@, n)]
  /\ ctl' = [ctl EXCEPT ![e].timer = IF @ = "inf" THEN "future" ELSE @]
  /\ UNCHANGED <<rcv, opt, inbox, app, net, env>>

(* nabto_stream_has_more_read_data: an aborted stream gives no data. *)
CanRead(e) == ctl[e].st \notin {"ABORTED", "ABORTED_RST", "RELEASED"} /\ HasData(rcv[e])

(* nabto_stream_read_buffer. *)
Read(e) ==
  /\ NothingParsed
  /\ CanRead(e)
  /\ rcv' = [rcv EXCEPT ![e] = ReadSegment(@)]
  /\ app' = [app EXCEPT ![e].got = Append(@, Head(rcv[e].readq))]
  /\ UNCHANGED <<ctl, snd, opt, inbox, net, env>>

(* nabto_stream_read_buffer answering NABTO_STREAM_STATUS_EOF. *)
ReadEof(e) ==
  /\ NothingParsed
  /\ ctl[e].st \notin {"ABORTED", "ABORTED_RST", "RELEASED"}
  /\ AtEof(rcv[e])
  /\ ~app[e].eof
  /\ app' = [app EXCEPT ![e].eof = TRUE]
  /\ UNCHANGED <<ctl, snd, rcv, opt, inbox, net, env>>

(* Faulty variant: the fin does not wait for the data. *)
FinAtOnce(s) == AddFinSegment(s)

(* The fin waits until no data is outstanding, see FinDue. *)
FinOnClose(s) == IF Outstanding(s) = {} THEN AddFinSegment(s) ELSE s

(* nabto_stream_close; in the other states it changes nothing. *)
Close(e) ==
  /\ NothingParsed
  /\ e \in Closers
  /\ \/ /\ ctl[e].st \in {"ESTABLISHED", "CLOSE_WAIT"}
        /\ snd' = [snd EXCEPT ![e] = FinOnClose(@)]
        /\ ctl' = [ctl EXCEPT ![e] = Transition(@, IF @.st = "ESTABLISHED" THEN "FIN_WAIT_1" ELSE "LAST_ACK")]
     \/ /\ ctl[e].st \in OpeningStates
        /\ env.aborts > 0
        /\ ctl' = [ctl EXCEPT ![e] = Transition(@, "ABORTED")]
        /\ snd' = snd
  /\ env' = IF ctl[e].st \in OpeningStates THEN [env EXCEPT !.aborts = @ - 1] ELSE env
  /\ app' = [app EXCEPT ![e].closed = TRUE]
  /\ UNCHANGED <<rcv, opt, inbox, net>>
-----------------------------------------------------------------------------
(* The integrator and the network.                                         *)

(* Faulty variant: the peer of an open stream is not told. *)
RstWhileOpening(st) == st \in OpeningStates

(* The application stops using the stream and the integrator destroys it,  *)
(* sending an rst when nabto_stream_stop_should_send_rst says so.          *)
StopShouldSendRst(st) == st \notin {"CLOSED", "IDLE", "ABORTED_RST"}

Finished(e) == ctl[e].st \in ClosedStates /\ ~CanRead(e)

Release(e) ==
  /\ NothingParsed
  /\ ctl[e].st \notin {"IDLE", "RELEASED"}
  /\ \/ Finished(e) /\ env' = env
     \/ env.aborts > 0 /\ ~Finished(e) /\ env' = [env EXCEPT !.aborts = @ - 1]
  /\ net' = IF StopShouldSendRst(ctl[e].st) THEN net \cup {RstPacket(e)} ELSE net
  /\ ctl' = [ctl EXCEPT ![e] = [st |-> "RELEASED", timer |-> "inf", ev |-> {}]]
  /\ UNCHANGED <<snd, rcv, opt, inbox, app>>

(* A packet for a stream that does not exist is answered with an rst. *)
AnswerRst(e, p) ==
  /\ NothingParsed
  /\ p.src = Peer(e)
  /\ ctl[e].st = "RELEASED" \/ (ctl[e].st = "IDLE" /\ p.type # "SYN")
  /\ net' = (net \ {p}) \cup (IF p.type = "RST" THEN {} ELSE {RstPacket(e)})
  /\ UNCHANGED <<ctl, snd, rcv, opt, inbox, app, env>>

(* nabto_stream_connection_died; a stream that is idle has no connection yet. *)
ConnectionDied(e) ==
  /\ NothingParsed
  /\ ctl[e].st \notin ClosedStates \cup {"IDLE", "RELEASED"}
  /\ env.deaths > 0
  /\ env' = [env EXCEPT !.deaths = @ - 1]
  /\ ctl' = [ctl EXCEPT ![e] = Transition(@, IF @.st = "LAST_ACK" THEN "CLOSED" ELSE "ABORTED_RST")]
  /\ UNCHANGED <<snd, rcv, opt, inbox, app, net>>

(* nabto_stream_recv_segment_available and send_segment_available: the      *)
(* integrator reports that its allocator has segments.  The first also     *)
(* allocates ahead when no retry is pending.                               *)
SegmentAvailable(e) ==
  /\ NothingParsed
  /\ ctl[e].st \in OpenStates \cup {"SYN_RCVD"}
  /\ env.available > 0
  /\ env' = [env EXCEPT !.available = @ - 1]
  /\ \/ /\ rcv[e].alloc = rcv[e].max
        /\ RecvSegmentsFree(rcv[e]) > 0
        /\ rcv' = [rcv EXCEPT ![e] = AllocateNextRecvSegment(@)]
        /\ UNCHANGED <<ctl, snd>>
     \/ /\ ~snd[e].hasSeg
        /\ SendSegmentsFree(snd[e]) > 0
        /\ snd' = [snd EXCEPT ![e] = AllocateNextSendSegment(@)]
        /\ ctl' = [ctl EXCEPT ![e] = IF snd[e].segWait THEN Raise(@, {"dataWrite"}) ELSE @]
        /\ rcv' = rcv
  /\ UNCHANGED <<opt, inbox, app, net>>

Lose(p) ==
  /\ NothingParsed
  /\ env.loss > 0
  /\ net' = net \ {p}
  /\ env' = [env EXCEPT !.loss = @ - 1]
  /\ UNCHANGED <<ctl, snd, rcv, opt, inbox, app>>

(* Nothing can happen before a timer passes, except for what the           *)
(* applications may still decide to write or to close.                     *)
Calm ==
  /\ net = {}
  /\ NothingParsed
  /\ \A e \in End :
       /\ NextEvent(e) \in {"WAIT", "CLOSED"}
       /\ ctl[e].st = "RELEASED" \/ ~NeedsPoll(e)
       /\ ctl[e].st \notin {"WAIT_ACCEPT", "CLOSED", "ABORTED_RST"}
       /\ ~CanRead(e)

(* Nothing happens until every future stamp has passed.  The timers are    *)
(* long compared with everything else and no end's can pass for ever while *)
(* the other's does not.                                                   *)
Silence ==
  /\ Calm
  /\ \E e \in End : ctl[e].timer = "future"
  /\ ctl' = [e \in End |-> IF ctl[e].timer = "future" THEN [ctl[e] EXCEPT !.timer = "now"] ELSE ctl[e]]
  /\ UNCHANGED <<snd, rcv, opt, inbox, app, net, env>>

(* A retransmission timer that passes while its answer is under way. *)
EarlyTimer(e) ==
  /\ NothingParsed
  /\ ctl[e].timer = "future"
  /\ env.spurious > 0
  /\ env' = [env EXCEPT !.spurious = @ - 1]
  /\ ctl' = [ctl EXCEPT ![e].timer = "now"]
  /\ UNCHANGED <<snd, rcv, opt, inbox, app, net>>
-----------------------------------------------------------------------------
Loop(e) ==
  \/ Poll(e) \/ QueueAccept(e) \/ SendSyn(e) \/ SendSynAck(e) \/ SendData(e) \/ SendAck(e)
  \/ Timeout(e) \/ SendRst(e) \/ DispatchEvent(e) \/ TimeWait(e)

Receive(e, p) ==
  \/ RecvSyn(e, p) \/ RecvSynAck(e, p) \/ RecvAck(e, p) \/ RecvAckWithoutNonce(e, p)
  \/ RecvRst(e, p) \/ AnswerRst(e, p)

Parse(e) == ParseData(e) \/ ParseFin(e)

Application(e) ==
  \/ Open(e) \/ Accept(e) \/ Read(e) \/ ReadEof(e) \/ Close(e)
  \/ \E n \in 1..MaxSegsPerWrite : Write(e, n)

Integrator(e) == Release(e) \/ ConnectionDied(e) \/ SegmentAvailable(e) \/ EarlyTimer(e)

Next ==
  \/ \E e \in End : Loop(e) \/ Parse(e) \/ Application(e) \/ Integrator(e)
  \/ \E e \in End, p \in net : Receive(e, p)
  \/ \E p \in net : Lose(p)
  \/ Silence

Spec == Init /\ [][Next]_vars

(* What happens by itself: the loops run, packets that are not lost        *)
(* arrive, time passes, and applications accept, read, close and release.  *)
(* Nobody is obliged to write, and the environment need not use up what it *)
(* may lose, delay or stop.                                                *)
Progress ==
  \/ \E e \in End :
       \/ Loop(e) \/ Parse(e) \/ Open(e) \/ Accept(e) \/ Read(e) \/ ReadEof(e)
       \/ (Close(e) \/ Release(e)) /\ env' = env
  \/ \E e \in End, p \in net : Receive(e, p)
  \/ Silence

(* The integrators keep both ends running while one of them has something  *)
(* to do.                                                                  *)
Fairness == WF_vars(Progress)

FairSpec == Spec /\ Fairness

-----------------------------------------------------------------------------
(* Properties.                                                             *)

(* The two lists of nabto_stream_send_segment partition what is             *)
(* outstanding, in sequence order, the resend list is part of the unacked  *)
(* list, and flightSize, which is kept apart from the list, is its length. *)
SendListsOK ==
  \A e \in End :
    LET s == snd[e]
    IN  /\ s.resend \subseteq s.unacked
        /\ \A u \in s.unacked, q \in s.sendq : u < q
        /\ \A q \in Outstanding(s) : q > StartSeq[e] /\ q <= s.xmit
        /\ s.flight = Cardinality(s.unacked)

(* The receive window: recvTop <= recvMax <= recvMaxAllocated, the segment *)
(* after recvTop is missing, nothing above recvMax has data, and recvMax   *)
(* never runs further ahead than NABTO_STREAM_MAX_RECV_SEGMENTS.           *)
RecvWindowOK ==
  \A e \in End :
    LET r == rcv[e]
    IN  /\ r.top <= r.max /\ r.max <= r.alloc
        /\ r.filled \subseteq (r.top + 2) .. r.max
        /\ r.max # r.top => r.max \in r.filled
        /\ r.max - r.top <= MaxRecvSegments

(* Reliability: a segment the sender has freed as acknowledged is at the   *)
(* receiver, whatever acks were lost, duplicated, reordered or stale.      *)
NoDataLoss ==
  \A e \in End :
    \A q \in (StartSeq[e] + 1) .. snd[e].xmit :
      q \in Outstanding(snd[e]) \/ Received(rcv[Peer(e)], q)

(* The application reads what the peer's application wrote, each segment   *)
(* once and in order, and sees end of file only when the peer has closed   *)
(* and everything it wrote has been read.                                  *)
InOrderDelivery ==
  \A e \in End :
    /\ Len(app[e].got) <= Written(Peer(e))
    /\ \A i \in 1..Len(app[e].got) : app[e].got[i] = StartSeq[Peer(e)] + i
    /\ app[e].eof => /\ app[Peer(e)].closed
                     /\ Len(app[e].got) = Written(Peer(e))

(* A fin is sent when all data is acknowledged, so it is alone on the lists *)
(* and numbered last, and an end that has seen the peer's fin has seen all *)
(* of its data.                                                            *)
FinIsLast ==
  \A e \in End :
    /\ snd[e].fin # NoSeq => snd[e].fin = snd[e].xmit /\ Outstanding(snd[e]) \subseteq {snd[e].fin}
    /\ rcv[e].fin # NoFin => /\ rcv[e].fin = snd[Peer(e)].fin
                            /\ rcv[e].top = rcv[e].fin

(* ST_CLOSED promises that everything written has been acknowledged, so it *)
(* is at the peer, however the state was reached (fin acknowledged or rst  *)
(* in answer to a fin).                                                    *)
CleanClose ==
  \A e \in End :
    ctl[e].st = "CLOSED" =>
      \A q \in (StartSeq[e] + 1) .. LastData(snd[e]) : Received(rcv[Peer(e)], q)

(* Closing in an orderly way is never reported as an abort, although       *)
(* TIME_WAIT does not wait and the last ack may be lost: a fin sent again  *)
(* is answered with an rst.  That is so as long as nobody is stopped, no   *)
(* connection dies and no window shrinks below a fin.                      *)
NoFalseAbort ==
  \A e \in End : ctl[e].st \notin {"ABORTED", "ABORTED_RST"}

(* As nabto_stream_close promises, a stream its application has closed is  *)
(* ABORTED only if there is a risk of losing data: if the peer's fin is    *)
(* missing, or data of its own is unacknowledged.  Where somebody stops a  *)
(* stream or a connection dies nothing is said.                            *)
AbortMeansUnacked ==
  env.aborts = MaxAborts /\ env.deaths = MaxDeaths =>
    \A e \in End :
      app[e].closed /\ ctl[e].st \in {"ABORTED", "ABORTED_RST"} =>
        rcv[e].fin = NoFin \/ Outstanding(snd[e]) \ {snd[e].fin} # {}

(* A sender never believes in a window that ends beyond what the receiver  *)
(* may ever keep above its recvTop: no ack, however stale, moves it there. *)
(* (A segment within it may still be refused, while an allocation is       *)
(* pending.)                                                               *)
WindowHonest ==
  \A e \in End : snd[e].adv <= rcv[Peer(e)].top + MaxRecvSegments

(* Both ends use the same segment sizes and agree on replay protection     *)
(* once data flows, so no segment is dropped for its size.                 *)
Agreement ==
  \A e \in End :
    inbox[e].data # {} => /\ inbox[e].size <= opt[e].maxRecv
                          /\ opt[e].replayOff = opt[Peer(e)].replayOff

(* With replay protection a responder opens only after it has seen its own *)
(* nonce come back.                                                        *)
NonceGate ==
  ctl[Responder].st \in OpenStates \cup {"CLOSED"} /\ ~opt[Responder].replayOff
    => opt[Responder].nonceValidated

(* While something is unacknowledged there is a way on: it is due to be    *)
(* sent again or a timer runs.                                             *)
Armed(e) ==
  ctl[e].st \in TransmitStates /\ snd[e].unacked # {}
    => ctl[e].timer # "inf" \/ DataToSend(snd[e])

RetransmissionArmed == \A e \in End : Armed(e)

(* What nabto_stream_write_buffer accepts is eventually read by the peer,  *)
(* after every loss the retransmission timer has to repair.                *)
Delivered ==
  \A e \in End : \A n \in 1..MaxWrites[e] :
    (Written(e) >= n) ~> (Len(app[Peer(e)].got) >= n)

(* An end that an rst would tell that its peer is gone, but that rst was   *)
(* lost: all it sent is acknowledged, so it runs no timer and asks for     *)
(* nothing.                                                                *)
OutOfTouch(e) ==
  /\ ctl[e].st \in OpenStates /\ Outstanding(snd[e]) = {}
  /\ env.loss < MaxLoss /\ net = {}

(* An end whose integrator stops the stream does not leave the other one   *)
(* waiting: it is told by an rst, or asks and is answered with one, also   *)
(* when one of these packets is lost.  Only an end that has nothing        *)
(* unacknowledged may wait for ever, and only after a loss, since the rst  *)
(* that nabto_stream_stop_should_send_rst asks for is sent once.           *)
StopIsNoticed ==
  []<>(\A e \in End : ctl[e].st = "RELEASED" =>
         ctl[Peer(e)].st \in {"RELEASED", "IDLE"} \/ OutOfTouch(Peer(e)))

(* A stream both applications close is closed and released at both ends,   *)
(* whichever fin or ack of a fin is lost and however the closes cross.     *)
Terminates == <>(\A e \in End : ctl[e].st = "RELEASED")

(* A sender that waits for nothing but a window the receiver has opened    *)
(* does not wait for ever: the ack that opened it may be lost, and         *)
(* nabto_stream_flow_control_can_send provides for that.                   *)
WaitsForOpenWindow(e) ==
  /\ ctl[e].st \in TransmitStates
  /\ snd[e].unacked = {}
  /\ snd[e].sendq # {}
  /\ Sendable(snd[e]) = {}
  /\ RecvWindowSize(rcv[Peer(e)]) > 0

WindowReopens == \A e \in End : WaitsForOpenWindow(e) ~> ~WaitsForOpenWindow(e)

(* The stream implements the reliable channel. *)
Channel ==
  INSTANCE ReliableStream WITH
    Writer <- End,
    written <- [e \in End |-> Written(e)],
    delivered <- [e \in End |-> Len(app[Peer(e)].got)],
    closed <- [e \in End |-> app[e].closed],
    eof <- [e \in End |-> app[Peer(e)].eof]

ReliableChannel == Channel!Spec

=============================================================================
