-------------------------- MODULE StreamOpenProofs --------------------------
(***************************************************************************)
(* The handshake: what the two ends have agreed on once either of them is  *)
(* open, proved for every value of the constants of StreamPair.            *)
(*                                                                         *)
(* Neither Agreement nor NonceGate is inductive.  The settings of an end   *)
(* change when it hears the other's: the responder's when it takes the     *)
(* syn, the initiator's when it takes the syn ack.  HInv says what the     *)
(* settings and the packets under way are worth at every point between, in *)
(* whatever order copies of them arrive.                                   *)
(***************************************************************************)
EXTENDS StreamProofs

(* The packet p repeats the settings o of its sender. *)
Repeats(p, o) == p.maxSend = o.maxSend /\ p.maxRecv = o.maxRecv /\ p.nonce = ~o.replayOff

(* The responder's settings r are within the initiator's settings i. *)
Offered(i, r) ==
  r.maxSend <= i.maxRecv /\ r.maxRecv <= i.maxSend /\ (i.replayOff => r.replayOff)

(* Both ends have settled on the same. *)
Agreed(i, r) ==
  r.maxSend = i.maxRecv /\ r.maxRecv = i.maxSend /\ r.replayOff = i.replayOff

(* An end is open, or what only an open end sends is under way. *)
Sealed ==
  \/ \E e \in End : ctl[e].st \in OpenStates \/ inbox[e].data # {}
  \/ \E p \in net : p.type = "ACK"

(* A syn is worth what the initiator offers until the responder has heard  *)
(* one, a syn ack what the responder has made of it.                       *)
PacketAgreed(p) ==
  /\ p.type = "SYN" => p.src = Initiator /\ (ctl[Responder].st = "IDLE" => Repeats(p, opt[Initiator]))
  /\ p.type = "SYN_ACK" => p.src = Responder /\ ctl[Responder].st # "IDLE" /\ Repeats(p, opt[Responder])
  /\ p.type = "ACK" => p.size = opt[p.src].maxSend

RolesKept ==
  /\ ctl[Responder].st # "SYN_SENT"
  /\ ctl[Initiator].st \notin {"ACCEPT", "WAIT_ACCEPT", "SYN_RCVD"}

(* The inductive invariant of the handshake. *)
HInv ==
  /\ RolesKept
  /\ \A p \in net : PacketAgreed(p)
  /\ ctl[Responder].st # "IDLE" => Offered(opt[Initiator], opt[Responder])
  /\ Sealed => /\ Agreed(opt[Initiator], opt[Responder])
               /\ ctl[Responder].st # "IDLE"
               /\ ctl[Initiator].st \notin {"IDLE", "SYN_SENT"}
  /\ \A e \in End : inbox[e].data # {} => inbox[e].size = opt[Peer(e)].maxSend
  /\ NonceGate
-----------------------------------------------------------------------------
(* How e may move from old to new without settling anything. *)
Moves(e, old, new) ==
  \/ new = old
  \/ old # "IDLE" /\ new \in {"ABORTED", "ABORTED_RST", "RELEASED"}
  \/ Sealed /\ new \in OpenStates \cup {"CLOSED"}
  \/ e = Initiator /\ old = "IDLE" /\ new = "SYN_SENT"
  \/ e = Responder /\ old # "IDLE" /\ new \in {"WAIT_ACCEPT", "SYN_RCVD"}

(* The settings of both ends are as they were, except that an initiator    *)
(* may still learn that the responder does without replay protection.      *)
SettingsKept ==
  /\ \A e \in End : opt'[e].maxSend = opt[e].maxSend /\ opt'[e].maxRecv = opt[e].maxRecv
  /\ opt'[Responder].replayOff = opt[Responder].replayOff
  /\ \/ opt'[Initiator].replayOff = opt[Initiator].replayOff
     \/ ~Sealed /\ ctl[Responder].st # "IDLE" /\ opt[Responder].replayOff

(* Every packet under way was so, or is worth what it says. *)
NewPackets ==
  \A p \in net' : \/ p \in net
                  \/ p.type = "RST"
                  \/ PacketAgreed(p) /\ (p.type = "ACK" => Sealed)

NewInbox ==
  \A e \in End : inbox'[e].data # {} => Sealed /\ inbox'[e].size = opt[Peer(e)].maxSend

(* The two ends by name. *)
LEMMA Ends ==
  /\ Initiator \in End /\ Responder \in End /\ Initiator # Responder
  /\ Peer(Initiator) = Responder /\ Peer(Responder) = Initiator
  /\ \A e \in End : e = Initiator \/ e = Responder
  BY DEF End, Initiator, Responder, Peer

(* Packets come from one of the ends. *)
LEMMA PacketEnd == \A p \in Packets : p.src \in End
  BY DEF Packets, SynPackets, SynAckPackets, AckPackets, RstPackets

(* A step that settles nothing keeps what is settled. *)
LEMMA SettledStep ==
  ASSUME IInv, IInv', HInv, SettingsKept, NewPackets, NewInbox, NonceGate',
         \A e \in End : Moves(e, ctl[e].st, ctl'[e].st)
  PROVE  HInv'
  <1> DEFINE I == ctl[Initiator].st
             J == ctl'[Initiator].st
             R == ctl[Responder].st
             S == ctl'[Responder].st
  <1>1. Moves(Initiator, I, J) /\ Moves(Responder, R, S)
    BY Ends
  <1>2. /\ R # "SYN_SENT" /\ I \notin {"ACCEPT", "WAIT_ACCEPT", "SYN_RCVD"}
        /\ Sealed => R # "IDLE" /\ I \notin {"IDLE", "SYN_SENT"}
    BY DEF HInv, RolesKept
  <1>3. RolesKept'
    BY <1>1, <1>2, Ends DEF RolesKept, Moves, OpenStates
  <1>4. S = "IDLE" <=> R = "IDLE"
    BY <1>1, <1>2, Ends DEF Moves, OpenStates
  <1>5. Sealed' => Sealed
    <2>1. ASSUME NEW e \in End, ctl'[e].st \in OpenStates PROVE Sealed
      <3>1. Moves(e, ctl[e].st, ctl'[e].st)
        OBVIOUS
      <3>2. ctl[e].st \in OpenStates => Sealed
        BY DEF Sealed
      <3>. QED  BY <2>1, <3>1, <3>2 DEF Moves, OpenStates
    <2>2. ASSUME NEW p \in net', p.type = "ACK" PROVE Sealed
      BY <2>2 DEF NewPackets, Sealed
    <2>3. Sealed' <=> \/ \E e \in End : ctl'[e].st \in OpenStates \/ inbox'[e].data # {}
                      \/ \E p \in net' : p.type = "ACK"
      BY DEF Sealed
    <2>. QED  BY <2>1, <2>2, <2>3 DEF NewInbox
  <1>6. Sealed => S # "IDLE" /\ J \notin {"IDLE", "SYN_SENT"}
    BY <1>1, <1>2, <1>4, Ends DEF Moves, OpenStates
  <1>7. ASSUME NEW p \in net' PROVE PacketAgreed(p)'
    <2>1. CASE p.type = "RST"
      BY <2>1 DEF PacketAgreed
    <2>2. CASE p.type # "RST"
      <3>1. PacketAgreed(p)
        BY <2>2 DEF NewPackets, HInv
      <3>2. p.type = "SYN" => (S = "IDLE" => Repeats(p, opt'[Initiator]))
        BY <1>4, <3>1, Ends DEF PacketAgreed, Repeats, SettingsKept
      <3>3. p.type = "SYN_ACK" => Repeats(p, opt'[Responder])
        BY <3>1, Ends DEF PacketAgreed, Repeats, SettingsKept
      <3>4. p.src \in End
        BY Ends, PacketEnd DEF IInv, NetSafe
      <3>. QED  BY <1>4, <3>1, <3>2, <3>3, <3>4 DEF PacketAgreed, SettingsKept
    <2>. QED  BY <2>1, <2>2
  <1>8. S # "IDLE" => Offered(opt[Initiator], opt[Responder])'
    BY <1>4, Ends DEF HInv, Offered, SettingsKept
  <1>9. Sealed => Agreed(opt[Initiator], opt[Responder])'
    BY Ends DEF HInv, Agreed, SettingsKept
  <1>10. ASSUME NEW e \in End, inbox'[e].data # {} PROVE inbox'[e].size = opt'[Peer(e)].maxSend
    BY <1>10, PeerFacts DEF NewInbox, SettingsKept
  <1>. QED  BY <1>3, <1>4, <1>5, <1>6, <1>7, <1>8, <1>9, <1>10 DEF HInv

(* How e moves in the steps that do not open it. *)
QuietMove(e, old, new) ==
  \/ new = old
  \/ old # "IDLE" /\ new \in {"ABORTED", "ABORTED_RST", "RELEASED"}
  \/ old \in OpenStates /\ new \in OpenStates \cup {"CLOSED"}
  \/ e = Initiator /\ old = "IDLE" /\ new = "SYN_SENT"
  \/ e = Responder /\ old # "IDLE" /\ new \in {"WAIT_ACCEPT", "SYN_RCVD"}

(* What is left to parse is part of what was. *)
InboxShrinks ==
  \A f \in End : inbox'[f].data # {} => inbox[f].data # {} /\ inbox'[f].size = inbox[f].size

(* A step that opens no end and gives away at most the nonce. *)
LEMMA QuietStep ==
  ASSUME IInv, IInv', HInv, NEW e \in End,
         opt' = opt \/ opt' = [opt EXCEPT ![e].sendNonce = FALSE],
         NewPackets, InboxShrinks,
         \A f \in End : QuietMove(f, ctl[f].st, ctl'[f].st)
  PROVE  HInv'
  <1>1. opt \in [End -> Options]
    BY DEF IInv, RestOK
  <1>2. ASSUME NEW f \in End
        PROVE  /\ opt'[f].maxSend = opt[f].maxSend /\ opt'[f].maxRecv = opt[f].maxRecv
               /\ opt'[f].replayOff = opt[f].replayOff
               /\ opt'[f].nonceValidated = opt[f].nonceValidated
    <2> DEFINE o == [opt[e] EXCEPT !.sendNonce = FALSE]
    <2>1. /\ o.maxSend = opt[e].maxSend /\ o.maxRecv = opt[e].maxRecv
          /\ o.replayOff = opt[e].replayOff /\ o.nonceValidated = opt[e].nonceValidated
      BY <1>1 DEF Options
    <2>2. opt' = opt \/ opt' = [opt EXCEPT ![e] = o]
      BY Zenon
    <2>. HIDE DEF o
    <2>. QED  BY <1>1, <2>1, <2>2
  <1>3. SettingsKept
    BY <1>2, Ends DEF SettingsKept
  <1>4. NewInbox
    BY DEF HInv, InboxShrinks, NewInbox, Sealed
  <1>5. ASSUME NEW f \in End PROVE Moves(f, ctl[f].st, ctl'[f].st)
    <2>1. QuietMove(f, ctl[f].st, ctl'[f].st) /\ (ctl[f].st \in OpenStates => Sealed)
      BY DEF Sealed
    <2>. QED  BY <2>1 DEF QuietMove, Moves
  <1>6. NonceGate'
    <2>1. QuietMove(Responder, ctl[Responder].st, ctl'[Responder].st)
      BY Ends
    <2>2. ctl'[Responder].st \in OpenStates \cup {"CLOSED"} => ctl[Responder].st \in OpenStates \cup {"CLOSED"}
      BY <2>1 DEF QuietMove, OpenStates
    <2>. QED  BY <1>2, <2>2, Ends DEF HInv, NonceGate
  <1>. QED  BY <1>3, <1>4, <1>5, <1>6, SettledStep

(* The control of one end becomes c. *)
LEMMA MoveOf ==
  ASSUME IInv, NEW e \in End, NEW c, QuietMove(e, ctl[e].st, c.st),
         (ctl' = ctl /\ c = ctl[e]) \/ ctl' = [ctl EXCEPT ![e] = c]
  PROVE  \A f \in End : QuietMove(f, ctl[f].st, ctl'[f].st)
  <1>1. ctl'[e] = c /\ \A f \in End \ {e} : ctl'[f] = ctl[f]
    BY EndFacts
  <1>. QED  BY <1>1 DEF QuietMove

(* A step of one end that sends at most an rst and settles nothing. *)
LEMMA PlainStep ==
  ASSUME IInv, IInv', HInv, NEW e \in End, NEW c, QuietMove(e, ctl[e].st, c.st),
         (ctl' = ctl /\ c = ctl[e]) \/ ctl' = [ctl EXCEPT ![e] = c],
         \A p \in net' : p \in net \/ p.type = "RST",
         UNCHANGED <<opt, inbox>>
  PROVE  HInv'
  <1>1. NewPackets /\ InboxShrinks
    BY DEF NewPackets, InboxShrinks
  <1>. QED  BY <1>1, MoveOf, QuietStep
-----------------------------------------------------------------------------
(* The event loop.                                                         *)

LEMMA PollSettled == ASSUME IInv, IInv', HInv, NEW e \in End, Poll(e) PROVE HInv'
  <1> DEFINE c == IF snd[e].segWait /\ snd'[e].hasSeg THEN Raise(ctl[e], {"dataWrite"}) ELSE ctl[e]
  <1>1. ctl' = [ctl EXCEPT ![e] = c] /\ UNCHANGED <<opt, inbox, net>>
    BY Zenon DEF Poll
  <1>2. c.st = ctl[e].st
    BY EndFacts, RaiseOK
  <1>. HIDE DEF c
  <1>. QED  BY <1>1, <1>2, PlainStep DEF QuietMove

(* Only a responder waits to be accepted. *)
LEMMA QueueAcceptSettled == ASSUME IInv, IInv', HInv, NEW e \in End, QueueAccept(e) PROVE HInv'
  <1> DEFINE c == Transition(ctl[e], "WAIT_ACCEPT")
  <1>1. ctl[e].st = "ACCEPT"
    BY DEF QueueAccept, Turn, NextEvent
  <1>2. ctl' = [ctl EXCEPT ![e] = c] /\ UNCHANGED <<opt, inbox, net>>
    BY DEF QueueAccept
  <1>3. c.st = "WAIT_ACCEPT"
    BY EndFacts, TransitionOK DEF StreamStates, OpeningStates
  <1>4. e = Responder
    BY <1>1, Ends DEF HInv, RolesKept
  <1>. HIDE DEF c
  <1>. QED  BY <1>1, <1>2, <1>3, <1>4, PlainStep DEF QuietMove

(* A step of one end that keeps its state and sends p. *)
LEMMA SendStep ==
  ASSUME IInv, IInv', HInv, NEW e \in End, NEW p, NEW c, c.st = ctl[e].st,
         (ctl' = ctl /\ c = ctl[e]) \/ ctl' = [ctl EXCEPT ![e] = c],
         net' = net \cup {p}, PacketAgreed(p), p.type = "ACK" => Sealed,
         opt' = opt \/ opt' = [opt EXCEPT ![e].sendNonce = FALSE],
         inbox' = inbox
  PROVE  HInv'
  <1>1. NewPackets /\ InboxShrinks
    BY DEF NewPackets, InboxShrinks
  <1>2. QuietMove(e, ctl[e].st, c.st)
    BY DEF QuietMove
  <1>. QED  BY <1>1, <1>2, MoveOf, QuietStep

(* A syn repeats what the initiator offers. *)
LEMMA SendSynSettled == ASSUME IInv, IInv', HInv, NEW e \in End, SendSyn(e) PROVE HInv'
  <1> DEFINE p == [type |-> "SYN", src |-> e, stamp |-> snd[e].clock, seq |-> StartSeq[e],
                   maxSend |-> opt[e].maxSend, maxRecv |-> opt[e].maxRecv,
                   nonce |-> ~opt[e].replayOff]
             c == [ctl[e] EXCEPT !.timer = "future"]
  <1>1. net' = net \cup {p} /\ UNCHANGED <<opt, inbox>>
    BY Zenon DEF SendSyn
  <1>2. ctl' = [ctl EXCEPT ![e] = c]
    BY DEF SendSyn
  <1>3. c.st = ctl[e].st
    BY EndFacts, TimerOK DEF Timers
  <1>4. ctl[e].st = "SYN_SENT"
    BY DEF SendSyn, Turn, NextEvent
  <1>5. e = Initiator
    BY <1>4, Ends DEF HInv, RolesKept
  <1>6. p.type = "SYN" /\ p.src = e /\ Repeats(p, opt[e])
    BY Zenon DEF Repeats
  <1>. HIDE DEF p, c
  <1>7. PacketAgreed(p)
    BY <1>5, <1>6 DEF PacketAgreed
  <1>. QED  BY <1>1, <1>2, <1>3, <1>6, <1>7, SendStep

(* A syn ack repeats what the responder has settled on. *)
LEMMA SendSynAckSettled == ASSUME IInv, IInv', HInv, NEW e \in End, SendSynAck(e) PROVE HInv'
  <1> DEFINE p == [type |-> "SYN_ACK", src |-> e, stamp |-> snd[e].clock, seq |-> StartSeq[e],
                   maxSend |-> opt[e].maxSend, maxRecv |-> opt[e].maxRecv,
                   nonce |-> ~opt[e].replayOff, ack |-> AckExtension(rcv[e])]
             c == [ctl[e] EXCEPT !.timer = "future"]
  <1>1. net' = net \cup {p} /\ UNCHANGED <<opt, inbox>>
    BY Zenon DEF SendSynAck
  <1>2. ctl' = [ctl EXCEPT ![e] = c]
    BY DEF SendSynAck
  <1>3. c.st = ctl[e].st
    BY EndFacts, TimerOK DEF Timers
  <1>4. ctl[e].st = "SYN_RCVD"
    BY DEF SendSynAck, Turn, NextEvent
  <1>5. e = Responder
    BY <1>4, Ends DEF HInv, RolesKept
  <1>6. p.type = "SYN_ACK" /\ p.src = e /\ Repeats(p, opt[e])
    BY Zenon DEF Repeats
  <1>. HIDE DEF p, c
  <1>7. PacketAgreed(p)
    BY <1>4, <1>5, <1>6 DEF PacketAgreed
  <1>. QED  BY <1>1, <1>2, <1>3, <1>6, <1>7, SendStep

(* Data and acks are sent by open ends, in segments of the size settled on. *)
LEMMA AckPacketAgreed ==
  ASSUME NEW e \in End, NEW out
  PROVE  AckPacket(e, out).type = "ACK" /\ PacketAgreed(AckPacket(e, out))
  <1> DEFINE p == AckPacket(e, out)
  <1>1. p.type = "ACK" /\ p.src = e /\ p.size = opt[e].maxSend
    BY DEF AckPacket
  <1>. HIDE DEF p
  <1>2. PacketAgreed(p)
    BY <1>1 DEF PacketAgreed
  <1>. QED  BY <1>1, <1>2 DEF p

(* SendData keeps what is settled. *)
LEMMA SendDataSettled == ASSUME IInv, IInv', HInv, NEW e \in End, SendData(e) PROVE HInv'
  <1> DEFINE c == [ctl[e] EXCEPT !.timer = "future"]
  <1>1. PICK out \in Fills(e) : net' = net \cup {AckPacket(e, out)}
    BY DEF SendData
  <1>2. ctl' = [ctl EXCEPT ![e] = c] /\ opt' = [opt EXCEPT ![e].sendNonce = FALSE] /\ inbox' = inbox
    BY DEF SendData
  <1>3. c.st = ctl[e].st
    BY EndFacts, TimerOK DEF Timers
  <1>4. Sealed
    BY DEF SendData, Turn, NextEvent, TransmitStates, OpenStates, Sealed
  <1>5. PacketAgreed(AckPacket(e, out))
    BY AckPacketAgreed
  <1>. HIDE DEF c
  <1>. QED  BY <1>1, <1>2, <1>3, <1>4, <1>5, SendStep

(* SendAck keeps what is settled. *)
LEMMA SendAckSettled == ASSUME IInv, IInv', HInv, NEW e \in End, SendAck(e) PROVE HInv'
  <1>1. PICK out \in Fills(e) : net' = net \cup {AckPacket(e, out)}
    BY DEF SendAck
  <1>2. ctl' = ctl /\ opt' = [opt EXCEPT ![e].sendNonce = FALSE] /\ inbox' = inbox
    BY DEF SendAck
  <1>3. Sealed
    BY DEF SendAck, Turn, NextEvent, OpenStates, Sealed
  <1>4. PacketAgreed(AckPacket(e, out))
    BY AckPacketAgreed
  <1>. QED  BY <1>1, <1>2, <1>3, <1>4, SendStep

(* Timeout keeps what is settled. *)
LEMMA TimeoutSettled == ASSUME IInv, IInv', HInv, NEW e \in End, Timeout(e) PROVE HInv'
  <1> DEFINE c == [ctl[e] EXCEPT !.timer = "future"]
  <1>1. ctl' = [ctl EXCEPT ![e] = c] /\ UNCHANGED <<opt, inbox, net>>
    BY DEF Timeout
  <1>2. c.st = ctl[e].st
    BY EndFacts, TimerOK DEF Timers
  <1>. HIDE DEF c
  <1>. QED  BY <1>1, <1>2, PlainStep DEF QuietMove

(* SendRst keeps what is settled. *)
LEMMA SendRstSettled == ASSUME IInv, IInv', HInv, NEW e \in End, SendRst(e) PROVE HInv'
  <1> DEFINE c == Transition(ctl[e], "ABORTED_RST")
  <1>1. ctl' = [ctl EXCEPT ![e] = c] /\ net' = net \cup {RstPacket(e)} /\ UNCHANGED <<opt, inbox>>
    BY DEF SendRst
  <1>2. c.st = "ABORTED_RST"
    BY EndFacts, TransitionOK DEF StreamStates, ClosedStates
  <1>3. ctl[e].st # "IDLE"
    BY DEF SendRst, Turn, NextEvent
  <1>4. RstPacket(e).type = "RST"
    BY DEF RstPacket
  <1>. HIDE DEF c
  <1>. QED  BY <1>1, <1>2, <1>3, <1>4, PlainStep DEF QuietMove

(* DispatchEvent keeps what is settled. *)
LEMMA DispatchEventSettled == ASSUME IInv, IInv', HInv, NEW e \in End, DispatchEvent(e) PROVE HInv'
  <1> DEFINE c == [ctl[e] EXCEPT !.ev = ctl[e].ev \ {FirstEvent(ctl[e].ev)}]
  <1>1. ctl' = [ctl EXCEPT ![e] = c] /\ UNCHANGED <<opt, inbox, net>>
    BY DEF DispatchEvent
  <1>2. c.st = ctl[e].st
    BY EndFacts DEF Control
  <1>. HIDE DEF c
  <1>. QED  BY <1>1, <1>2, PlainStep DEF QuietMove

(* TimeWait keeps what is settled. *)
LEMMA TimeWaitSettled == ASSUME IInv, IInv', HInv, NEW e \in End, TimeWait(e) PROVE HInv'
  <1> DEFINE c == Transition(ctl[e], "CLOSED")
  <1>1. ctl' = [ctl EXCEPT ![e] = c] /\ UNCHANGED <<opt, inbox, net>>
    BY DEF TimeWait
  <1>2. c.st = "CLOSED"
    BY EndFacts, TransitionOK DEF StreamStates, ClosedStates
  <1>3. ctl[e].st = "TIME_WAIT"
    BY DEF TimeWait, Turn, NextEvent
  <1>. HIDE DEF c
  <1>. QED  BY <1>1, <1>2, <1>3, PlainStep DEF QuietMove, OpenStates
-----------------------------------------------------------------------------
(* Packets from the peer.                                                  *)

LEMMA ArrivesFacts ==
  ASSUME IInv, HInv, NEW e \in End, NEW p \in net, NEW type, Arrives(e, p, type)
  PROVE  /\ net' \subseteq net /\ p.src = Peer(e) /\ p.type = type /\ p \in Packets
         /\ PacketAgreed(p)
  BY DEF Arrives, IInv, NetSafe, HInv

(* What the smaller of two sizes is. *)
LEMMA SmallerOfFacts ==
  ASSUME NEW a \in Nat, NEW b \in Nat
  PROVE  /\ SmallerOf(a, b) <= a /\ SmallerOf(a, b) <= b
         /\ b <= a => SmallerOf(a, b) = b
  BY DEF SmallerOf

(* The fields nabto_stream_parse_syn and parse_syn_ack settle. *)
LEMMA NegotiateFields ==
  ASSUME NEW o \in Options, NEW p
  PROVE  /\ Negotiate(o, p).maxSend = SmallerOf(o.maxSend, p.maxRecv)
         /\ Negotiate(o, p).maxRecv = SmallerOf(o.maxRecv, p.maxSend)
         /\ Negotiate(o, p).replayOff = o.replayOff
         /\ Negotiate(o, p).nonceValidated = o.nonceValidated
  BY DEF Negotiate, Options

(* The first syn makes the responder settle on something within the        *)
(* initiator's offer; nothing else is under way then.                      *)
LEMMA RecvFirstSynSettled ==
  ASSUME IInv, IInv', HInv, NEW e \in End, NEW p \in net, RecvSyn(e, p), ctl[e].st = "IDLE"
  PROVE  HInv'
  <1> DEFINE c == Transition(ctl[e], "ACCEPT")
             n == Negotiate(opt[e], p)
             o == [n EXCEPT !.replayOff = n.replayOff \/ ~p.nonce]
             i == opt[Initiator]
  <1>1. /\ net' \subseteq net /\ p.src = Peer(e) /\ p.type = "SYN" /\ p \in Packets
        /\ PacketAgreed(p)
    BY ArrivesFacts DEF RecvSyn
  <1>2. e = Responder
    BY <1>1, Ends DEF PacketAgreed
  <1>3. Repeats(p, i)
    BY <1>1, <1>2 DEF PacketAgreed
  <1>4. ctl' = [ctl EXCEPT ![e] = c] /\ opt' = [opt EXCEPT ![e] = o] /\ inbox' = inbox
    BY Zenon DEF RecvSyn
  <1>5. c.st = "ACCEPT"
    BY EndFacts, TransitionOK DEF StreamStates, OpeningStates
  <1>6. opt \in [End -> Options] /\ opt[e] \in Options /\ i \in Options
    BY Ends DEF IInv, RestOK
  <1>7. /\ i.maxSend \in Nat /\ i.maxRecv \in Nat /\ opt[e].maxSend \in Nat /\ opt[e].maxRecv \in Nat
    BY <1>6 DEF Options
  <1>8. p.maxSend = i.maxSend /\ p.maxRecv = i.maxRecv /\ p.nonce = ~i.replayOff
    BY <1>3 DEF Repeats
  <1>9. n \in Options
    BY <1>6, <1>7, <1>8, NegotiateOK DEF Options
  <1>10. n.maxSend <= i.maxRecv /\ n.maxRecv <= i.maxSend
    BY <1>6, <1>7, <1>8, NegotiateFields, SmallerOfFacts
  <1>. HIDE DEF n
  <1>11. o.maxSend = n.maxSend /\ o.maxRecv = n.maxRecv /\ o.replayOff = (n.replayOff \/ ~p.nonce)
    BY <1>9, Zenon DEF Options
  <1>12. Offered(i, o)
    BY <1>8, <1>10, <1>11 DEF Offered
  <1>. HIDE DEF c, o, i
  <1>13. /\ ctl'[Responder] = c /\ ctl'[Initiator] = ctl[Initiator]
         /\ opt'[Responder] = o /\ opt'[Initiator] = opt[Initiator]
    BY <1>2, <1>4, <1>6, EndFacts, Ends
  <1>14. ~Sealed
    BY <1>2 DEF HInv
  <1>15. ~Sealed'
    <2>1. \A f \in End : ctl[f].st \notin OpenStates /\ inbox[f].data = {}
      BY <1>14 DEF Sealed
    <2>2. \A q \in net : q.type # "ACK"
      BY <1>14 DEF Sealed
    <2>3. \A f \in End : ctl'[f].st \notin OpenStates
      BY <1>5, <1>13, <2>1, Ends DEF OpenStates
    <2>. QED  BY <1>1, <1>4, <2>1, <2>2, <2>3 DEF Sealed
  <1>16. ASSUME NEW q \in net' PROVE PacketAgreed(q)'
    <2>1. q \in net /\ PacketAgreed(q)
      BY <1>1 DEF HInv
    <2>2. q.type # "ACK" /\ q.type # "SYN_ACK"
      BY <1>2, <1>14, <2>1 DEF Sealed, PacketAgreed
    <2>. QED  BY <1>5, <1>13, <2>1, <2>2 DEF PacketAgreed
  <1>17. RolesKept'
    BY <1>5, <1>13 DEF HInv, RolesKept
  <1>18. Offered(opt[Initiator], opt[Responder])'
    BY <1>12, <1>13 DEF i
  <1>19. NonceGate'
    BY <1>5, <1>13 DEF NonceGate, OpenStates
  <1>20. \A f \in End : inbox'[f].data = {}
    BY <1>4, <1>14 DEF Sealed
  <1>. QED  BY <1>15, <1>16, <1>17, <1>18, <1>19, <1>20 DEF HInv

(* A later copy of a syn settles nothing. *)
LEMMA RecvSynSettled ==
  ASSUME IInv, IInv', HInv, NEW e \in End, NEW p \in net, RecvSyn(e, p)
  PROVE  HInv'
  <1>1. CASE ctl[e].st = "IDLE"
    BY <1>1, RecvFirstSynSettled
  <1>2. CASE ctl[e].st # "IDLE"
    <2> DEFINE c == [ctl[e] EXCEPT !.timer = "now"]
    <2>1. ctl' = ctl \/ ctl' = [ctl EXCEPT ![e] = c]
      BY <1>2 DEF RecvSyn
    <2>2. opt' = opt /\ inbox' = inbox
      BY <1>2 DEF RecvSyn
    <2>3. c.st = ctl[e].st
      BY EndFacts, TimerOK DEF Timers
    <2>4. net' \subseteq net
      BY ArrivesFacts DEF RecvSyn
    <2>. HIDE DEF c
    <2>. QED  BY <2>1, <2>2, <2>3, <2>4, PlainStep DEF QuietMove
  <1>. QED  BY <1>1, <1>2

(* An ack leaves an end that is not open where it is, and an open end open *)
(* or closed.                                                              *)
LEMMA CtlAfterAckMove ==
  ASSUME NEW c \in Control, NEW s, NEW ack, NEW newest
  PROVE  LET d == CtlAfterAck(c, s, ack, newest)
         IN  /\ d.st = c.st \/ (c.st \in OpenStates /\ d.st \in OpenStates \cup {"CLOSED"})
             /\ c.st = "ESTABLISHED" => d.st = "ESTABLISHED"
  BY CtlAfterAckState, AckOnFinState DEF OpenStates

(* The syn ack that opens the initiator settles its half: what the         *)
(* responder settled on is within the offer, so the smaller sizes are the  *)
(* responder's.                                                            *)
LEMMA RecvFirstSynAckSettled ==
  ASSUME IInv, IInv', HInv, NEW e \in End, NEW p \in net, RecvSynAck(e, p), ctl[e].st = "SYN_SENT"
  PROVE  HInv'
  <1> DEFINE c == Transition(ctl[e], "ESTABLISHED")
             o == IF opt[e].replayOff \/ p.nonce
                  THEN [opt[e] EXCEPT !.sendNonce = @ \/ ~opt[e].replayOff]
                  ELSE [opt[e] EXCEPT !.replayOff = TRUE]
             n == Negotiate(o, p)
             R == opt[Responder]
  <1>1. /\ net' \subseteq net /\ p.src = Peer(e) /\ p.type = "SYN_ACK" /\ p \in Packets
        /\ PacketAgreed(p)
    BY ArrivesFacts DEF RecvSynAck
  <1>2. e = Initiator
    BY <1>1, Ends DEF PacketAgreed
  <1>3. Repeats(p, R) /\ ctl[Responder].st # "IDLE"
    BY <1>1 DEF PacketAgreed
  <1>4. PICK s, newest : ctl' = [ctl EXCEPT ![e] = CtlAfterAck(c, s, p.ack, newest)]
    BY Zenon DEF RecvSynAck
  <1>5. opt' = [opt EXCEPT ![e] = n] /\ inbox' = inbox
    BY Zenon DEF RecvSynAck
  <1>6. c \in Control /\ c.st = "ESTABLISHED"
    BY EndFacts, TransitionOK DEF StreamStates, OpenStates
  <1>7. CtlAfterAck(c, s, p.ack, newest).st = "ESTABLISHED"
    BY <1>6, CtlAfterAckMove
  <1>8. opt \in [End -> Options] /\ opt[e] \in Options /\ R \in Options
    BY Ends DEF IInv, RestOK
  <1>9. /\ opt[e].maxSend \in Nat /\ opt[e].maxRecv \in Nat /\ R.maxSend \in Nat /\ R.maxRecv \in Nat
        /\ opt[e].replayOff \in BOOLEAN /\ R.replayOff \in BOOLEAN
    BY <1>8, Zenon DEF Options
  <1>10. p.maxSend = R.maxSend /\ p.maxRecv = R.maxRecv /\ p.nonce = ~R.replayOff
    BY <1>3 DEF Repeats
  <1>11. Offered(opt[e], R)
    BY <1>2, <1>3 DEF HInv
  <1>12. /\ o \in Options /\ o.maxSend = opt[e].maxSend /\ o.maxRecv = opt[e].maxRecv
         /\ o.replayOff = (opt[e].replayOff \/ ~p.nonce)
    <2> DEFINE nonce == opt[e].sendNonce \/ ~opt[e].replayOff
    <2>1. nonce \in BOOLEAN
      OBVIOUS
    <2>. HIDE DEF nonce
    <2>2. CASE opt[e].replayOff \/ p.nonce
      <3>1. o = [opt[e] EXCEPT !.sendNonce = nonce]
        BY <2>2 DEF nonce
      <3>. HIDE DEF o
      <3>2. /\ o \in Options /\ o.maxSend = opt[e].maxSend /\ o.maxRecv = opt[e].maxRecv
            /\ o.replayOff = opt[e].replayOff
        BY <1>8, <2>1, <3>1 DEF Options
      <3>. QED  BY <1>9, <1>10, <1>11, <2>2, <3>2 DEF Offered
    <2>3. CASE ~(opt[e].replayOff \/ p.nonce)
      <3>1. o = [opt[e] EXCEPT !.replayOff = TRUE]
        BY <2>3
      <3>. HIDE DEF o
      <3>2. /\ o \in Options /\ o.maxSend = opt[e].maxSend /\ o.maxRecv = opt[e].maxRecv
            /\ o.replayOff = TRUE
        BY <1>8, <3>1 DEF Options
      <3>. QED  BY <2>3, <3>2
    <2>. QED  BY <2>2, <2>3
  <1>. HIDE DEF o
  <1>13. Agreed(n, R)
    <2>1. n.maxSend = SmallerOf(opt[e].maxSend, R.maxRecv) /\ n.maxRecv = SmallerOf(opt[e].maxRecv, R.maxSend)
      BY <1>10, <1>12, NegotiateFields
    <2>2. n.maxSend = R.maxRecv /\ n.maxRecv = R.maxSend
      BY <1>9, <1>11, <2>1, SmallerOfFacts DEF Offered
    <2>3. n.replayOff = o.replayOff
      BY <1>12, NegotiateFields
    <2>4. n.replayOff = R.replayOff
      BY <1>9, <1>10, <1>11, <1>12, <2>3, Zenon DEF Offered
    <2>. QED  BY <2>2, <2>4 DEF Agreed
  <1>. HIDE DEF c, n
  <1>14. /\ ctl'[Initiator].st = "ESTABLISHED" /\ ctl'[Responder] = ctl[Responder]
         /\ opt'[Initiator] = n /\ opt'[Responder] = R
    BY <1>2, <1>4, <1>5, <1>7, <1>8, EndFacts, Ends
  <1>15. ~Sealed
    BY <1>2 DEF HInv
  <1>16. ASSUME NEW q \in net' PROVE PacketAgreed(q)'
    <2>1. q \in net /\ PacketAgreed(q)
      BY <1>1 DEF HInv
    <2>2. q.type # "ACK"
      BY <1>15, <2>1 DEF Sealed
    <2>. QED  BY <1>3, <1>14, <2>1, <2>2 DEF PacketAgreed
  <1>17. RolesKept'
    BY <1>14 DEF HInv, RolesKept
  <1>18. Agreed(opt[Initiator], opt[Responder])' /\ Offered(opt[Initiator], opt[Responder])'
    BY <1>9, <1>13, <1>14 DEF Agreed, Offered
  <1>19. NonceGate'
    BY <1>14 DEF HInv, NonceGate
  <1>20. \A f \in End : inbox'[f].data = {}
    BY <1>5, <1>15 DEF Sealed
  <1>. QED  BY <1>3, <1>14, <1>16, <1>17, <1>18, <1>19, <1>20 DEF HInv

(* A later copy of a syn ack may still tell an initiator that has stopped  *)
(* before it opened that there is no replay protection; it tells an open   *)
(* one nothing new.                                                        *)
LEMMA RecvSynAckSettled ==
  ASSUME IInv, IInv', HInv, NEW e \in End, NEW p \in net, RecvSynAck(e, p)
  PROVE  HInv'
  <1>1. CASE ctl[e].st = "SYN_SENT"
    BY <1>1, RecvFirstSynAckSettled
  <1>2. CASE ctl[e].st # "SYN_SENT"
    <2> DEFINE nonce == opt[e].sendNonce \/ ~opt[e].replayOff
               o == IF opt[e].replayOff \/ p.nonce
                    THEN [opt[e] EXCEPT !.sendNonce = nonce]
                    ELSE [opt[e] EXCEPT !.replayOff = TRUE]
    <2>1. /\ net' \subseteq net /\ p.src = Peer(e) /\ p.type = "SYN_ACK" /\ p \in Packets
          /\ PacketAgreed(p)
      BY ArrivesFacts DEF RecvSynAck
    <2>2. e = Initiator
      BY <2>1, Ends DEF PacketAgreed
    <2>3. Repeats(p, opt[Responder]) /\ ctl[Responder].st # "IDLE"
      BY <2>1 DEF PacketAgreed
    <2>4. PICK s, newest : ctl' = [ctl EXCEPT ![e] = CtlAfterAck(ctl[e], s, p.ack, newest)]
      BY <1>2, Zenon DEF RecvSynAck
    <2>5. opt' = [opt EXCEPT ![e] = o] /\ inbox' = inbox
      BY <1>2, Zenon DEF RecvSynAck
    <2>6. opt \in [End -> Options] /\ opt[e] \in Options
      BY DEF IInv, RestOK
    <2>7. /\ o.maxSend = opt[e].maxSend /\ o.maxRecv = opt[e].maxRecv
          /\ o.replayOff = opt[e].replayOff \/ (~opt[e].replayOff /\ ~p.nonce)
      <3>. HIDE DEF nonce
      <3>1. CASE opt[e].replayOff \/ p.nonce
        BY <2>6, <3>1 DEF Options
      <3>2. CASE ~(opt[e].replayOff \/ p.nonce)
        BY <2>6, <3>2 DEF Options
      <3>. QED  BY <3>1, <3>2
    <2>. HIDE DEF o
    <2>8. /\ opt'[Initiator] = o /\ opt'[Responder] = opt[Responder]
      BY <2>2, <2>5, <2>6, Ends
    <2>9. SettingsKept
      <3>1. o.replayOff = opt[e].replayOff
            \/ (~Sealed /\ ctl[Responder].st # "IDLE" /\ opt[Responder].replayOff)
        BY <2>2, <2>3, <2>7 DEF Repeats, HInv, Agreed
      <3>. QED  BY <2>2, <2>7, <2>8, <3>1, Ends DEF SettingsKept
    <2>10. NewPackets /\ NewInbox
      BY <2>1, <2>5 DEF NewPackets, NewInbox, HInv, Sealed
    <2>11. ASSUME NEW f \in End PROVE Moves(f, ctl[f].st, ctl'[f].st)
      <3> DEFINE d == CtlAfterAck(ctl[e], s, p.ack, newest)
      <3>1. d.st = ctl[e].st \/ (ctl[e].st \in OpenStates /\ d.st \in OpenStates \cup {"CLOSED"})
        BY EndFacts, CtlAfterAckMove
      <3>. HIDE DEF d
      <3>2. ctl'[e] = d /\ \A g \in End \ {e} : ctl'[g] = ctl[g]
        BY <2>4, EndFacts DEF d
      <3>. QED  BY <3>1, <3>2 DEF Moves, Sealed
    <2>12. NonceGate'
      <3>1. ctl'[Responder] = ctl[Responder]
        BY <2>2, <2>4, EndFacts, Ends
      <3>. QED  BY <2>8, <3>1 DEF HInv, NonceGate
    <2>. QED  BY <2>9, <2>10, <2>11, <2>12, SettledStep
  <1>. QED  BY <1>1, <1>2

(* An ack opens the responder, with replay protection only when it has     *)
(* brought the nonce back; that there is an ack means both have settled.   *)
LEMMA RecvAckSettled ==
  ASSUME IInv, IInv', HInv, NEW e \in End, NEW p \in net, RecvAck(e, p)
  PROVE  HInv'
  <1> DEFINE c == IF ctl[e].st = "SYN_RCVD" THEN Transition(ctl[e], "ESTABLISHED") ELSE ctl[e]
             validated == opt[e].nonceValidated \/ (~opt[e].replayOff /\ p.nonce)
             o == [opt[e] EXCEPT !.nonceValidated = validated]
             b == [data |-> p.data, fin |-> p.fin, size |-> IF p.data = {} THEN 0 ELSE p.size]
  <1>1. /\ net' \subseteq net /\ p.src = Peer(e) /\ p.type = "ACK" /\ p \in Packets
        /\ PacketAgreed(p)
    BY ArrivesFacts DEF RecvAck
  <1>2. Sealed /\ p.size = opt[Peer(e)].maxSend
    BY <1>1 DEF Sealed, PacketAgreed
  <1>3. PICK newest : ctl' = [ctl EXCEPT ![e] = CtlAfterAck(c, snd[e], p.ack, newest)]
    BY Zenon DEF RecvAck
  <1>4. opt' = [opt EXCEPT ![e] = o]
    BY Zenon DEF RecvAck
  <1>5. inbox' = [inbox EXCEPT ![e] = b]
    BY Zenon DEF RecvAck
  <1>6. c \in Control /\ (c.st = ctl[e].st \/ c.st = "ESTABLISHED")
    BY EndFacts, TransitionOK DEF StreamStates, OpenStates
  <1>7. opt \in [End -> Options] /\ opt[e] \in Options /\ inbox \in [End -> Inbox]
    BY DEF IInv, RestOK
  <1>8. b.data = p.data /\ (p.data # {} => b.size = p.size)
    OBVIOUS
  <1>. HIDE DEF b, validated
  <1>9. /\ o.maxSend = opt[e].maxSend /\ o.maxRecv = opt[e].maxRecv
        /\ o.replayOff = opt[e].replayOff /\ o.nonceValidated = validated
    BY <1>7 DEF Options
  <1>. HIDE DEF o
  <1>10. opt'[e] = o /\ \A f \in End \ {e} : opt'[f] = opt[f]
    BY <1>4, <1>7
  <1>11. SettingsKept
    BY <1>9, <1>10, Ends DEF SettingsKept
  <1>12. NewInbox
    <2>1. inbox'[e] = b /\ \A f \in End \ {e} : inbox'[f] = inbox[f]
      BY <1>5, <1>7
    <2>. QED  BY <1>2, <1>8, <2>1 DEF NewInbox, HInv
  <1>13. NewPackets
    BY <1>1 DEF NewPackets
  <1> DEFINE d == CtlAfterAck(c, snd[e], p.ack, newest)
  <1>14. d.st = ctl[e].st \/ d.st \in OpenStates \cup {"CLOSED"}
    <2>. HIDE DEF c
    <2>. QED  BY <1>6, CtlAfterAckMove DEF OpenStates
  <1>. HIDE DEF c, d
  <1>15. ctl'[e] = d /\ \A f \in End \ {e} : ctl'[f] = ctl[f]
    BY <1>3, EndFacts DEF d
  <1>16. \A f \in End : Moves(f, ctl[f].st, ctl'[f].st)
    BY <1>2, <1>14, <1>15 DEF Moves
  <1>17. NonceGate'
    <2>1. CASE e = Responder
      <3>1. o.replayOff \/ o.nonceValidated
        BY <1>9 DEF RecvAck, NonceAccepted, validated
      <3>. QED  BY <1>10, <2>1, <3>1 DEF NonceGate
    <2>2. CASE e # Responder
      <3>1. ctl'[Responder] = ctl[Responder] /\ opt'[Responder] = opt[Responder]
        BY <1>10, <1>15, <2>2, Ends
      <3>. QED  BY <3>1 DEF HInv, NonceGate
    <2>. QED  BY <2>1, <2>2
  <1>. QED  BY <1>11, <1>12, <1>13, <1>16, <1>17, SettledStep

(* An ack that is refused for its nonce settles nothing. *)
LEMMA RecvAckWithoutNonceSettled ==
  ASSUME IInv, IInv', HInv, NEW e \in End, NEW p \in net, RecvAckWithoutNonce(e, p)
  PROVE  HInv'
  <1>1. net' \subseteq net
    BY ArrivesFacts DEF RecvAckWithoutNonce
  <1>2. UNCHANGED <<ctl, opt, inbox>>
    BY DEF RecvAckWithoutNonce
  <1>. QED  BY <1>1, <1>2, PlainStep DEF QuietMove

(* ParseData keeps what is settled. *)
LEMMA ParseDataSettled == ASSUME IInv, IInv', HInv, NEW e \in End, ParseData(e) PROVE HInv'
  <1> DEFINE q == CHOOSE x \in inbox[e].data : \A y \in inbox[e].data : x <= y
             rest == inbox[e].data \ {q}
             size == IF rest = {} THEN 0 ELSE inbox[e].size
             b == [inbox[e] EXCEPT !.data = rest, !.size = size]
             c == IF rcv'[e].top # rcv[e].top THEN Raise(ctl[e], {"dataReady"}) ELSE ctl[e]
  <1>1. ctl' = [ctl EXCEPT ![e] = c] /\ UNCHANGED <<opt, net>>
    BY DEF ParseData
  <1>2. inbox' = [inbox EXCEPT ![e] = b]
    BY DEF ParseData
  <1>3. c.st = ctl[e].st
    BY EndFacts, RaiseOK
  <1>4. inbox \in [End -> Inbox] /\ inbox[e] \in Inbox
    BY DEF IInv, RestOK
  <1>. HIDE DEF rest, size
  <1>5. b.data = rest /\ b.size = size
    BY <1>4 DEF Inbox
  <1>. HIDE DEF b, c
  <1>6. inbox'[e] = b /\ \A f \in End \ {e} : inbox'[f] = inbox[f]
    BY <1>2, <1>4
  <1>7. rest # {} => inbox[e].data # {} /\ size = inbox[e].size
    BY DEF rest, size
  <1>8. InboxShrinks
    BY <1>5, <1>6, <1>7 DEF InboxShrinks
  <1>9. NewPackets
    BY <1>1 DEF NewPackets
  <1>10. QuietMove(e, ctl[e].st, c.st)
    BY <1>3 DEF QuietMove
  <1>. QED  BY <1>1, <1>8, <1>9, <1>10, MoveOf, QuietStep

(* ParseFin keeps what is settled: a fin moves an open end only. *)
LEMMA ParseFinSettled == ASSUME IInv, IInv', HInv, NEW e \in End, ParseFin(e) PROVE HInv'
  <1>1. inbox' = [inbox EXCEPT ![e] = EmptyInbox] /\ UNCHANGED <<opt, net>>
    BY DEF ParseFin
  <1>2. NewPackets /\ InboxShrinks
    <2>1. inbox \in [End -> Inbox]
      BY DEF IInv, RestOK
    <2>2. inbox'[e] = EmptyInbox /\ \A f \in End \ {e} : inbox'[f] = inbox[f]
      BY <1>1, <2>1
    <2>. QED  BY <1>1, <2>2 DEF NewPackets, InboxShrinks, EmptyInbox
  <1>3. \A f \in End : QuietMove(f, ctl[f].st, ctl'[f].st)
    <2>1. CASE ctl[e].st \in {"ESTABLISHED", "FIN_WAIT_1", "FIN_WAIT_2"}
      <3> DEFINE b == IF rcv'[e].top # rcv[e].top THEN Raise(ctl[e], {"dataReady"}) ELSE ctl[e]
                 c == IF BufferFound(rcv[e], inbox[e].fin)
                      THEN Transition(b, StateAfterFin(ctl[e].st)) ELSE ctl[e]
      <3>1. ctl' = [ctl EXCEPT ![e] = c]
        BY <2>1, Zenon DEF ParseFin
      <3>2. StateAfterFin(ctl[e].st) \in {"CLOSE_WAIT", "CLOSING", "TIME_WAIT"}
        BY <2>1 DEF StateAfterFin
      <3>3. b \in Control
        BY EndFacts, RaiseOK
      <3>. HIDE DEF b
      <3>4. c.st \in OpenStates
        BY <2>1, <3>2, <3>3, TransitionOK DEF StreamStates, OpenStates
      <3>. HIDE DEF c
      <3>5. QuietMove(e, ctl[e].st, c.st)
        BY <2>1, <3>4 DEF QuietMove, OpenStates
      <3>. QED  BY <3>1, <3>5, MoveOf
    <2>2. CASE ctl[e].st \notin {"ESTABLISHED", "FIN_WAIT_1", "FIN_WAIT_2"}
      <3>1. ctl' = ctl
        BY <2>2 DEF ParseFin
      <3>. QED  BY <3>1 DEF QuietMove
    <2>. QED  BY <2>1, <2>2
  <1>. QED  BY <1>1, <1>2, <1>3, QuietStep

(* An rst closes only what is open. *)
LEMMA RecvRstSettled ==
  ASSUME IInv, IInv', HInv, NEW e \in End, NEW p \in net, RecvRst(e, p)
  PROVE  HInv'
  <1>1. net' \subseteq net
    BY ArrivesFacts DEF RecvRst
  <1>2. UNCHANGED <<opt, inbox>> /\ ctl[e].st # "IDLE"
    BY DEF RecvRst
  <1> DEFINE c == IF ctl[e].st \in ClosedStates THEN ctl[e]
                  ELSE IF ctl[e].st = "TIME_WAIT" \/ (ctl[e].st \in {"LAST_ACK", "CLOSING"} /\ FinIsNext(snd[e]))
                  THEN Transition(ctl[e], "CLOSED")
                  ELSE Transition(ctl[e], "ABORTED_RST")
  <1>3. ctl' = [ctl EXCEPT ![e] = c]
    BY DEF RecvRst
  <1>4. \A new \in {"CLOSED", "ABORTED_RST"} : Transition(ctl[e], new).st = new
    BY EndFacts, TransitionOK DEF StreamStates, ClosedStates
  <1>5. QuietMove(e, ctl[e].st, c.st)
    BY <1>2, <1>4 DEF QuietMove, OpenStates
  <1>. HIDE DEF c
  <1>. QED  BY <1>1, <1>2, <1>3, <1>5, PlainStep

(* AnswerRst keeps what is settled. *)
LEMMA AnswerRstSettled ==
  ASSUME IInv, IInv', HInv, NEW e \in End, NEW p \in net, AnswerRst(e, p)
  PROVE  HInv'
  <1>1. UNCHANGED <<ctl, opt, inbox>>
    BY DEF AnswerRst
  <1>2. \A q \in net' : q \in net \/ q.type = "RST"
    BY DEF AnswerRst, RstPacket
  <1>. QED  BY <1>1, <1>2, PlainStep DEF QuietMove
-----------------------------------------------------------------------------
(* The application, the integrator and the network.                        *)

LEMMA OpenSettled == ASSUME IInv, IInv', HInv, NEW e \in End, Open(e) PROVE HInv'
  <1> DEFINE c == Transition(ctl[e], "SYN_SENT")
  <1>1. /\ ctl' = [ctl EXCEPT ![e] = c] /\ UNCHANGED <<opt, inbox, net>>
        /\ e = Initiator /\ ctl[e].st = "IDLE"
    BY DEF Open
  <1>2. c.st = "SYN_SENT"
    BY EndFacts, TransitionOK DEF StreamStates, OpeningStates
  <1>. HIDE DEF c
  <1>. QED  BY <1>1, <1>2, PlainStep DEF QuietMove

(* Only a responder accepts. *)
LEMMA AcceptSettled == ASSUME IInv, IInv', HInv, NEW e \in End, Accept(e) PROVE HInv'
  <1> DEFINE c == Transition(ctl[e], "SYN_RCVD")
  <1>1. /\ ctl' = [ctl EXCEPT ![e] = c] /\ UNCHANGED <<opt, inbox, net>>
        /\ ctl[e].st \in {"WAIT_ACCEPT", "ACCEPT"}
    BY DEF Accept
  <1>2. c.st = "SYN_RCVD"
    BY EndFacts, TransitionOK DEF StreamStates, OpeningStates
  <1>3. e = Responder
    BY <1>1, Ends DEF HInv, RolesKept
  <1>. HIDE DEF c
  <1>. QED  BY <1>1, <1>2, <1>3, PlainStep DEF QuietMove

(* Write keeps what is settled. *)
LEMMA WriteSettled ==
  ASSUME IInv, IInv', HInv, NEW e \in End, NEW n \in 1..MaxSegsPerWrite, Write(e, n)
  PROVE  HInv'
  <1> DEFINE timer == IF ctl[e].timer = "inf" THEN "future" ELSE ctl[e].timer
             c == [ctl[e] EXCEPT !.timer = timer]
  <1>1. ctl' = [ctl EXCEPT ![e] = c] /\ UNCHANGED <<opt, inbox, net>>
    BY DEF Write
  <1>2. c.st = ctl[e].st
    BY EndFacts DEF Control
  <1>. HIDE DEF c
  <1>. QED  BY <1>1, <1>2, PlainStep DEF QuietMove

(* Read and ReadEof keep what is settled. *)
LEMMA ReadSettled ==
  ASSUME IInv, IInv', HInv, NEW e \in End, Read(e) \/ ReadEof(e)
  PROVE  HInv'
  <1>1. UNCHANGED <<ctl, opt, inbox, net>>
    BY DEF Read, ReadEof
  <1>. QED  BY <1>1, PlainStep DEF QuietMove

(* Close moves an open end on and aborts one that is opening. *)
LEMMA CloseSettled == ASSUME IInv, IInv', HInv, NEW e \in End, Close(e) PROVE HInv'
  <1> DEFINE c == IF ctl[e].st \in {"ESTABLISHED", "CLOSE_WAIT"}
                  THEN Transition(ctl[e], IF ctl[e].st = "ESTABLISHED" THEN "FIN_WAIT_1" ELSE "LAST_ACK")
                  ELSE Transition(ctl[e], "ABORTED")
  <1>1. ctl' = [ctl EXCEPT ![e] = c] /\ UNCHANGED <<opt, inbox, net>>
    BY DEF Close, OpeningStates
  <1>2. \A new \in {"FIN_WAIT_1", "LAST_ACK", "ABORTED"} : Transition(ctl[e], new).st = new
    BY EndFacts, TransitionOK DEF StreamStates, OpenStates, ClosedStates
  <1>3. ctl[e].st # "IDLE"
    BY DEF Close, OpeningStates
  <1>4. QuietMove(e, ctl[e].st, c.st)
    BY <1>2, <1>3 DEF QuietMove, OpenStates
  <1>. HIDE DEF c
  <1>. QED  BY <1>1, <1>4, PlainStep

(* Release keeps what is settled. *)
LEMMA ReleaseSettled == ASSUME IInv, IInv', HInv, NEW e \in End, Release(e) PROVE HInv'
  <1> DEFINE c == [st |-> "RELEASED", timer |-> "inf", ev |-> {}]
  <1>1. ctl' = [ctl EXCEPT ![e] = c] /\ UNCHANGED <<opt, inbox>> /\ ctl[e].st # "IDLE"
    BY DEF Release
  <1>2. \A p \in net' : p \in net \/ p.type = "RST"
    BY DEF Release, RstPacket
  <1>3. QuietMove(e, ctl[e].st, c.st)
    BY <1>1 DEF QuietMove
  <1>. HIDE DEF c
  <1>. QED  BY <1>1, <1>2, <1>3, PlainStep

(* A connection that dies closes only what is open. *)
LEMMA ConnectionDiedSettled == ASSUME IInv, IInv', HInv, NEW e \in End, ConnectionDied(e) PROVE HInv'
  <1> DEFINE c == Transition(ctl[e], IF ctl[e].st = "LAST_ACK" THEN "CLOSED" ELSE "ABORTED_RST")
  <1>1. ctl' = [ctl EXCEPT ![e] = c] /\ UNCHANGED <<opt, inbox, net>> /\ ctl[e].st # "IDLE"
    BY DEF ConnectionDied
  <1>2. \A new \in {"CLOSED", "ABORTED_RST"} : Transition(ctl[e], new).st = new
    BY EndFacts, TransitionOK DEF StreamStates, ClosedStates
  <1>3. QuietMove(e, ctl[e].st, c.st)
    BY <1>1, <1>2 DEF QuietMove, OpenStates
  <1>. HIDE DEF c
  <1>. QED  BY <1>1, <1>3, PlainStep

(* SegmentAvailable keeps what is settled. *)
LEMMA SegmentAvailableSettled ==
  ASSUME IInv, IInv', HInv, NEW e \in End, SegmentAvailable(e)
  PROVE  HInv'
  <1> DEFINE c == IF snd[e].segWait THEN Raise(ctl[e], {"dataWrite"}) ELSE ctl[e]
  <1>1. ctl' = ctl \/ ctl' = [ctl EXCEPT ![e] = c]
    BY DEF SegmentAvailable
  <1>2. UNCHANGED <<opt, inbox, net>>
    BY DEF SegmentAvailable
  <1>3. c.st = ctl[e].st
    BY EndFacts, RaiseOK
  <1>. HIDE DEF c
  <1>. QED  BY <1>1, <1>2, <1>3, PlainStep DEF QuietMove

(* EarlyTimer keeps what is settled. *)
LEMMA EarlyTimerSettled == ASSUME IInv, IInv', HInv, NEW e \in End, EarlyTimer(e) PROVE HInv'
  <1> DEFINE c == [ctl[e] EXCEPT !.timer = "now"]
  <1>1. ctl' = [ctl EXCEPT ![e] = c] /\ UNCHANGED <<opt, inbox, net>>
    BY DEF EarlyTimer
  <1>2. c.st = ctl[e].st
    BY EndFacts, TimerOK DEF Timers
  <1>. HIDE DEF c
  <1>. QED  BY <1>1, <1>2, PlainStep DEF QuietMove

(* Lose keeps what is settled. *)
LEMMA LoseSettled == ASSUME IInv, IInv', HInv, NEW p \in net, Lose(p) PROVE HInv'
  <1>1. UNCHANGED <<ctl, opt, inbox>> /\ net' \subseteq net
    BY DEF Lose
  <1>. QED  BY <1>1, Ends, PlainStep DEF QuietMove

(* Silence keeps what is settled. *)
LEMMA SilenceSettled == ASSUME IInv, IInv', HInv, Silence PROVE HInv'
  <1>1. UNCHANGED <<opt, inbox, net>>
    BY DEF Silence
  <1>2. ASSUME NEW f \in End PROVE QuietMove(f, ctl[f].st, ctl'[f].st)
    <2> DEFINE c == [ctl[f] EXCEPT !.timer = "now"]
    <2>1. ctl'[f] = c \/ ctl'[f] = ctl[f]
      BY DEF Silence
    <2>2. c.st = ctl[f].st
      BY EndFacts, TimerOK DEF Timers
    <2>. HIDE DEF c
    <2>. QED  BY <2>1, <2>2 DEF QuietMove
  <1>3. NewPackets /\ InboxShrinks
    BY <1>1 DEF NewPackets, InboxShrinks
  <1>. QED  BY <1>1, <1>2, <1>3, Ends, QuietStep

(* Nothing is settled before anything is sent. *)
LEMMA InitSettled == ASSUME Init PROVE HInv
  <1>1. \A e \in End : ctl[e].st = "IDLE" /\ inbox[e].data = {}
    BY DEF Init, EmptyInbox
  <1>2. net = {}
    BY DEF Init
  <1>3. ~Sealed
    BY <1>1, <1>2 DEF Sealed, OpenStates
  <1>. QED  BY <1>1, <1>2, <1>3, Ends DEF HInv, RolesKept, NonceGate, OpenStates

(* Every step of either end, of the network and of time keeps what the     *)
(* ends have settled.                                                      *)
LEMMA NextSettled == ASSUME IInv, IInv', HInv, [Next]_vars PROVE HInv'
  <1>1. ASSUME NEW e \in End, Loop(e) PROVE HInv'
    BY <1>1, PollSettled, QueueAcceptSettled, SendSynSettled, SendSynAckSettled, SendDataSettled,
       SendAckSettled, TimeoutSettled, SendRstSettled, DispatchEventSettled, TimeWaitSettled,
       Zenon DEF Loop
  <1>2. ASSUME NEW e \in End, Parse(e) PROVE HInv'
    BY <1>2, ParseDataSettled, ParseFinSettled, Zenon DEF Parse
  <1>3. ASSUME NEW e \in End, Application(e) PROVE HInv'
    BY <1>3, OpenSettled, AcceptSettled, ReadSettled, CloseSettled, WriteSettled, Zenon DEF Application
  <1>4. ASSUME NEW e \in End, Integrator(e) PROVE HInv'
    BY <1>4, ReleaseSettled, ConnectionDiedSettled, SegmentAvailableSettled, EarlyTimerSettled,
       Zenon DEF Integrator
  <1>5. ASSUME NEW e \in End, NEW p \in net, Receive(e, p) PROVE HInv'
    BY <1>5, RecvSynSettled, RecvSynAckSettled, RecvAckSettled, RecvAckWithoutNonceSettled,
       RecvRstSettled, AnswerRstSettled, Zenon DEF Receive
  <1>6. CASE UNCHANGED vars
    <2>1. UNCHANGED <<ctl, opt, inbox, net>>
      BY <1>6 DEF vars
    <2>. QED  BY <2>1, Ends, PlainStep DEF QuietMove
  <1>. QED  BY <1>1, <1>2, <1>3, <1>4, <1>5, <1>6, LoseSettled, SilenceSettled, Zenon DEF Next
-----------------------------------------------------------------------------
(* What syn, syn ack and the settings of the two ends are worth holds in   *)
(* every reachable state, whatever copies of them are lost, late or        *)
(* repeated.                                                               *)
THEOREM HandshakeInvariance == Spec => [](IInv /\ HInv)
  <1>1. Init => IInv /\ HInv
    BY InitOK, InitSettled
  <1>2. IInv /\ HInv /\ [Next]_vars => IInv' /\ HInv'
    BY NextOK, NextSettled
  <1>. QED  BY <1>1, <1>2, PTL DEF Spec

(* No segment is ever dropped for its size: what nabto_stream_parse_data   *)
(* compares with maxRecvSegmentSize was cut to the size both handshake     *)
(* packets settled on, and both ends agree on replay protection.           *)
THEOREM SizesAgreed == Spec => []Agreement
  <1>1. ASSUME IInv, HInv PROVE Agreement
    <2>1. ASSUME NEW e \in End, inbox[e].data # {}
          PROVE  inbox[e].size <= opt[e].maxRecv /\ opt[e].replayOff = opt[Peer(e)].replayOff
      <3>1. Agreed(opt[Initiator], opt[Responder]) /\ inbox[e].size = opt[Peer(e)].maxSend
        BY <1>1, <2>1 DEF HInv, Sealed
      <3>2. \A f \in End : opt[f].maxRecv \in Nat
        BY <1>1 DEF IInv, RestOK, Options
      <3>3. opt[e].maxRecv \in Nat /\ inbox[e].size = opt[e].maxRecv
        BY <3>1, <3>2, Ends DEF Agreed
      <3>4. opt[e].replayOff = opt[Peer(e)].replayOff
        BY <3>1, Ends DEF Agreed
      <3>. QED  BY <3>3, <3>4
    <2>. QED  BY <2>1 DEF Agreement
  <1>. QED  BY <1>1, HandshakeInvariance, PTL

(* A responder with replay protection is never open on packets that may be *)
(* replayed: nabto_stream_parse_ack has let none past before the nonce.    *)
THEOREM NonceFirst == Spec => []NonceGate
  <1>1. HInv => NonceGate
    BY DEF HInv
  <1>. QED  BY <1>1, HandshakeInvariance, PTL
=============================================================================
