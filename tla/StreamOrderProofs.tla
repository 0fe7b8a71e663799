-------------------------- MODULE StreamOrderProofs --------------------------
(***************************************************************************)
(* What the two applications of a connection see, proved for every value   *)
(* of the constants of StreamPair: what is read is what was written, in    *)
(* order and once; end of file comes after everything and only if the peer *)
(* has closed; the fin is the last segment; CLOSED means that all data has *)
(* arrived; and so StreamPair implements ReliableStream.                   *)
(*                                                                         *)
(* OInv relates the receive half of one end with the send half of the      *)
(* other.  Packets are old when they arrive, so everything it says of the  *)
(* peer's send half must stay true while that half moves on: see Later.    *)
(*                                                                         *)
(* The second half is about what an application waits for.  TendedInv says *)
(* what is outstanding while the timer is not set, and CInv how far two    *)
(* closing ends are: when the timer may be missing, and when closing in an *)
(* orderly way ends in an abort.                                           *)
(***************************************************************************)
EXTENDS StreamProofs

(* The states of a stream whose application has closed it. *)
ClosingStates == {"FIN_WAIT_1", "FIN_WAIT_2", "CLOSING", "TIME_WAIT", "LAST_ACK"}

(* The numbering of the segments of e: nothing before open or accept, then *)
(* from StartSeq on, and the fin, which waits for the close and for all    *)
(* data to be acknowledged, last.                                          *)
Framed(e, c, s, a) ==
  /\ \A q \in Outstanding(s) : StartSeq[e] < q
  /\ c.st \in Unopened => s.xmit = 0 /\ s.fin = NoSeq
  /\ c.st \in OpenStates \cup {"SYN_SENT", "SYN_RCVD"} => StartSeq[e] <= s.xmit
  /\ s.fin # NoSeq => /\ s.fin = s.xmit /\ StartSeq[e] < s.fin
                      /\ Outstanding(s) \subseteq {s.fin} /\ a.closed
  /\ c.st \in ClosingStates => a.closed
  /\ a.closed => c.st \in ClosingStates \cup ClosedStates \cup {"RELEASED"}

SendOrdered(e, c, s, a) == Listed(s) /\ Framed(e, c, s, a)

(* Nothing has been heard of the peer. *)
Blank(r, a) ==
  /\ r.top = 0 /\ r.max = 0 /\ r.fin = NoFin /\ r.readq = <<>>
  /\ a.got = <<>> /\ ~a.eof

(* r holds, and a has read, what the peer of e has numbered in s. *)
Ordered(e, r, a, s) ==
  /\ InSequence(StartSeq[Peer(e)], r, a.got)
  /\ StartSeq[Peer(e)] <= LastData(s)
  /\ r.fin = NoFin => r.max <= LastData(s) /\ ~a.eof
  /\ r.fin # NoFin => /\ r.fin = s.fin /\ r.top = r.fin /\ r.readq # <<>>
                      /\ a.eof => Len(r.readq) = 1

AnchoredStates == OpenStates \cup {"ACCEPT", "WAIT_ACCEPT", "SYN_RCVD"}

RecvOrdered(e, c, r, a, s) ==
  /\ Blank(r, a) \/ Ordered(e, r, a, s)
  /\ c.st \in Unanchored => Blank(r, a)
  /\ c.st \in AnchoredStates => Ordered(e, r, a, s)

(* Segments under way from f, whose send half is s. *)
Numbered(f, data, fin, s) ==
  data \subseteq (StartSeq[f] + 1) .. LastData(s) /\ fin \in {NoFin, s.fin}

PacketOrdered(p, s) ==
  /\ p.type = "ACK" => Numbered(p.src, p.data, p.fin, s)
  /\ p.type \in {"SYN", "SYN_ACK"} => p.seq = StartSeq[p.src] /\ StartSeq[p.src] <= LastData(s)

(* After the fin has been acknowledged only a fin sent twice is left. *)
Flushed(c, s) ==
  c.st \in {"FIN_WAIT_2", "TIME_WAIT", "CLOSED"} => Outstanding(s) \subseteq {s.fin}

(* The inductive invariant. *)
OInv ==
  /\ \A e \in End : /\ SendOrdered(e, ctl[e], snd[e], app[e])
                    /\ RecvOrdered(e, ctl[e], rcv[e], app[e], snd[Peer(e)])
                    /\ Numbered(Peer(e), inbox[e].data, inbox[e].fin, snd[Peer(e)])
  /\ \A p \in net : PacketOrdered(p, snd[p.src])
  /\ env.deaths = MaxDeaths => \A e \in End : Flushed(ctl[e], snd[e])

(* How the send half of an end may move on. *)
Later(s, t) == LastData(s) <= LastData(t) /\ (s.fin # NoSeq => t.fin = s.fin)

(* A step of the reliable channel, or none. *)
ChannelStep == [Channel!Next]_(Channel!channel)
-----------------------------------------------------------------------------
(* The last data segment is an integer. *)
LEMMA LastDataType == ASSUME NEW s, SendOK(s) PROVE LastData(s) \in Int
  <1> DEFINE xmit == s.xmit
  <1>1. xmit \in Nat
    BY DEF SendOK, SendHalf
  <1>2. LastData(s) = xmit \/ LastData(s) = xmit - 1
    BY DEF LastData
  <1>. HIDE DEF xmit
  <1>. QED  BY <1>1, <1>2

(* What is known of the peer's send half stays true when it moves on. *)
LEMMA StaysOrdered ==
  ASSUME NEW e \in End, NEW c, NEW r, RecvOK(r), NEW a, NEW s, SendOK(s), NEW t, SendOK(t),
         Later(s, t), RecvOrdered(e, c, r, a, s)
  PROVE  RecvOrdered(e, c, r, a, t)
  <1>1. LastData(s) \in Int /\ LastData(t) \in Int /\ LastData(s) <= LastData(t)
    BY LastDataType DEF Later
  <1>2. r.max \in Nat /\ StartSeq[Peer(e)] \in Nat
    BY PairAssumption, PeerFacts DEF RecvOK, RecvHalf
  <1>3. ASSUME Ordered(e, r, a, s) PROVE Ordered(e, r, a, t)
    <2>1. StartSeq[Peer(e)] <= LastData(t)
      BY <1>1, <1>2, <1>3 DEF Ordered
    <2>2. r.max <= LastData(s) => r.max <= LastData(t)
      BY <1>1, <1>2
    <2>3. r.fin # NoFin => r.fin = t.fin
      BY <1>3 DEF Ordered, Later, NoFin, NoSeq
    <2>. QED  BY <1>3, <2>1, <2>2, <2>3 DEF Ordered
  <1>. QED  BY <1>3 DEF RecvOrdered

(* So does what is known of the segments under way. *)
LEMMA StaysNumbered ==
  ASSUME NEW f \in End, NEW data, NEW fin, NEW s, SendOK(s), NEW t, SendOK(t),
         Later(s, t), Numbered(f, data, fin, s)
  PROVE  Numbered(f, data, fin, t)
  <1>1. LastData(s) \in Int /\ LastData(t) \in Int /\ LastData(s) <= LastData(t)
    BY LastDataType DEF Later
  <1>2. StartSeq[f] \in Nat
    BY PairAssumption
  <1>3. data \subseteq (StartSeq[f] + 1) .. LastData(t)
    BY <1>1, <1>2 DEF Numbered
  <1>. QED  BY <1>3 DEF Numbered, Later, NoFin, NoSeq

(* So does what is known of a packet under way. *)
LEMMA PacketStaysOrdered ==
  ASSUME NEW p, p.src \in End, NEW s, SendOK(s), NEW t, SendOK(t),
         Later(s, t), PacketOrdered(p, s)
  PROVE  PacketOrdered(p, t)
  <1>1. p.type = "ACK" => Numbered(p.src, p.data, p.fin, t)
    BY StaysNumbered DEF PacketOrdered
  <1>2. LastData(s) \in Int /\ LastData(t) \in Int /\ LastData(s) <= LastData(t)
    BY LastDataType DEF Later
  <1>3. StartSeq[p.src] \in Nat
    BY PairAssumption
  <1>4. StartSeq[p.src] <= LastData(s) => StartSeq[p.src] <= LastData(t)
    BY <1>2, <1>3
  <1>. QED  BY <1>1, <1>4 DEF PacketOrdered

(* A send half that numbers nothing new is later than itself. *)
LEMMA LaterSame ==
  ASSUME NEW s, SendOK(s), NEW t, LastData(t) = LastData(s), s.fin # NoSeq => t.fin = s.fin
  PROVE  Later(s, t)
  <1>1. LastData(s) \in Int
    BY LastDataType
  <1>. QED  BY <1>1 DEF Later
-----------------------------------------------------------------------------
(* A step of one end, given by what becomes of its parts. *)
LEMMA UpdateOrder ==
  ASSUME IInv, IInv', OInv, NEW e \in End, NEW c, NEW s, NEW r, NEW b, NEW a,
         (ctl' = ctl /\ c = ctl[e]) \/ ctl' = [ctl EXCEPT ![e] = c],
         (snd' = snd /\ s = snd[e]) \/ snd' = [snd EXCEPT ![e] = s],
         (rcv' = rcv /\ r = rcv[e]) \/ rcv' = [rcv EXCEPT ![e] = r],
         (inbox' = inbox /\ b = inbox[e]) \/ inbox' = [inbox EXCEPT ![e] = b],
         (app' = app /\ a = app[e]) \/ app' = [app EXCEPT ![e] = a],
         SendOrdered(e, c, s, a), Later(snd[e], s),
         RecvOrdered(e, c, r, a, snd[Peer(e)]),
         Numbered(Peer(e), b.data, b.fin, snd[Peer(e)]),
         \A p \in net' : p \in net \/ (p.src = e /\ PacketOrdered(p, s)),
         env'.deaths = MaxDeaths => env.deaths = MaxDeaths /\ Flushed(c, s)
  PROVE  OInv'
  <1>1. /\ ctl' [e] = c /\ snd'[e] = s /\ rcv'[e] = r /\ inbox'[e] = b /\ app'[e] = a
        /\ \A f \in End \ {e} : /\ ctl'[f] = ctl[f] /\ snd'[f] = snd[f] /\ rcv'[f] = rcv[f]
                                /\ inbox'[f] = inbox[f] /\ app'[f] = app[f]
    BY EndFacts DEF RestOK
  <1>2. \A f \in End : SendOK(snd[f]) /\ RecvOK(rcv[f])
    BY EndFacts
  <1>3. \A f \in End : SendOK(snd'[f]) /\ RecvOK(rcv'[f])
    BY <1>1 DEF IInv, EndsOK, SendSafe, SendOK, RecvOK, WindowOK, RecvSegmentsFree
  <1>4. ASSUME NEW f \in End PROVE Later(snd[f], snd'[f])
    BY <1>1, <1>2, LaterSame
  <1>5. ASSUME NEW f \in End
        PROVE  /\ SendOrdered(f, ctl'[f], snd'[f], app'[f])
               /\ RecvOrdered(f, ctl'[f], rcv'[f], app'[f], snd'[Peer(f)])
               /\ Numbered(Peer(f), inbox'[f].data, inbox'[f].fin, snd'[Peer(f)])
    <2>1. Peer(f) \in End
      BY PeerFacts
    <2>2. /\ SendOrdered(f, ctl'[f], snd'[f], app'[f])
          /\ RecvOrdered(f, ctl'[f], rcv'[f], app'[f], snd[Peer(f)])
          /\ Numbered(Peer(f), inbox'[f].data, inbox'[f].fin, snd[Peer(f)])
      BY <1>1 DEF OInv
    <2>. QED  BY <1>2, <1>3, <1>4, <2>1, <2>2, StaysOrdered, StaysNumbered
  <1>6. ASSUME NEW p \in net' PROVE PacketOrdered(p, snd'[p.src])
    <2>1. CASE p \in net
      <3>1. p.src \in End
        BY <2>1 DEF IInv, NetSafe, Packets, SynPackets, SynAckPackets, AckPackets, RstPackets
      <3>. QED  BY <1>2, <1>3, <1>4, <2>1, <3>1, PacketStaysOrdered DEF OInv
    <2>2. CASE p.src = e /\ PacketOrdered(p, s)
      BY <1>1, <2>2
    <2>. QED  BY <2>1, <2>2
  <1>7. env'.deaths = MaxDeaths => \A f \in End : Flushed(ctl'[f], snd'[f])
    BY <1>1 DEF OInv
  <1>. QED  BY <1>5, <1>6, <1>7 DEF OInv, SendOrdered, Framed, Listed, RecvOrdered, Ordered,
       Blank, Numbered, PacketOrdered, Flushed

(* What e has written, by its send half. *)
WrittenBy(e, s) == LargerOf(0, LastData(s) - StartSeq[e])

(* The applications see nothing of a step that neither writes, reads nor   *)
(* closes.                                                                 *)
LEMMA NoChannelStep ==
  ASSUME app' = app, \A f \in End : Written(f)' = Written(f)
  PROVE  ChannelStep
  BY DEF ChannelStep, Channel!channel

(* A step of one end that its application does not see. *)
LEMMA QuietStep ==
  ASSUME IInv, IInv', OInv, NEW e \in End, NEW c, NEW s, NEW r, NEW b,
         (ctl' = ctl /\ c = ctl[e]) \/ ctl' = [ctl EXCEPT ![e] = c],
         (snd' = snd /\ s = snd[e]) \/ snd' = [snd EXCEPT ![e] = s],
         (rcv' = rcv /\ r = rcv[e]) \/ rcv' = [rcv EXCEPT ![e] = r],
         (inbox' = inbox /\ b = inbox[e]) \/ inbox' = [inbox EXCEPT ![e] = b],
         app' = app,
         SendOrdered(e, c, s, app[e]), Later(snd[e], s),
         WrittenBy(e, s) = WrittenBy(e, snd[e]),
         RecvOrdered(e, c, r, app[e], snd[Peer(e)]),
         Numbered(Peer(e), b.data, b.fin, snd[Peer(e)]),
         \A p \in net' : p \in net \/ (p.src = e /\ PacketOrdered(p, s)),
         env'.deaths = MaxDeaths => env.deaths = MaxDeaths /\ Flushed(c, s)
  PROVE  OInv' /\ ChannelStep
  <1>1. OInv'
    BY UpdateOrder
  <1>2. snd'[e] = s /\ \A f \in End \ {e} : snd'[f] = snd[f]
    BY EndFacts
  <1>3. ASSUME NEW f \in End PROVE Written(f)' = Written(f)
    <2>1. Written(f) = WrittenBy(f, snd[f]) /\ Written(f)' = WrittenBy(f, snd'[f])
      BY DEF Written, WrittenBy, LastData, LargerOf
    <2>. QED  BY <1>2, <2>1
  <1>. QED  BY <1>1, <1>3, NoChannelStep

(* What the invariant says of one end. *)
LEMMA OrderFacts ==
  ASSUME OInv, NEW e \in End
  PROVE  /\ SendOrdered(e, ctl[e], snd[e], app[e])
         /\ Listed(snd[e]) /\ Framed(e, ctl[e], snd[e], app[e])
         /\ RecvOrdered(e, ctl[e], rcv[e], app[e], snd[Peer(e)])
         /\ Numbered(Peer(e), inbox[e].data, inbox[e].fin, snd[Peer(e)])
         /\ env.deaths = MaxDeaths => Flushed(ctl[e], snd[e])
  BY DEF OInv, SendOrdered

(* Freeing segments keeps the numbering. *)
LEMMA KeepsFrame ==
  ASSUME NEW e, NEW a, NEW c, NEW s, Framed(e, c, s, a),
         NEW d, d.st = c.st,
         NEW t, t.xmit = s.xmit, t.fin = s.fin, Outstanding(t) \subseteq Outstanding(s)
  PROVE  /\ Framed(e, d, t, a)
         /\ LastData(t) = LastData(s) /\ WrittenBy(e, t) = WrittenBy(e, s)
         /\ Flushed(c, s) => Flushed(d, t)
  <1>1. LastData(t) = LastData(s)
    BY DEF LastData
  <1>2. Framed(e, d, t, a)
    BY DEF Framed
  <1>. QED  BY <1>1, <1>2 DEF WrittenBy, Flushed

(* A receive half in which the same segments are in order. *)
LEMMA KeepsOrder ==
  ASSUME NEW e, NEW a, NEW s, NEW c, NEW r, RecvOrdered(e, c, r, a, s),
         NEW d, d.st = c.st, NEW t, SameRead(r, t)
  PROVE  RecvOrdered(e, d, t, a, s)
  <1>1. Blank(r, a) => Blank(t, a)
    BY DEF Blank, SameRead
  <1>2. Ordered(e, r, a, s) => Ordered(e, t, a, s)
    BY SameReadInSequence DEF Ordered, SameRead
  <1>. QED  BY <1>1, <1>2 DEF RecvOrdered

(* A step that changes neither the state nor what is numbered or received. *)
LEMMA SameStep ==
  ASSUME IInv, IInv', OInv, NEW e \in End, NEW c, NEW s, NEW r,
         (ctl' = ctl /\ c = ctl[e]) \/ ctl' = [ctl EXCEPT ![e] = c],
         (snd' = snd /\ s = snd[e]) \/ snd' = [snd EXCEPT ![e] = s],
         (rcv' = rcv /\ r = rcv[e]) \/ rcv' = [rcv EXCEPT ![e] = r],
         inbox' = inbox, app' = app, env'.deaths = env.deaths,
         c.st = ctl[e].st,
         Listed(s), s.fin = snd[e].fin, SameOutstanding(snd[e], s),
         SameRead(rcv[e], r),
         \A p \in net' : p \in net \/ (p.src = e /\ PacketOrdered(p, s))
  PROVE  OInv' /\ ChannelStep
  <1>1. /\ Framed(e, c, s, app[e])
        /\ LastData(s) = LastData(snd[e]) /\ WrittenBy(e, s) = WrittenBy(e, snd[e])
        /\ Flushed(ctl[e], snd[e]) => Flushed(c, s)
    BY OrderFacts, KeepsFrame DEF SameOutstanding
  <1>2. Later(snd[e], s)
    BY <1>1, EndFacts, LaterSame
  <1>3. RecvOrdered(e, c, r, app[e], snd[Peer(e)])
    BY OrderFacts, KeepsOrder
  <1>. QED  BY <1>1, <1>2, <1>3, OrderFacts, QuietStep DEF SendOrdered

(* A step of one end into a state in which the stream is over. *)
LEMMA OverStep ==
  ASSUME IInv, IInv', OInv, NEW e \in End, NEW c,
         ctl' = [ctl EXCEPT ![e] = c], UNCHANGED <<snd, rcv, inbox, app>>,
         c.st \in ClosedStates \cup {"RELEASED"},
         \A p \in net' : p \in net \/ (p.src = e /\ p.type = "RST"),
         env'.deaths = MaxDeaths => env.deaths = MaxDeaths /\ Flushed(c, snd[e])
  PROVE  OInv' /\ ChannelStep
  <1>1. Framed(e, c, snd[e], app[e])
    BY OrderFacts DEF Framed, Unopened, OpenStates, ClosingStates, ClosedStates
  <1>2. RecvOrdered(e, c, rcv[e], app[e], snd[Peer(e)])
    BY OrderFacts DEF RecvOrdered, Unanchored, AnchoredStates, OpenStates, ClosedStates
  <1>3. Later(snd[e], snd[e])
    BY EndFacts, LaterSame
  <1>4. \A p \in net' : p \in net \/ (p.src = e /\ PacketOrdered(p, snd[e]))
    BY DEF PacketOrdered
  <1>. QED  BY <1>1, <1>2, <1>3, <1>4, OrderFacts, QuietStep DEF SendOrdered
-----------------------------------------------------------------------------
(* The event loop.                                                         *)

(* Retried allocations touch neither the numbering nor what is received. *)
LEMMA PollOrder == ASSUME IInv, OInv, NEW e \in End, Poll(e) PROVE OInv' /\ ChannelStep
  <1> DEFINE r == IF rcv[e].wait THEN AllocateNextRecvSegment(rcv[e]) ELSE rcv[e]
             s == IF snd[e].segWait THEN AllocateNextSendSegment(snd[e]) ELSE snd[e]
             c == IF snd[e].segWait /\ s.hasSeg THEN Raise(ctl[e], {"dataWrite"}) ELSE ctl[e]
  <1>1. rcv' = [rcv EXCEPT ![e] = r] /\ snd' = [snd EXCEPT ![e] = s]
    BY DEF Poll
  <1>2. ctl' = [ctl EXCEPT ![e] = c]
    <2>1. snd'[e] = s
      BY <1>1, EndFacts
    <2>. QED  BY <2>1, Zenon DEF Poll
  <1>3. SameRead(rcv[e], r)
    BY EndFacts, SameReadOps
  <1>4. Listed(s) /\ s.fin = snd[e].fin /\ SameOutstanding(snd[e], s)
    BY EndFacts, OrderFacts, SameLists, AllocateNextSendSegmentOK DEF SameOutstanding
  <1>5. c.st = ctl[e].st
    BY EndFacts, RaiseOK
  <1>6. UNCHANGED <<inbox, app, net, env>>
    BY DEF Poll
  <1>. HIDE DEF r, s, c
  <1>. QED  BY <1>1, <1>2, <1>3, <1>4, <1>5, <1>6, PollOK, SameStep

(* Queueing for accept leaves both halves alone. *)
LEMMA QueueAcceptOrder == ASSUME IInv, OInv, NEW e \in End, QueueAccept(e) PROVE OInv' /\ ChannelStep
  <1> DEFINE c == Transition(ctl[e], "WAIT_ACCEPT")
  <1>1. ctl[e].st = "ACCEPT" /\ ctl' = [ctl EXCEPT ![e] = c]
    BY DEF QueueAccept, Turn, NextEvent
  <1>2. UNCHANGED <<snd, rcv, inbox, app, net, env>>
    BY DEF QueueAccept
  <1>3. c.st = "WAIT_ACCEPT"
    BY EndFacts, TransitionOK DEF StreamStates, OpeningStates
  <1>. HIDE DEF c
  <1>4. Framed(e, c, snd[e], app[e])
    BY <1>1, <1>3, OrderFacts DEF Framed, Unopened, OpenStates, ClosingStates, ClosedStates
  <1>5. RecvOrdered(e, c, rcv[e], app[e], snd[Peer(e)])
    BY <1>1, <1>3, OrderFacts DEF RecvOrdered, Unanchored, AnchoredStates, OpenStates
  <1>6. Later(snd[e], snd[e]) /\ Flushed(c, snd[e])
    BY <1>3, EndFacts, LaterSame DEF Flushed
  <1>. QED  BY <1>1, <1>2, <1>4, <1>5, <1>6, OrderFacts, QueueAcceptOK, QuietStep DEF SendOrdered

(* The sender takes a stamp. *)
LEMMA StampedOrder ==
  ASSUME IInv, IInv', OInv, NEW e \in End, NEW p,
         snd' = [snd EXCEPT ![e].clock = @ + 1],
         ctl' = [ctl EXCEPT ![e].timer = "future"],
         UNCHANGED <<rcv, inbox, app, env>>,
         net' = net \cup {p}, p.src = e, p.type \in {"SYN", "SYN_ACK"}, p.seq = StartSeq[e],
         ctl[e].st \in {"SYN_SENT", "SYN_RCVD"}
  PROVE  OInv' /\ ChannelStep
  <1> DEFINE s == [snd[e] EXCEPT !.clock = @ + 1]
             c == [ctl[e] EXCEPT !.timer = "future"]
  <1>1. Listed(s) /\ s.fin = snd[e].fin /\ SameOutstanding(snd[e], s) /\ SendOK(s)
    BY EndFacts, OrderFacts, SameLists, ClockOK
  <1>2. c.st = ctl[e].st
    BY EndFacts, TimerOK DEF Timers
  <1>3. snd' = [snd EXCEPT ![e] = s] /\ ctl' = [ctl EXCEPT ![e] = c]
    OBVIOUS
  <1>4. SameRead(rcv[e], rcv[e])
    BY EndFacts, SameReadOps
  <1>. HIDE DEF s, c
  <1>5. StartSeq[e] <= LastData(s)
    <2> DEFINE xmit == s.xmit
    <2>1. s.xmit = snd[e].xmit /\ StartSeq[e] <= xmit /\ (s.fin # NoSeq => s.fin = xmit /\ StartSeq[e] < s.fin)
      BY <1>1, OrderFacts DEF Framed, SameOutstanding
    <2>2. xmit \in Nat /\ StartSeq[e] \in Nat
      BY <1>1, PairAssumption DEF SendOK, SendHalf
    <2>3. LastData(s) = IF s.fin = NoSeq THEN xmit ELSE xmit - 1
      BY DEF LastData
    <2>. HIDE DEF xmit
    <2>. QED  BY <2>1, <2>2, <2>3
  <1>6. PacketOrdered(p, s)
    BY <1>5 DEF PacketOrdered
  <1>7. \A q \in net' : q \in net \/ (q.src = e /\ PacketOrdered(q, s))
    BY <1>6
  <1>8. rcv' = rcv /\ inbox' = inbox /\ app' = app /\ env'.deaths = env.deaths
    OBVIOUS
  <1>. QED  BY <1>1, <1>2, <1>3, <1>4, <1>7, <1>8, SameStep, ZenonT(30)

(* A syn tells the peer where the numbering of the initiator starts. *)
LEMMA SendSynOrder == ASSUME IInv, OInv, NEW e \in End, SendSyn(e) PROVE OInv' /\ ChannelStep
  <1> DEFINE p == [type |-> "SYN", src |-> e, stamp |-> snd[e].clock, seq |-> StartSeq[e],
                   maxSend |-> opt[e].maxSend, maxRecv |-> opt[e].maxRecv,
                   nonce |-> ~opt[e].replayOff]
  <1>1. net' = net \cup {p}
    BY Zenon DEF SendSyn
  <1>2. p.type = "SYN" /\ p.src = e /\ p.seq = StartSeq[e]
    OBVIOUS
  <1>3. ctl[e].st = "SYN_SENT"
    BY DEF SendSyn, Turn, NextEvent
  <1>. HIDE DEF p
  <1>4. /\ snd' = [snd EXCEPT ![e].clock = @ + 1] /\ ctl' = [ctl EXCEPT ![e].timer = "future"]
        /\ UNCHANGED <<rcv, inbox, app, env>>
    BY DEF SendSyn
  <1>. QED  BY <1>1, <1>2, <1>3, <1>4, SendSynOK, StampedOrder

(* A syn ack tells the peer where the numbering of the responder starts. *)
LEMMA SendSynAckOrder == ASSUME IInv, OInv, NEW e \in End, SendSynAck(e) PROVE OInv' /\ ChannelStep
  <1> DEFINE p == [type |-> "SYN_ACK", src |-> e, stamp |-> snd[e].clock, seq |-> StartSeq[e],
                   maxSend |-> opt[e].maxSend, maxRecv |-> opt[e].maxRecv,
                   nonce |-> ~opt[e].replayOff, ack |-> AckExtension(rcv[e])]
  <1>1. net' = net \cup {p}
    BY Zenon DEF SendSynAck
  <1>2. p.type = "SYN_ACK" /\ p.src = e /\ p.seq = StartSeq[e]
    OBVIOUS
  <1>3. ctl[e].st = "SYN_RCVD"
    BY DEF SendSynAck, Turn, NextEvent
  <1>. HIDE DEF p
  <1>4. /\ snd' = [snd EXCEPT ![e].clock = @ + 1] /\ ctl' = [ctl EXCEPT ![e].timer = "future"]
        /\ UNCHANGED <<rcv, inbox, app, env>>
    BY DEF SendSynAck
  <1>. QED  BY <1>1, <1>2, <1>3, <1>4, SendSynAckOK, StampedOrder

(* What create_ack_packet sends is data that was written, or the fin. *)
LEMMA AckPacketOrder ==
  ASSUME IInv, OInv, NEW e \in End, NEW out, PacketFill(snd[e], out),
         NEW s, LastData(s) = LastData(snd[e]), s.fin = snd[e].fin
  PROVE  AckPacket(e, out).src = e /\ PacketOrdered(AckPacket(e, out), s)
  <1> DEFINE p == AckPacket(e, out)
             o == snd[e]
             xmit == o.xmit
             fin == o.fin
  <1>1. /\ p.type = "ACK" /\ p.src = e /\ p.data = out \ {fin}
        /\ p.fin = IF fin \in out THEN fin ELSE NoFin
    BY DEF AckPacket
  <1>2. out \subseteq Outstanding(o) /\ Outstanding(o) \subseteq 1 .. xmit
    BY EndFacts DEF PacketFill, Sendable, SendOK, Outstanding
  <1>3. xmit \in Nat /\ fin \in Nat /\ StartSeq[e] \in Nat
    BY EndFacts, PairAssumption DEF SendOK, SendHalf
  <1>4. /\ \A q \in Outstanding(o) : StartSeq[e] < q
        /\ fin # NoSeq => fin = xmit /\ Outstanding(o) \subseteq {fin}
    BY OrderFacts DEF Framed
  <1>5. LastData(s) = IF fin = NoSeq THEN xmit ELSE xmit - 1
    BY DEF LastData
  <1>. HIDE DEF xmit, fin, p
  <1>6. ASSUME NEW q \in out \ {fin} PROVE q \in (StartSeq[e] + 1) .. LastData(s)
    <2>1. fin = NoSeq
      BY <1>2, <1>4
    <2>. QED  BY <1>2, <1>3, <1>4, <1>5, <2>1
  <1>7. p.fin \in {NoFin, s.fin}
    BY <1>1 DEF fin
  <1>8. p.data \subseteq (StartSeq[e] + 1) .. LastData(s)
    BY <1>1, <1>6
  <1>. QED  BY <1>1, <1>7, <1>8 DEF PacketOrdered, Numbered, p

(* SendData moves segments to the unacked list and numbers nothing. *)
LEMMA SendDataOrder == ASSUME IInv, OInv, NEW e \in End, SendData(e) PROVE OInv' /\ ChannelStep
  <1>1. PICK out \in Fills(e) :
          /\ net' = net \cup {AckPacket(e, out)}
          /\ snd' = [snd EXCEPT ![e] = [WriteDataToPacket(@, out) EXCEPT !.probed = TRUE]]
    BY DEF SendData
  <1> DEFINE w == WriteDataToPacket(snd[e], out)
             s == [w EXCEPT !.probed = TRUE]
             r == [rcv[e] EXCEPT !.ackNow = FALSE]
             c == [ctl[e] EXCEPT !.timer = "future"]
  <1>2. out \subseteq Sendable(snd[e]) /\ PacketFill(snd[e], out)
    BY DEF Fills
  <1>3. SendOK(w) /\ SameOutstanding(snd[e], w)
    BY <1>2, EndFacts, WriteDataToPacketOK
  <1>4. Listed(w) /\ w.fin = snd[e].fin
    BY <1>2, EndFacts, OrderFacts, WriteDataToPacketListed
  <1>. HIDE DEF w
  <1>5. Listed(s) /\ s.fin = snd[e].fin /\ SameOutstanding(snd[e], s)
    BY <1>3, <1>4, SameLists, ProbedOK DEF SameOutstanding
  <1>6. SameRead(rcv[e], r)
    BY EndFacts, SameReadOps
  <1>7. c.st = ctl[e].st
    BY EndFacts, TimerOK DEF Timers
  <1>8. /\ snd' = [snd EXCEPT ![e] = s] /\ rcv' = [rcv EXCEPT ![e] = r]
        /\ ctl' = [ctl EXCEPT ![e] = c] /\ UNCHANGED <<inbox, app, env>>
    BY <1>1 DEF SendData, w
  <1>. HIDE DEF s, r, c
  <1>9. LastData(s) = LastData(snd[e])
    BY <1>5 DEF LastData, SameOutstanding
  <1>10. AckPacket(e, out).src = e /\ PacketOrdered(AckPacket(e, out), s)
    BY <1>2, <1>5, <1>9, AckPacketOrder
  <1>. QED  BY <1>1, <1>5, <1>6, <1>7, <1>8, <1>10, SendDataOK, SameStep

(* So does SendAck, whose packet may carry data too. *)
LEMMA SendAckOrder == ASSUME IInv, OInv, NEW e \in End, SendAck(e) PROVE OInv' /\ ChannelStep
  <1>1. PICK out \in Fills(e) :
          /\ net' = net \cup {AckPacket(e, out)}
          /\ snd' = [snd EXCEPT ![e] = WriteDataToPacket(@, out)]
    BY DEF SendAck
  <1> DEFINE s == WriteDataToPacket(snd[e], out)
             r == [rcv[e] EXCEPT !.ackNow = FALSE]
  <1>2. out \subseteq Sendable(snd[e]) /\ PacketFill(snd[e], out)
    BY DEF Fills
  <1>3. SendOK(s) /\ SameOutstanding(snd[e], s) /\ Listed(s) /\ s.fin = snd[e].fin
    BY <1>2, EndFacts, OrderFacts, WriteDataToPacketOK, WriteDataToPacketListed
  <1>4. SameRead(rcv[e], r)
    BY EndFacts, SameReadOps
  <1>5. /\ snd' = [snd EXCEPT ![e] = s] /\ rcv' = [rcv EXCEPT ![e] = r]
        /\ UNCHANGED <<ctl, inbox, app, env>>
    BY <1>1 DEF SendAck
  <1>. HIDE DEF s, r
  <1>6. LastData(s) = LastData(snd[e])
    BY <1>3 DEF LastData, SameOutstanding
  <1>7. AckPacket(e, out).src = e /\ PacketOrdered(AckPacket(e, out), s)
    BY <1>2, <1>3, <1>6, AckPacketOrder
  <1>. QED  BY <1>1, <1>3, <1>4, <1>5, <1>7, SendAckOK, SameStep

(* A timeout marks segments to be sent again and numbers nothing. *)
LEMMA TimeoutOrder == ASSUME IInv, OInv, NEW e \in End, Timeout(e) PROVE OInv' /\ ChannelStep
  <1> DEFINE s == HandleTimeout(snd[e])
             c == [ctl[e] EXCEPT !.timer = "future"]
  <1>1. Listed(s) /\ s.fin = snd[e].fin /\ SameOutstanding(snd[e], s)
    BY EndFacts, OrderFacts, SameLists, HandleTimeoutOK
  <1>2. c.st = ctl[e].st
    BY EndFacts, TimerOK DEF Timers
  <1>3. /\ snd' = [snd EXCEPT ![e] = s] /\ ctl' = [ctl EXCEPT ![e] = c]
        /\ UNCHANGED <<rcv, inbox, app, net, env>>
    BY DEF Timeout
  <1>4. SameRead(rcv[e], rcv[e])
    BY EndFacts, SameReadOps
  <1>. HIDE DEF s, c
  <1>. QED  BY <1>1, <1>2, <1>3, <1>4, TimeoutOK, SameStep

(* A step that sets timers, events or packets only. *)
LEMMA IdleStep ==
  ASSUME IInv, IInv', OInv, NEW e \in End, NEW c,
         (ctl' = ctl /\ c = ctl[e]) \/ ctl' = [ctl EXCEPT ![e] = c], c.st = ctl[e].st,
         UNCHANGED <<snd, rcv, inbox, app>>, env'.deaths = env.deaths,
         \A p \in net' : p \in net \/ (p.src = e /\ p.type = "RST")
  PROVE  OInv' /\ ChannelStep
  <1>1. Listed(snd[e]) /\ SameOutstanding(snd[e], snd[e]) /\ SameRead(rcv[e], rcv[e])
    BY OrderFacts, EndFacts, SameReadOps DEF SameOutstanding
  <1>2. \A p \in net' : p \in net \/ (p.src = e /\ PacketOrdered(p, snd[e]))
    BY DEF PacketOrdered
  <1>. QED  BY <1>1, <1>2, SameStep

(* An aborted stream that sends its rst is over. *)
LEMMA SendRstOrder == ASSUME IInv, OInv, NEW e \in End, SendRst(e) PROVE OInv' /\ ChannelStep
  <1> DEFINE c == Transition(ctl[e], "ABORTED_RST")
  <1>1. c.st = "ABORTED_RST"
    BY EndFacts, TransitionOK DEF StreamStates, ClosedStates
  <1>2. ctl' = [ctl EXCEPT ![e] = c] /\ UNCHANGED <<snd, rcv, inbox, app, env>>
    BY DEF SendRst
  <1>3. net' = net \cup {RstPacket(e)} /\ RstPacket(e).src = e /\ RstPacket(e).type = "RST"
    BY DEF SendRst, RstPacket
  <1>. HIDE DEF c
  <1>4. Flushed(c, snd[e])
    BY <1>1 DEF Flushed
  <1>. QED  BY <1>1, <1>2, <1>3, <1>4, SendRstOK, OverStep DEF ClosedStates

(* Dispatching an event changes no state of the stream. *)
LEMMA DispatchEventOrder == ASSUME IInv, OInv, NEW e \in End, DispatchEvent(e) PROVE OInv' /\ ChannelStep
  <1> DEFINE c == [ctl[e] EXCEPT !.ev = @ \ {FirstEvent(@)}]
  <1>1. c.st = ctl[e].st
    BY EndFacts DEF Control
  <1>2. ctl' = [ctl EXCEPT ![e] = c] /\ UNCHANGED <<snd, rcv, inbox, app, net, env>>
    BY DEF DispatchEvent
  <1>. HIDE DEF c
  <1>. QED  BY <1>1, <1>2, DispatchEventOK, IdleStep

(* TIME_WAIT is entered after the fin was acknowledged, so CLOSED is too. *)
LEMMA TimeWaitOrder == ASSUME IInv, OInv, NEW e \in End, TimeWait(e) PROVE OInv' /\ ChannelStep
  <1> DEFINE c == Transition(ctl[e], "CLOSED")
  <1>1. c.st = "CLOSED"
    BY EndFacts, TransitionOK DEF StreamStates, ClosedStates
  <1>2. ctl' = [ctl EXCEPT ![e] = c] /\ UNCHANGED <<snd, rcv, inbox, app, net, env>>
    BY DEF TimeWait
  <1>3. ctl[e].st = "TIME_WAIT"
    BY DEF TimeWait, Turn, NextEvent
  <1>. HIDE DEF c
  <1>4. env.deaths = MaxDeaths => Flushed(c, snd[e])
    BY <1>3, OrderFacts DEF Flushed
  <1>. QED  BY <1>1, <1>2, <1>4, TimeWaitOK, OverStep DEF ClosedStates
-----------------------------------------------------------------------------
(* Packets from the peer.                                                  *)

(* A packet that arrives is in order, however old it is. *)
LEMMA ArrivesOrder ==
  ASSUME IInv, OInv, NEW e \in End, NEW p \in net, NEW type, Arrives(e, p, type)
  PROVE  /\ net' \subseteq net /\ env'.deaths = env.deaths
         /\ PacketOrdered(p, snd[Peer(e)]) /\ p.src = Peer(e) /\ p.type = type
  <1>1. env \in EnvType
    BY EndFacts DEF RestOK
  <1>2. env'.deaths = env.deaths
    BY <1>1 DEF Arrives, EnvType
  <1>. QED  BY <1>2 DEF Arrives, OInv

(* The first packet of the peer starts the sequence. *)
LEMMA AnchorOrder ==
  ASSUME NEW e \in End, NEW r, RecvOK(r), NEW a, Blank(r, a), NEW s, NEW stamp,
         StartSeq[Peer(e)] <= LastData(s)
  PROVE  Ordered(e, AnchorRecv(r, StartSeq[Peer(e)], stamp), a, s)
  <1> DEFINE first == StartSeq[Peer(e)]
             t == AnchorRecv(r, first, stamp)
  <1>1. first \in Nat
    BY PairAssumption, PeerFacts
  <1>2. t.top = first /\ t.max = first /\ t.fin = NoFin /\ t.readq = <<>>
    BY DEF AnchorRecv, RecvOK, RecvHalf, Blank
  <1>3. a.got = <<>> /\ ~a.eof
    BY DEF Blank
  <1>. HIDE DEF t
  <1>4. InSequence(first, t, a.got)
    BY <1>1, <1>2, <1>3 DEF InSequence
  <1>. QED  BY <1>2, <1>3, <1>4 DEF Ordered, t

(* The first syn starts the sequence; later ones only move the stamp. *)
LEMMA RecvSynOrder ==
  ASSUME IInv, OInv, NEW e \in End, NEW p \in net, RecvSyn(e, p) PROVE OInv' /\ ChannelStep
  <1>1. /\ net' \subseteq net /\ env'.deaths = env.deaths
        /\ PacketOrdered(p, snd[Peer(e)]) /\ p.src = Peer(e) /\ p.type = "SYN"
    BY ArrivesOrder DEF RecvSyn
  <1>2. snd' = snd /\ inbox' = inbox /\ app' = app
    BY DEF RecvSyn
  <1>3. CASE ctl[e].st = "IDLE"
    <2> DEFINE c == Transition(ctl[e], "ACCEPT")
               r == AnchorRecv(rcv[e], p.seq, p.stamp)
    <2>1. ctl' = [ctl EXCEPT ![e] = c] /\ rcv' = [rcv EXCEPT ![e] = r]
      BY <1>3, Zenon DEF RecvSyn
    <2>2. c.st = "ACCEPT"
      BY EndFacts, TransitionOK DEF StreamStates, OpeningStates
    <2>3. p.seq = StartSeq[Peer(e)] /\ StartSeq[Peer(e)] <= LastData(snd[Peer(e)])
      BY <1>1 DEF PacketOrdered
    <2>4. Blank(rcv[e], app[e])
      BY <1>3, OrderFacts DEF RecvOrdered, Unanchored
    <2>5. Ordered(e, r, app[e], snd[Peer(e)])
      BY <2>3, <2>4, EndFacts, AnchorOrder
    <2>. HIDE DEF c, r
    <2>6. RecvOrdered(e, c, r, app[e], snd[Peer(e)])
      BY <2>2, <2>5 DEF RecvOrdered, Unanchored
    <2>7. Framed(e, c, snd[e], app[e])
      BY <1>3, <2>2, OrderFacts DEF Framed, Unopened, OpenStates, ClosingStates, ClosedStates
    <2>8. Later(snd[e], snd[e]) /\ Flushed(c, snd[e])
      BY <2>2, EndFacts, LaterSame DEF Flushed
    <2>. QED  BY <1>1, <1>2, <2>1, <2>6, <2>7, <2>8, OrderFacts, RecvSynOK, QuietStep DEF SendOrdered
  <1>4. CASE ctl[e].st # "IDLE"
    <2> DEFINE c == IF ctl[e].st = "SYN_RCVD" THEN [ctl[e] EXCEPT !.timer = "now"] ELSE ctl[e]
               r == NoteStamp(rcv[e], p.stamp)
    <2>1. /\ rcv' = [rcv EXCEPT ![e] = r]
          /\ (ctl' = ctl /\ c = ctl[e]) \/ ctl' = [ctl EXCEPT ![e] = c]
      BY <1>4 DEF RecvSyn
    <2>2. c.st = ctl[e].st
      BY EndFacts, TimerOK DEF Timers
    <2>3. SameRead(rcv[e], r)
      BY EndFacts, SameReadOps
    <2>4. Listed(snd[e]) /\ SameOutstanding(snd[e], snd[e])
      BY OrderFacts DEF SameOutstanding
    <2>. HIDE DEF c, r
    <2>. QED  BY <1>1, <1>2, <2>1, <2>2, <2>3, <2>4, RecvSynOK, SameStep
  <1>. QED  BY <1>3, <1>4

(* The numbering after an ack: what is acknowledged goes, and the fin is   *)
(* numbered when the close has been waiting for that.                      *)
LEMMA SendAfterAckOrder ==
  ASSUME NEW e \in End, NEW a, NEW c \in Control, NEW s, SendOK(s), SendOrdered(e, c, s, a),
         NEW ack \in Ack, NEW newest
  PROVE  /\ SendOrdered(e, CtlAfterAck(c, s, ack, newest), SendAfterAck(c, s, ack, newest), a)
         /\ LastData(SendAfterAck(c, s, ack, newest)) = LastData(s)
         /\ s.fin # NoSeq => SendAfterAck(c, s, ack, newest).fin = s.fin
         /\ Flushed(c, s) => Flushed(CtlAfterAck(c, s, ack, newest), SendAfterAck(c, s, ack, newest))
  <1> DEFINE w == Windowed(s, ack, newest)
             h == HandleAcks(w, ack)
             d == CtlAfterAck(c, s, ack, newest)
             t == SendAfterAck(c, s, ack, newest)
             xmit == s.xmit
  <1>1. Listed(s) /\ Framed(e, c, s, a)
    BY DEF SendOrdered
  <1>2. /\ SendOK(w) /\ w.xmit = xmit /\ Outstanding(w) = Outstanding(s)
        /\ Listed(w) /\ w.fin = s.fin
    BY <1>1, UpdateWindowOK, UpdateWindowListed DEF Windowed
  <1>. HIDE DEF w
  <1>3. /\ SendOK(h) /\ h.xmit = xmit /\ Outstanding(h) \subseteq Outstanding(s)
        /\ Listed(h) /\ h.fin = s.fin
    BY <1>2, HandleAcksOK, HandleAcksListed
  <1>4. t = IF FinDue(c, s, ack, newest) THEN AddFinSegment(h) ELSE h
    BY DEF SendAfterAck, w
  <1>5. Drained(s, ack, newest) => Outstanding(h) = {}
    BY DEF Drained, w
  <1>6. AckedSegments(s, ack, newest) \subseteq Outstanding(s)
    BY <1>2 DEF AckedSegments, Acked, Outstanding, w
  <1>7. d.st = IF s.fin \in AckedSegments(s, ack, newest) THEN AckOnFin(c).st ELSE c.st
    BY CtlAfterAckState
  <1>8. xmit \in Nat /\ StartSeq[e] \in Nat /\ Outstanding(s) \subseteq 1 .. xmit
    BY PairAssumption DEF SendOK, SendHalf
  <1>. HIDE DEF h, d, t, xmit
  <1>9. s.fin \in AckedSegments(s, ack, newest) => s.fin # NoSeq
    BY <1>6, <1>8 DEF NoSeq
  <1>10. CASE FinDue(c, s, ack, newest)
    <2>1. /\ Outstanding(h) = {} /\ s.fin = NoSeq /\ c.st \in {"FIN_WAIT_1", "LAST_ACK", "CLOSING"}
      BY <1>5, <1>10 DEF FinDue
    <2>2. d.st = c.st
      BY <1>7, <1>9, <2>1
    <2>3. /\ t.xmit = xmit + 1 /\ t.fin = xmit + 1 /\ Outstanding(t) = {xmit + 1} /\ Listed(t)
      BY <1>3, <1>4, <1>10, <2>1, AddFinSegmentOK, AddFinSegmentListed
    <2>4. StartSeq[e] <= xmit /\ a.closed
      BY <1>1, <2>1 DEF Framed, OpenStates, ClosingStates, xmit
    <2>5. t.fin # NoSeq /\ StartSeq[e] < xmit + 1 /\ StartSeq[e] <= xmit + 1
      BY <1>8, <2>3, <2>4 DEF NoSeq
    <2>6. Framed(e, d, t, a)
      <3>1. \A q \in Outstanding(t) : StartSeq[e] < q
        BY <2>3, <2>5
      <3>2. d.st \notin Unopened /\ d.st \in ClosingStates
        BY <2>1, <2>2 DEF Unopened, ClosingStates
      <3>3. StartSeq[e] <= t.xmit
        BY <2>3, <2>5
      <3>4. /\ t.fin = t.xmit /\ StartSeq[e] < t.fin
            /\ Outstanding(t) \subseteq {t.fin} /\ a.closed
        BY <2>3, <2>4, <2>5
      <3>. QED  BY <3>1, <3>2, <3>3, <3>4 DEF Framed
    <2>7. LastData(t) = LastData(s)
      <3>1. LastData(t) = t.xmit - 1
        BY <2>5 DEF LastData
      <3>2. LastData(s) = xmit
        BY <2>1 DEF LastData, xmit
      <3>3. t.xmit - 1 = xmit
        BY <1>8, <2>3
      <3>. QED  BY <3>1, <3>2, <3>3
    <2>8. Flushed(d, t)
      BY <2>1, <2>2 DEF Flushed
    <2>. QED  BY <2>1, <2>3, <2>6, <2>7, <2>8 DEF SendOrdered, t, d
  <1>11. CASE ~FinDue(c, s, ack, newest)
    <2>1. t = h
      BY <1>4, <1>11
    <2>2. /\ Framed(e, c, t, a) /\ LastData(t) = LastData(s)
          /\ Flushed(c, s) => Flushed(c, t)
      BY <1>1, <1>3, <2>1, KeepsFrame DEF xmit
    <2>3. CASE d.st = c.st
      <3>1. Framed(e, d, t, a) /\ (Flushed(c, t) => Flushed(d, t))
        BY <2>2, <2>3 DEF Framed, Flushed
      <3>. QED  BY <1>3, <2>1, <2>2, <3>1 DEF SendOrdered, t, d
    <2>4. CASE d.st # c.st
      <3>1. /\ s.fin # NoSeq /\ c.st \in {"FIN_WAIT_1", "CLOSING", "LAST_ACK"}
            /\ d.st \in {"FIN_WAIT_2", "TIME_WAIT", "CLOSED"}
        BY <1>7, <1>9, <2>4, AckOnFinState
      <3>2. Outstanding(t) \subseteq {t.fin}
        BY <1>1, <1>3, <2>1, <3>1 DEF Framed
      <3>3. Framed(e, d, t, a)
        BY <2>2, <3>1 DEF Framed, Unopened, OpenStates, ClosingStates, ClosedStates
      <3>4. Flushed(d, t)
        BY <3>2 DEF Flushed
      <3>. QED  BY <1>3, <2>1, <2>2, <3>3, <3>4 DEF SendOrdered, t, d
    <2>. QED  BY <2>3, <2>4
  <1>. QED  BY <1>10, <1>11

(* The parts of a step that handles an ack extension. *)
LEMMA AckOrder ==
  ASSUME IInv, IInv', OInv, NEW e \in End, NEW c \in Control, NEW s, NEW r, NEW b,
         NEW ack \in Ack, NEW newest,
         SendOK(s), SendOrdered(e, c, s, app[e]),
         LastData(s) = LastData(snd[e]), s.fin = snd[e].fin,
         RecvOrdered(e, c, r, app[e], snd[Peer(e)]),
         Numbered(Peer(e), b.data, b.fin, snd[Peer(e)]),
         env.deaths = MaxDeaths => Flushed(c, s),
         ctl' = [ctl EXCEPT ![e] = CtlAfterAck(c, s, ack, newest)],
         snd' = [snd EXCEPT ![e] = SendAfterAck(c, s, ack, newest)],
         rcv' = [rcv EXCEPT ![e] = r],
         (inbox' = inbox /\ b = inbox[e]) \/ inbox' = [inbox EXCEPT ![e] = b],
         app' = app, net' \subseteq net, env'.deaths = env.deaths
  PROVE  OInv' /\ ChannelStep
  <1> DEFINE d == CtlAfterAck(c, s, ack, newest)
             t == SendAfterAck(c, s, ack, newest)
  <1>1. /\ SendOrdered(e, d, t, app[e]) /\ LastData(t) = LastData(s)
        /\ s.fin # NoSeq => t.fin = s.fin
        /\ Flushed(c, s) => Flushed(d, t)
    BY SendAfterAckOrder
  <1>2. \/ d.st = c.st
        \/ /\ c.st \in {"FIN_WAIT_1", "CLOSING", "LAST_ACK"}
           /\ d.st \in {"FIN_WAIT_2", "TIME_WAIT", "CLOSED"}
    BY CtlAfterAckState, AckOnFinState
  <1>3. ctl' = [ctl EXCEPT ![e] = d] /\ snd' = [snd EXCEPT ![e] = t]
    OBVIOUS
  <1>. HIDE DEF d, t
  <1>4. Later(snd[e], t) /\ WrittenBy(e, t) = WrittenBy(e, snd[e])
    BY <1>1, EndFacts, LaterSame DEF WrittenBy
  <1>5. RecvOrdered(e, d, r, app[e], snd[Peer(e)])
    BY <1>2 DEF RecvOrdered, Unanchored, AnchoredStates, OpenStates
  <1>6. \A p \in net' : p \in net
    OBVIOUS
  <1>. QED  BY <1>1, <1>3, <1>4, <1>5, <1>6, QuietStep

(* The first syn ack starts the initiator's sequence; its ack may be stale. *)
LEMMA RecvSynAckOrder ==
  ASSUME IInv, OInv, NEW e \in End, NEW p \in net, RecvSynAck(e, p) PROVE OInv' /\ ChannelStep
  <1> DEFINE opening == ctl[e].st = "SYN_SENT"
             c == IF opening THEN Transition(ctl[e], "ESTABLISHED") ELSE ctl[e]
             s == IF opening THEN AllocateNextSendSegment(snd[e]) ELSE snd[e]
             noted == NoteStamp(rcv[e], p.stamp)
             anchored == AnchorRecv(noted, p.seq, p.stamp)
             now == noted.ackNow \/ ctl[e].st = "ESTABLISHED"
             r == IF opening
                  THEN AllocateNextRecvSegment([anchored EXCEPT !.ackNow = TRUE])
                  ELSE [noted EXCEPT !.ackNow = now]
             newest == r.echo <= p.stamp
  <1>1. Arrives(e, p, "SYN_ACK")
    BY DEF RecvSynAck
  <1>2. /\ net' \subseteq net /\ env'.deaths = env.deaths
        /\ p.seq = StartSeq[Peer(e)] /\ StartSeq[Peer(e)] <= LastData(snd[Peer(e)])
    BY <1>1, ArrivesOrder DEF PacketOrdered
  <1>3. p.ack \in Ack /\ p.stamp \in Nat /\ p.seq \in Nat
    BY <1>1, ArrivesOK, AckingPacket DEF CarriesAck, SynAckPackets
  <1>4. /\ rcv' = [rcv EXCEPT ![e] = r]
        /\ ctl' = [ctl EXCEPT ![e] = CtlAfterAck(c, s, p.ack, newest)]
        /\ snd' = [snd EXCEPT ![e] = SendAfterAck(c, s, p.ack, newest)]
        /\ inbox' = inbox /\ app' = app
    BY Zenon DEF RecvSynAck
  <1>5. c \in Control /\ (opening => c.st = "ESTABLISHED") /\ (~opening => c.st = ctl[e].st)
    BY EndFacts, TransitionOK DEF StreamStates, OpenStates
  <1>6. SendOK(s) /\ Listed(s) /\ SameOutstanding(snd[e], s) /\ s.fin = snd[e].fin
    BY EndFacts, OrderFacts, AllocateNextSendSegmentOK, SameLists DEF SameOutstanding
  <1>7. RecvOK(noted) /\ SameRead(rcv[e], noted)
    BY <1>3, EndFacts, NoteStampOK, SameReadOps
  <1>8. RecvOrdered(e, c, r, app[e], snd[Peer(e)])
    <2>. HIDE DEF noted, now
    <2>1. CASE opening
      <3> DEFINE u == [anchored EXCEPT !.ackNow = TRUE]
      <3>1. Blank(noted, app[e])
        BY <1>7, <2>1, OrderFacts DEF RecvOrdered, Unanchored, Blank, SameRead
      <3>2. Ordered(e, anchored, app[e], snd[Peer(e)])
        BY <1>2, <1>7, <3>1, AnchorOrder
      <3>3. RecvOK(anchored)
        BY <1>3, <1>7, <3>1, AnchorRecvOK DEF Blank
      <3>4. RecvOK(u) /\ SameRead(anchored, u)
        BY <3>3, AckNowOK, SameReadOps
      <3>5. SameRead(u, AllocateNextRecvSegment(u))
        BY <3>4, SameReadOps
      <3>6. r = AllocateNextRecvSegment(u)
        BY <2>1
      <3>. HIDE DEF u, anchored, r, c
      <3>7. RecvOrdered(e, c, anchored, app[e], snd[Peer(e)])
        BY <1>5, <2>1, <3>2 DEF RecvOrdered, Unanchored
      <3>8. RecvOrdered(e, c, u, app[e], snd[Peer(e)])
        BY <3>4, <3>7, KeepsOrder
      <3>. QED  BY <3>5, <3>6, <3>8, KeepsOrder
    <2>2. CASE ~opening
      <3>1. r = [noted EXCEPT !.ackNow = now] /\ SameRead(noted, [noted EXCEPT !.ackNow = now])
        BY <1>7, <2>2, SameReadOps
      <3>. HIDE DEF r, c
      <3>2. RecvOrdered(e, c, noted, app[e], snd[Peer(e)])
        BY <1>5, <1>7, <2>2, OrderFacts, KeepsOrder
      <3>. QED  BY <3>1, <3>2, KeepsOrder
    <2>. QED  BY <2>1, <2>2
  <1>. HIDE DEF c, s, r, newest, noted, now, anchored
  <1>9. /\ Framed(e, ctl[e], s, app[e]) /\ LastData(s) = LastData(snd[e])
        /\ Flushed(ctl[e], snd[e]) => Flushed(ctl[e], s)
    BY <1>6, OrderFacts, KeepsFrame DEF SameOutstanding
  <1>10. Framed(e, c, s, app[e])
    <2>1. CASE opening
      BY <1>5, <1>9, <2>1 DEF Framed, Unopened, OpenStates, ClosingStates, ClosedStates
    <2>2. CASE ~opening
      BY <1>5, <1>9, <2>2 DEF Framed
    <2>. QED  BY <2>1, <2>2
  <1>11. env.deaths = MaxDeaths => Flushed(c, s)
    BY <1>5, <1>9, OrderFacts DEF Flushed
  <1>12. SendOrdered(e, c, s, app[e])
    BY <1>6, <1>10 DEF SendOrdered
  <1>. QED  BY <1>2, <1>3, <1>4, <1>5, <1>6, <1>8, <1>9, <1>11, <1>12, OrderFacts, RecvSynAckOK, AckOrder

(* An ack frees segments, and its data and fin wait in the inbox. *)
LEMMA RecvAckOrder ==
  ASSUME IInv, OInv, NEW e \in End, NEW p \in net, RecvAck(e, p) PROVE OInv' /\ ChannelStep
  <1> DEFINE c == IF ctl[e].st = "SYN_RCVD" THEN Transition(ctl[e], "ESTABLISHED") ELSE ctl[e]
             r == NoteStamp(rcv[e], p.stamp)
             newest == r.echo <= p.stamp
             size == IF p.data = {} THEN 0 ELSE p.size
             i == [data |-> p.data, fin |-> p.fin, size |-> size]
  <1>1. Arrives(e, p, "ACK")
    BY DEF RecvAck
  <1>2. /\ net' \subseteq net /\ env'.deaths = env.deaths
        /\ Numbered(Peer(e), p.data, p.fin, snd[Peer(e)])
    BY <1>1, ArrivesOrder DEF PacketOrdered
  <1>3. p.ack \in Ack /\ p.stamp \in Nat
    BY <1>1, ArrivesOK, AckingPacket DEF CarriesAck
  <1>4. /\ rcv' = [rcv EXCEPT ![e] = r]
        /\ ctl' = [ctl EXCEPT ![e] = CtlAfterAck(c, snd[e], p.ack, newest)]
        /\ snd' = [snd EXCEPT ![e] = SendAfterAck(c, snd[e], p.ack, newest)]
        /\ app' = app
    BY Zenon DEF RecvAck
  <1>5. inbox' = [inbox EXCEPT ![e] = i]
    BY DEF RecvAck
  <1>6. i.data = p.data /\ i.fin = p.fin
    OBVIOUS
  <1>7. /\ c \in Control
        /\ c.st = ctl[e].st \/ (ctl[e].st = "SYN_RCVD" /\ c.st = "ESTABLISHED")
    BY EndFacts, TransitionOK DEF StreamStates, OpenStates
  <1>8. SameRead(rcv[e], r)
    BY EndFacts, SameReadOps
  <1>. HIDE DEF c, r, newest, i
  <1>9. RecvOrdered(e, ctl[e], r, app[e], snd[Peer(e)])
    BY <1>8, OrderFacts, KeepsOrder
  <1>10. RecvOrdered(e, c, r, app[e], snd[Peer(e)])
    BY <1>7, <1>9 DEF RecvOrdered, Unanchored, AnchoredStates, OpenStates
  <1>11. Framed(e, c, snd[e], app[e])
    BY <1>7, OrderFacts DEF Framed, Unopened, OpenStates, ClosingStates, ClosedStates
  <1>12. env.deaths = MaxDeaths => Flushed(c, snd[e])
    BY <1>7, OrderFacts DEF Flushed
  <1>13. SendOrdered(e, c, snd[e], app[e]) /\ SendOK(snd[e])
    BY <1>11, OrderFacts, EndFacts DEF SendOrdered
  <1>. QED  BY <1>2, <1>3, <1>4, <1>5, <1>6, <1>7, <1>10, <1>12, <1>13, RecvAckOK, AckOrder

(* A packet without the nonce only moves the stamp. *)
LEMMA RecvAckWithoutNonceOrder ==
  ASSUME IInv, OInv, NEW e \in End, NEW p \in net, RecvAckWithoutNonce(e, p)
  PROVE  OInv' /\ ChannelStep
  <1> DEFINE r == NoteStamp(rcv[e], p.stamp)
  <1>1. net' \subseteq net /\ env'.deaths = env.deaths
    BY ArrivesOrder DEF RecvAckWithoutNonce
  <1>2. rcv' = [rcv EXCEPT ![e] = r] /\ UNCHANGED <<ctl, snd, inbox, app>>
    BY DEF RecvAckWithoutNonce
  <1>3. SameRead(rcv[e], r)
    BY EndFacts, SameReadOps
  <1>4. Listed(snd[e]) /\ SameOutstanding(snd[e], snd[e])
    BY OrderFacts DEF SameOutstanding
  <1>. HIDE DEF r
  <1>. QED  BY <1>1, <1>2, <1>3, <1>4, RecvAckWithoutNonceOK, SameStep

(* What has been parsed and received is what the peer has numbered, and    *)
(* the peer's fin is the last of it.                                       *)
LEMMA PeerNumbers ==
  ASSUME IInv, OInv, NEW e \in End
  PROVE  LET s == snd[Peer(e)]
             r == rcv[e]
         IN  /\ s.xmit \in Nat /\ s.fin \in Nat /\ StartSeq[Peer(e)] \in Nat
             /\ LastData(s) = IF s.fin = NoSeq THEN s.xmit ELSE s.xmit - 1
             /\ s.fin # NoSeq => /\ s.fin = s.xmit /\ StartSeq[Peer(e)] < s.fin
                                 /\ Outstanding(s) \subseteq {s.fin} /\ app[Peer(e)].closed
             /\ r.top \in Nat /\ r.max \in Nat /\ r.fin \in Nat /\ r.top <= r.max
             /\ r.filled \subseteq (r.top + 2) .. r.max
             /\ app[e].got \in Seq(Nat)
             /\ \A q \in (StartSeq[Peer(e)] + 1) .. s.xmit : q \in Outstanding(s) \/ Received(r, q)
  <1>1. Peer(e) \in End /\ Peer(Peer(e)) = e
    BY PeerFacts
  <1>2. /\ snd[Peer(e)].xmit \in Nat /\ snd[Peer(e)].fin \in Nat /\ StartSeq[Peer(e)] \in Nat
    BY <1>1, EndFacts, PairAssumption DEF SendOK, SendHalf
  <1>3. LastData(snd[Peer(e)]) =
          IF snd[Peer(e)].fin = NoSeq THEN snd[Peer(e)].xmit ELSE snd[Peer(e)].xmit - 1
    BY DEF LastData
  <1>4. snd[Peer(e)].fin # NoSeq =>
          /\ snd[Peer(e)].fin = snd[Peer(e)].xmit /\ StartSeq[Peer(e)] < snd[Peer(e)].fin
          /\ Outstanding(snd[Peer(e)]) \subseteq {snd[Peer(e)].fin} /\ app[Peer(e)].closed
    BY <1>1, OrderFacts DEF Framed
  <1>5. /\ rcv[e].top \in Nat /\ rcv[e].max \in Nat /\ rcv[e].fin \in Nat /\ rcv[e].top <= rcv[e].max
        /\ rcv[e].filled \subseteq (rcv[e].top + 2) .. rcv[e].max
    BY EndFacts DEF RecvOK, WindowOK, RecvHalf
  <1>6. app[e].got \in Seq(Nat)
    BY EndFacts DEF RestOK
  <1>7. \A q \in (StartSeq[Peer(e)] + 1) .. snd[Peer(e)].xmit :
           q \in Outstanding(snd[Peer(e)]) \/ Received(rcv[e], q)
    BY <1>1, EndFacts DEF SendSafe
  <1>. QED  BY <1>2, <1>3, <1>4, <1>5, <1>6, <1>7

(* A data segment that is handled keeps the order. *)
LEMMA TakesDataOrder ==
  ASSUME IInv, OInv, NEW e \in End, Ordered(e, rcv[e], app[e], snd[Peer(e)]),
         NEW q \in (StartSeq[Peer(e)] + 1) .. LastData(snd[Peer(e)])
  PROVE  Ordered(e, HandleData(rcv[e], q), app[e], snd[Peer(e)])
  <1> DEFINE first == StartSeq[Peer(e)]
             got == app[e].got
             last == LastData(snd[Peer(e)])
             r == rcv[e]
             fin == r.fin
             top == r.top
             max == r.max
             t == HandleData(r, q)
             tmax == t.max
             xmit == snd[Peer(e)].xmit
             sfin == snd[Peer(e)].fin
  <1>1. /\ xmit \in Nat /\ sfin \in Nat /\ first \in Nat
        /\ last = (IF sfin = NoSeq THEN xmit ELSE xmit - 1)
        /\ sfin # NoSeq => sfin = xmit
        /\ top \in Nat /\ max \in Nat /\ got \in Seq(Nat) /\ RecvOK(r)
    BY PeerNumbers, EndFacts
  <1>2. /\ InSequence(first, r, got) /\ first <= last
        /\ fin = NoFin => max <= last /\ ~app[e].eof
        /\ fin # NoFin => fin = sfin /\ top = fin
    BY DEF Ordered
  <1>. HIDE DEF xmit, sfin, last, top, max, fin, first
  <1>3. q \in Nat /\ first + 1 <= q /\ q <= last
    BY <1>1 DEF first, last
  <1>. HIDE DEF got
  <1>4. /\ InSequence(first, t, got) /\ t.fin = fin /\ tmax \in {max, q}
        /\ q <= top => SameRead(r, t)
    BY <1>1, <1>2, <1>3, HandleDataInSequence DEF fin, top, max
  <1>. HIDE DEF t, tmax
  <1>5. CASE fin = NoFin
    <2>1. tmax <= last
      BY <1>1, <1>2, <1>3, <1>4, <1>5
    <2>. QED  BY <1>2, <1>4, <1>5, <2>1 DEF Ordered, first, got, last, tmax, t
  <1>6. CASE fin # NoFin
    <2>1. q <= top
      BY <1>1, <1>2, <1>3, <1>6 DEF NoFin, NoSeq
    <2>2. SameRead(r, t)
      BY <1>4, <2>1
    <2>3. t.fin = fin /\ t.top = r.top /\ t.readq = r.readq
      BY <2>2 DEF SameRead, fin
    <2>. QED  BY <1>2, <1>4, <1>6, <2>3 DEF Ordered, first, got, last, t, r, fin
  <1>. QED  BY <1>5, <1>6

(* ParseData keeps the order, whatever the state, size or window. *)
LEMMA ParseDataOrder == ASSUME IInv, OInv, NEW e \in End, ParseData(e) PROVE OInv' /\ ChannelStep
  <1> DEFINE q == CHOOSE x \in inbox[e].data : \A y \in inbox[e].data : x <= y
             rest == inbox[e].data \ {q}
             takes == /\ inbox[e].size <= opt[e].maxRecv
                      /\ ctl[e].st \in {"ESTABLISHED", "CLOSE_WAIT", "FIN_WAIT_1", "FIN_WAIT_2"}
             r == IF takes THEN HandleData(rcv[e], q) ELSE rcv[e]
             c == IF r.top # rcv[e].top THEN Raise(ctl[e], {"dataReady"}) ELSE ctl[e]
             size == IF rest = {} THEN 0 ELSE inbox[e].size
             i == [inbox[e] EXCEPT !.data = rest, !.size = size]
  <1>1. /\ inbox[e].data # {}
        /\ rcv' = [rcv EXCEPT ![e] = r]
        /\ ctl' = [ctl EXCEPT ![e] = IF rcv'[e].top # rcv[e].top
                                     THEN Raise(ctl[e], {"dataReady"}) ELSE ctl[e]]
        /\ UNCHANGED <<snd, app, net, env>>
    BY Zenon DEF ParseData
  <1>2. inbox' = [inbox EXCEPT ![e] = i]
    BY DEF ParseData
  <1>3. inbox[e] \in Inbox /\ inbox[e].data \in SUBSET Nat
    BY EndFacts DEF RestOK, Inbox
  <1>4. \E x \in inbox[e].data : \A y \in inbox[e].data : x <= y
    BY <1>1, <1>3, LeastElement
  <1>5. q \in inbox[e].data
    BY <1>4
  <1>. HIDE DEF q
  <1>6. i.data = rest /\ i.fin = inbox[e].fin
    BY <1>3 DEF Inbox
  <1>. HIDE DEF i
  <1>7. Numbered(Peer(e), inbox[e].data, inbox[e].fin, snd[Peer(e)])
    BY OrderFacts
  <1>8. Numbered(Peer(e), i.data, i.fin, snd[Peer(e)])
    BY <1>6, <1>7 DEF Numbered
  <1>. HIDE DEF rest, size
  <1>9. RecvOrdered(e, ctl[e], r, app[e], snd[Peer(e)])
    <2>1. CASE takes
      <3>1. Ordered(e, rcv[e], app[e], snd[Peer(e)])
        BY <2>1, OrderFacts DEF RecvOrdered, AnchoredStates, OpenStates
      <3>2. Ordered(e, r, app[e], snd[Peer(e)])
        BY <1>5, <1>7, <2>1, <3>1, TakesDataOrder DEF Numbered
      <3>. QED  BY <2>1, <3>2 DEF RecvOrdered, Unanchored
    <2>2. CASE ~takes
      BY <2>2, OrderFacts
    <2>. QED  BY <2>1, <2>2
  <1>. HIDE DEF r, takes
  <1>10. ctl' = [ctl EXCEPT ![e] = c]
    <2>1. rcv'[e] = r
      BY <1>1, EndFacts
    <2>. QED  BY <1>1, <2>1
  <1>11. c.st = ctl[e].st
    BY EndFacts, RaiseOK
  <1>. HIDE DEF c
  <1>12. RecvOrdered(e, c, r, app[e], snd[Peer(e)])
    BY <1>9, <1>11 DEF RecvOrdered
  <1>13. /\ Framed(e, c, snd[e], app[e])
         /\ env.deaths = MaxDeaths => Flushed(c, snd[e])
    BY <1>11, OrderFacts DEF Framed, Flushed
  <1>14. Later(snd[e], snd[e])
    BY EndFacts, LaterSame
  <1>. QED  BY <1>1, <1>2, <1>8, <1>10, <1>12, <1>13, <1>14, OrderFacts, ParseDataOK, QuietStep
       DEF SendOrdered

(* When the fin of the peer arrives, either everything before it has       *)
(* arrived and nothing after it, or the fin itself has.                    *)
LEMMA FinOrder ==
  ASSUME IInv, OInv, NEW e \in End, Ordered(e, rcv[e], app[e], snd[Peer(e)]),
         NEW q, q = snd[Peer(e)].fin, q # NoSeq
  PROVE  /\ q \in Nat
         /\ rcv[e].fin = NoFin => rcv[e].max = rcv[e].top /\ q = rcv[e].top + 1
         /\ rcv[e].fin # NoFin => rcv[e].top = q /\ ~BufferFound(rcv[e], q)
  <1> DEFINE first == StartSeq[Peer(e)]
             r == rcv[e]
             fin == r.fin
             top == r.top
             max == r.max
             last == LastData(snd[Peer(e)])
             xmit == snd[Peer(e)].xmit
  <1>1. /\ xmit \in Nat /\ q \in Nat /\ first \in Nat /\ last = xmit - 1
        /\ q = xmit /\ first < q /\ Outstanding(snd[Peer(e)]) \subseteq {q}
        /\ top \in Nat /\ max \in Nat /\ top <= max
        /\ r.filled \subseteq (top + 2) .. max
        /\ \A x \in (first + 1) .. xmit : x \in Outstanding(snd[Peer(e)]) \/ Received(r, x)
    BY PeerNumbers
  <1>2. /\ first <= top
        /\ fin = NoFin => max <= last
        /\ fin # NoFin => top = q
    BY DEF Ordered, InSequence
  <1>3. RecvOK(r)
    BY EndFacts
  <1>4. Received(r, top + 1) => top + 1 <= top \/ top + 1 \in r.filled
    BY DEF Received
  <1>. HIDE DEF first, r, fin, max, last, xmit
  <1>5. ASSUME fin = NoFin PROVE max = top /\ q = top + 1
    <2>. HIDE DEF top
    <2>1. ~(top + 1 <= top) /\ top + 1 \notin r.filled
      BY <1>1
    <2>2. ~Received(r, top + 1)
      BY <1>4, <2>1
    <2>3. top + 1 \notin (first + 1) .. xmit \/ top + 1 = q
      BY <1>1, <2>2
    <2>4. ~(top + 1 < q)
      BY <1>1, <1>2, <2>3
    <2>. QED  BY <1>1, <1>2, <1>5, <2>4
  <1>6. ASSUME fin # NoFin PROVE ~BufferFound(r, q)
    <2> DEFINE ftop == FindRecvBuffer(r, q).top
    <2>1. ftop = top
      BY <1>1, <1>3, FindRecvBufferSame DEF SameRead
    <2>2. BufferFound(r, q) => q \in (ftop + 1) .. FindRecvBuffer(r, q).alloc
      BY <1>1, <1>3, FindRecvBufferOK
    <2>3. FindRecvBuffer(r, q).alloc \in Nat
      BY <1>1, <1>3, FindRecvBufferOK DEF RecvOK, RecvHalf
    <2>. HIDE DEF ftop, top
    <2>. QED  BY <1>1, <1>2, <1>6, <2>1, <2>2, <2>3
  <1>. QED  BY <1>1, <1>2, <1>5, <1>6 DEF r, fin, max, top

(* ParseFin ends the sequence, or finds that the fin was there already. *)
LEMMA ParseFinOrder == ASSUME IInv, OInv, NEW e \in End, ParseFin(e) PROVE OInv' /\ ChannelStep
  <1> DEFINE q == inbox[e].fin
  <1>1. inbox' = [inbox EXCEPT ![e] = EmptyInbox] /\ UNCHANGED <<snd, app, net, env>> /\ q # NoFin
    BY DEF ParseFin
  <1>2. Numbered(Peer(e), EmptyInbox.data, EmptyInbox.fin, snd[Peer(e)])
    BY DEF Numbered, EmptyInbox
  <1>3. Later(snd[e], snd[e])
    BY EndFacts, LaterSame
  <1>4. CASE ctl[e].st \in {"ESTABLISHED", "FIN_WAIT_1", "FIN_WAIT_2"}
    <2> DEFINE r == HandleFin(rcv[e], q)
               b == IF r.top # rcv[e].top THEN Raise(ctl[e], {"dataReady"}) ELSE ctl[e]
               c == IF BufferFound(rcv[e], q)
                    THEN Transition(b, StateAfterFin(ctl[e].st)) ELSE ctl[e]
               first == StartSeq[Peer(e)]
               got == app[e].got
    <2>1. /\ rcv' = [rcv EXCEPT ![e] = r]
          /\ ctl' = [ctl EXCEPT ![e] =
                       IF BufferFound(rcv[e], q)
                       THEN Transition(IF rcv'[e].top # rcv[e].top
                                       THEN Raise(ctl[e], {"dataReady"}) ELSE ctl[e],
                                       StateAfterFin(ctl[e].st))
                       ELSE ctl[e]]
      BY <1>4, Zenon DEF ParseFin
    <2>2. q = snd[Peer(e)].fin /\ q # NoSeq
      BY <1>1, OrderFacts DEF Numbered, NoFin, NoSeq
    <2>3. Ordered(e, rcv[e], app[e], snd[Peer(e)])
      BY <1>4, OrderFacts DEF RecvOrdered, AnchoredStates, OpenStates
    <2>4. /\ q \in Nat
          /\ rcv[e].fin = NoFin => rcv[e].max = rcv[e].top /\ q = rcv[e].top + 1
          /\ rcv[e].fin # NoFin => ~BufferFound(rcv[e], q)
      BY <2>2, <2>3, FinOrder
    <2>5. first \in Nat /\ got \in Seq(Nat) /\ RecvOK(rcv[e])
      BY PeerNumbers, EndFacts
    <2>6. Ordered(e, r, app[e], snd[Peer(e)])
      <3>. HIDE DEF q
      <3>1. CASE rcv[e].fin = NoFin /\ BufferFound(rcv[e], q)
        <4>1. /\ InSequence(first, rcv[e], got) /\ first <= LastData(snd[Peer(e)]) /\ ~app[e].eof
          BY <2>3, <3>1 DEF Ordered
        <4>2. InSequence(first, r, got) /\ r.fin = q /\ r.top = q /\ r.readq # <<>>
          BY <2>4, <2>5, <3>1, <4>1, HandleFinInSequence
        <4>. HIDE DEF r
        <4>. QED  BY <2>2, <4>1, <4>2 DEF Ordered, NoFin, NoSeq
      <3>2. CASE ~BufferFound(rcv[e], q)
        <4>1. r = FindRecvBuffer(rcv[e], q)
          BY <3>2 DEF HandleFin
        <4>2. SameRead(rcv[e], r)
          BY <2>4, <2>5, <4>1, FindRecvBufferSame
        <4>. HIDE DEF r
        <4>3. InSequence(first, r, got)
          BY <2>3, <4>2, SameReadInSequence DEF Ordered
        <4>4. r.top = rcv[e].top /\ r.max = rcv[e].max /\ r.fin = rcv[e].fin /\ r.readq = rcv[e].readq
          BY <4>2 DEF SameRead
        <4>. QED  BY <2>3, <4>3, <4>4 DEF Ordered
      <3>. QED  BY <2>4, <3>1, <3>2
    <2>7. StateAfterFin(ctl[e].st) \in {"CLOSE_WAIT", "CLOSING", "TIME_WAIT"}
      BY <1>4 DEF StateAfterFin
    <2>8. /\ StateAfterFin(ctl[e].st) = "CLOSE_WAIT" => ctl[e].st = "ESTABLISHED"
          /\ StateAfterFin(ctl[e].st) = "CLOSING" => ctl[e].st = "FIN_WAIT_1"
          /\ StateAfterFin(ctl[e].st) = "TIME_WAIT" => ctl[e].st = "FIN_WAIT_2"
      BY <1>4 DEF StateAfterFin
    <2>. HIDE DEF r
    <2>9. ctl' = [ctl EXCEPT ![e] = c]
      <3>1. rcv'[e] = r
        BY <2>1, EndFacts
      <3>. QED  BY <2>1, <3>1
    <2>10. b \in Control
      BY EndFacts, RaiseOK
    <2>. HIDE DEF b
    <2>11. \/ c.st = ctl[e].st
           \/ c.st = "CLOSE_WAIT" /\ ctl[e].st = "ESTABLISHED"
           \/ c.st = "CLOSING" /\ ctl[e].st = "FIN_WAIT_1"
           \/ c.st = "TIME_WAIT" /\ ctl[e].st = "FIN_WAIT_2"
      BY <2>7, <2>8, <2>10, EndFacts, TransitionOK DEF StreamStates, OpenStates
    <2>. HIDE DEF c
    <2>12. RecvOrdered(e, c, r, app[e], snd[Peer(e)])
      BY <1>4, <2>6, <2>11 DEF RecvOrdered, Unanchored
    <2>13. Framed(e, c, snd[e], app[e])
      <3>1. Framed(e, ctl[e], snd[e], app[e])
        BY OrderFacts
      <3>. QED  BY <1>4, <2>11, <3>1 DEF Framed, Unopened, OpenStates, ClosingStates, ClosedStates
    <2>14. env.deaths = MaxDeaths => Flushed(c, snd[e])
      BY <1>4, <2>11, OrderFacts DEF Flushed
    <2>. QED  BY <1>1, <1>2, <1>3, <2>1, <2>9, <2>12, <2>13, <2>14, OrderFacts, ParseFinOK, QuietStep
         DEF SendOrdered
  <1>5. CASE ctl[e].st \notin {"ESTABLISHED", "FIN_WAIT_1", "FIN_WAIT_2"}
    <2> DEFINE r == [rcv[e] EXCEPT !.ackNow = TRUE]
    <2>1. rcv' = [rcv EXCEPT ![e] = r] /\ ctl' = ctl
      BY <1>5 DEF ParseFin
    <2>2. SameRead(rcv[e], r)
      BY EndFacts, SameReadOps
    <2>. HIDE DEF r
    <2>3. RecvOrdered(e, ctl[e], r, app[e], snd[Peer(e)])
      BY <2>2, OrderFacts, KeepsOrder
    <2>. QED  BY <1>1, <1>2, <1>3, <2>1, <2>3, OrderFacts, ParseFinOK, QuietStep
  <1>. QED  BY <1>4, <1>5

(* An rst closes a stream only when nothing but its fin is outstanding. *)
LEMMA RecvRstOrder ==
  ASSUME IInv, OInv, NEW e \in End, NEW p \in net, RecvRst(e, p) PROVE OInv' /\ ChannelStep
  <1>1. net' \subseteq net /\ env'.deaths = env.deaths
    BY ArrivesOrder DEF RecvRst
  <1>2. UNCHANGED <<snd, rcv, inbox, app>>
    BY DEF RecvRst
  <1>3. CASE ctl[e].st \in ClosedStates
    <2>1. ctl' = [ctl EXCEPT ![e] = ctl[e]]
      BY <1>3 DEF RecvRst
    <2>. QED  BY <1>1, <1>2, <2>1, RecvRstOK, IdleStep
  <1>4. CASE /\ ctl[e].st \notin ClosedStates
             /\ \/ ctl[e].st = "TIME_WAIT"
                \/ ctl[e].st \in {"LAST_ACK", "CLOSING"} /\ FinIsNext(snd[e])
    <2> DEFINE c == Transition(ctl[e], "CLOSED")
    <2>1. ctl' = [ctl EXCEPT ![e] = c]
      BY <1>4 DEF RecvRst
    <2>2. c.st = "CLOSED"
      BY EndFacts, TransitionOK DEF StreamStates, ClosedStates
    <2>. HIDE DEF c
    <2>3. env.deaths = MaxDeaths => Flushed(c, snd[e])
      <3>1. CASE ctl[e].st = "TIME_WAIT"
        BY <3>1, OrderFacts DEF Flushed
      <3>2. CASE FinIsNext(snd[e])
        <4>1. Outstanding(snd[e]) = {} \/ snd[e].fin \in Outstanding(snd[e])
          BY <3>2 DEF FinIsNext, Outstanding
        <4>2. 0 \notin Outstanding(snd[e])
          BY EndFacts DEF SendOK
        <4>3. Outstanding(snd[e]) \subseteq {snd[e].fin}
          BY <4>1, <4>2, OrderFacts DEF Framed, NoSeq
        <4>. QED  BY <4>3 DEF Flushed
      <3>. QED  BY <1>4, <3>1, <3>2
    <2>. QED  BY <1>1, <1>2, <2>1, <2>2, <2>3, RecvRstOK, OverStep DEF ClosedStates
  <1>5. CASE /\ ctl[e].st \notin ClosedStates
             /\ ~ \/ ctl[e].st = "TIME_WAIT"
                  \/ ctl[e].st \in {"LAST_ACK", "CLOSING"} /\ FinIsNext(snd[e])
    <2> DEFINE c == Transition(ctl[e], "ABORTED_RST")
    <2>1. ctl' = [ctl EXCEPT ![e] = c]
      BY <1>5 DEF RecvRst
    <2>2. c.st = "ABORTED_RST"
      BY EndFacts, TransitionOK DEF StreamStates, ClosedStates
    <2>. HIDE DEF c
    <2>3. Flushed(c, snd[e])
      BY <2>2 DEF Flushed
    <2>. QED  BY <1>1, <1>2, <2>1, <2>2, <2>3, RecvRstOK, OverStep DEF ClosedStates
  <1>. QED  BY <1>3, <1>4, <1>5

(* An rst in answer to a packet for no stream carries nothing. *)
LEMMA AnswerRstOrder ==
  ASSUME IInv, OInv, NEW e \in End, NEW p \in net, AnswerRst(e, p) PROVE OInv' /\ ChannelStep
  <1>1. UNCHANGED <<ctl, snd, rcv, inbox, app, env>>
    BY DEF AnswerRst
  <1>2. RstPacket(e).src = e /\ RstPacket(e).type = "RST"
    BY DEF RstPacket
  <1>3. \A m \in net' : m \in net \/ (m.src = e /\ m.type = "RST")
    BY <1>2 DEF AnswerRst
  <1>. QED  BY <1>1, <1>3, AnswerRstOK, IdleStep
-----------------------------------------------------------------------------
(* The application.                                                        *)

(* The numbering starts with open or accept. *)
LEMMA StartOrder ==
  ASSUME IInv, OInv, NEW e \in End, ctl[e].st \in Unopened,
         NEW c, c.st \in {"SYN_SENT", "SYN_RCVD"},
         NEW s, Listed(s), s.xmit = StartSeq[e], s.fin = snd[e].fin, Outstanding(s) = {}
  PROVE  /\ SendOrdered(e, c, s, app[e]) /\ Later(snd[e], s)
         /\ WrittenBy(e, s) = WrittenBy(e, snd[e])
  <1> DEFINE start == StartSeq[e]
  <1>1. snd[e].xmit = 0 /\ snd[e].fin = NoSeq /\ ~app[e].closed
    BY OrderFacts DEF Framed, Unopened, ClosingStates, ClosedStates
  <1>2. start \in Nat
    BY PairAssumption
  <1>3. LastData(snd[e]) = 0 /\ LastData(s) = start
    BY <1>1 DEF LastData
  <1>4. WrittenBy(e, snd[e]) = LargerOf(0, 0 - start) /\ WrittenBy(e, s) = LargerOf(0, start - start)
    BY <1>3 DEF WrittenBy
  <1>5. s.xmit = start
    OBVIOUS
  <1>. HIDE DEF start
  <1>6. WrittenBy(e, s) = WrittenBy(e, snd[e])
    BY <1>2, <1>4 DEF LargerOf
  <1>7. Later(snd[e], s)
    BY <1>1, <1>2, <1>3 DEF Later
  <1>8. start <= s.xmit /\ s.fin = NoSeq
    BY <1>1, <1>2, <1>5
  <1>9. Framed(e, c, s, app[e])
    BY <1>1, <1>8 DEF Framed, Unopened, ClosingStates, start
  <1>. QED  BY <1>6, <1>7, <1>9 DEF SendOrdered

(* Open numbers nothing yet: the first segment follows StartSeq. *)
LEMMA OpenOrder == ASSUME IInv, OInv, NEW e \in End, Open(e) PROVE OInv' /\ ChannelStep
  <1> DEFINE c == Transition(ctl[e], "SYN_SENT")
             s == [snd[e] EXCEPT !.xmit = StartSeq[e]]
  <1>1. ctl[e].st = "IDLE"
    BY DEF Open
  <1>2. Outstanding(snd[e]) = {}
    BY <1>1, EndFacts DEF Fresh, Unopened
  <1>3. StartSeq[e] \in Nat
    BY PairAssumption
  <1>4. s.xmit = StartSeq[e] /\ Outstanding(s) = {} /\ Listed(s) /\ s.fin = snd[e].fin
    BY <1>2, <1>3, EndFacts, OrderFacts, StartOK, SameLists
  <1>5. c.st = "SYN_SENT"
    BY EndFacts, TransitionOK DEF StreamStates, OpeningStates
  <1>6. ctl' = [ctl EXCEPT ![e] = c] /\ snd' = [snd EXCEPT ![e] = s]
    BY DEF Open
  <1>7. UNCHANGED <<rcv, inbox, app, net, env>>
    BY DEF Open
  <1>. HIDE DEF c, s
  <1>8. /\ SendOrdered(e, c, s, app[e]) /\ Later(snd[e], s)
        /\ WrittenBy(e, s) = WrittenBy(e, snd[e])
    BY <1>1, <1>4, <1>5, StartOrder DEF Unopened
  <1>9. RecvOrdered(e, c, rcv[e], app[e], snd[Peer(e)])
    BY <1>1, <1>5, OrderFacts DEF RecvOrdered, Unanchored, AnchoredStates, OpenStates
  <1>10. Flushed(c, s)
    BY <1>5 DEF Flushed
  <1>. QED  BY <1>6, <1>7, <1>8, <1>9, <1>10, OrderFacts, OpenOK, QuietStep

(* Neither does accept, which finds the peer's sequence started by its syn. *)
LEMMA AcceptOrder == ASSUME IInv, OInv, NEW e \in End, Accept(e) PROVE OInv' /\ ChannelStep
  <1> DEFINE c == Transition(ctl[e], "SYN_RCVD")
             n == [snd[e] EXCEPT !.xmit = StartSeq[e]]
             s == AllocateNextSendSegment(n)
             r == AllocateNextRecvSegment(rcv[e])
  <1>1. ctl[e].st \in {"WAIT_ACCEPT", "ACCEPT"}
    BY DEF Accept
  <1>2. Outstanding(snd[e]) = {}
    BY <1>1, EndFacts DEF Fresh, Unopened
  <1>3. StartSeq[e] \in Nat
    BY PairAssumption
  <1>4. /\ SendOK(n) /\ n.xmit = StartSeq[e] /\ Outstanding(n) = {} /\ Listed(n)
        /\ n.fin = snd[e].fin
    BY <1>2, <1>3, EndFacts, OrderFacts, StartOK, SameLists
  <1>5. c.st = "SYN_RCVD"
    BY EndFacts, TransitionOK DEF StreamStates, OpeningStates
  <1>6. /\ ctl' = [ctl EXCEPT ![e] = c] /\ snd' = [snd EXCEPT ![e] = s]
        /\ rcv' = [rcv EXCEPT ![e] = r]
    BY DEF Accept
  <1>7. UNCHANGED <<inbox, app, net, env>>
    BY DEF Accept
  <1>8. SameRead(rcv[e], r)
    BY EndFacts, SameReadOps
  <1>. HIDE DEF c, n, r
  <1>9. s.xmit = StartSeq[e] /\ Outstanding(s) = {} /\ Listed(s) /\ s.fin = snd[e].fin
    BY <1>4, AllocateNextSendSegmentOK, SameLists DEF SameOutstanding
  <1>. HIDE DEF s
  <1>10. /\ SendOrdered(e, c, s, app[e]) /\ Later(snd[e], s)
         /\ WrittenBy(e, s) = WrittenBy(e, snd[e])
    BY <1>1, <1>5, <1>9, StartOrder DEF Unopened
  <1>11. RecvOrdered(e, ctl[e], r, app[e], snd[Peer(e)])
    BY <1>8, OrderFacts, KeepsOrder
  <1>12. RecvOrdered(e, c, r, app[e], snd[Peer(e)])
    BY <1>1, <1>5, <1>11 DEF RecvOrdered, Unanchored, AnchoredStates, OpenStates
  <1>13. Flushed(c, s)
    BY <1>5 DEF Flushed
  <1>. QED  BY <1>6, <1>7, <1>10, <1>12, <1>13, OrderFacts, AcceptOK, QuietStep

(* The steps of the channel, by what becomes of the two ends: e writes. *)
LEMMA ChannelWrite ==
  ASSUME NEW e \in End, ~app[e].closed, app' = app,
         Written(e)' \in Nat, Written(e)' > Written(e),
         \A f \in End \ {e} : Written(f)' = Written(f)
  PROVE  ChannelStep
  <1>1. Channel!Write(e)
    BY DEF Channel!Write
  <1>. QED  BY <1>1 DEF ChannelStep, Channel!Next

(* e reads a segment of its peer. *)
LEMMA ChannelDeliver ==
  ASSUME IInv, NEW e \in End, NEW a, app' = [app EXCEPT ![e] = a],
         Len(app[e].got) < Written(Peer(e)), Len(a.got) = Len(app[e].got) + 1,
         a.eof = app[e].eof, a.closed = app[e].closed,
         \A f \in End : Written(f)' = Written(f)
  PROVE  ChannelStep
  <1>1. /\ Peer(e) \in End /\ Peer(Peer(e)) = e
        /\ \A f \in End : Peer(f) \in End /\ (f # Peer(e) => Peer(f) # e)
    BY PeerFacts
  <1>2. app'[e] = a /\ \A f \in End : f # e => app'[f] = app[f]
    BY EndFacts DEF RestOK
  <1>3. /\ \A f \in End : app'[f].closed = app[f].closed /\ app'[f].eof = app[f].eof
        /\ \A f \in End : f # e => app'[f].got = app[f].got
    BY <1>2
  <1> DEFINE D == [f \in End |-> Len(app[Peer(f)].got)]
             W == [f \in End |-> Written(f)]
             C == [f \in End |-> app[f].closed]
             X == [f \in End |-> app[Peer(f)].eof]
  <1>4. /\ W' = W /\ C' = C /\ X' = X
    BY <1>1, <1>3
  <1>5. D' = [D EXCEPT ![Peer(e)] = @ + 1]
    <2>1. Len(app'[Peer(Peer(e))].got) = Len(app[Peer(Peer(e))].got) + 1
      BY <1>1, <1>2
    <2>2. \A f \in End : f # Peer(e) => Len(app'[Peer(f)].got) = Len(app[Peer(f)].got)
      BY <1>1, <1>3
    <2>. QED  BY <1>1, <2>1, <2>2
  <1>6. D[Peer(e)] < W[Peer(e)]
    BY <1>1
  <1>7. Channel!Deliver(Peer(e))
    BY <1>4, <1>5, <1>6 DEF Channel!Deliver
  <1>. QED  BY <1>1, <1>7 DEF ChannelStep, Channel!Next

(* e closes. *)
LEMMA ChannelClose ==
  ASSUME IInv, NEW e \in End, NEW a, app' = [app EXCEPT ![e] = a],
         a.got = app[e].got, a.eof = app[e].eof, a.closed = TRUE, ~app[e].closed,
         \A f \in End : Written(f)' = Written(f)
  PROVE  ChannelStep
  <1>1. app'[e] = a /\ \A f \in End : f # e => app'[f] = app[f]
    BY EndFacts DEF RestOK
  <1>2. /\ \A f \in End : app'[f].eof = app[f].eof /\ app'[f].got = app[f].got
        /\ \A f \in End : f # e => app'[f].closed = app[f].closed
        /\ app'[e].closed = TRUE
    BY <1>1
  <1> DEFINE D == [f \in End |-> Len(app[Peer(f)].got)]
             W == [f \in End |-> Written(f)]
             C == [f \in End |-> app[f].closed]
             X == [f \in End |-> app[Peer(f)].eof]
  <1>3. W' = W /\ D' = D /\ X' = X
    BY <1>2, PeerFacts
  <1>4. C' = [C EXCEPT ![e] = TRUE] /\ ~C[e]
    BY <1>2
  <1>5. Channel!Close(e)
    BY <1>3, <1>4 DEF Channel!Close
  <1>. QED  BY <1>5 DEF ChannelStep, Channel!Next

(* e is told of the end of what its peer wrote. *)
LEMMA ChannelEndOfFile ==
  ASSUME IInv, NEW e \in End, NEW a, app' = [app EXCEPT ![e] = a],
         a.got = app[e].got, a.closed = app[e].closed, a.eof = TRUE, ~app[e].eof,
         app[Peer(e)].closed, Len(app[e].got) = Written(Peer(e)),
         \A f \in End : Written(f)' = Written(f)
  PROVE  ChannelStep
  <1>1. /\ Peer(e) \in End /\ Peer(Peer(e)) = e
        /\ \A f \in End : Peer(f) \in End /\ (f # Peer(e) => Peer(f) # e)
    BY PeerFacts
  <1>2. app'[e] = a /\ \A f \in End : f # e => app'[f] = app[f]
    BY EndFacts DEF RestOK
  <1>3. /\ \A f \in End : app'[f].closed = app[f].closed /\ app'[f].got = app[f].got
        /\ \A f \in End : f # e => app'[f].eof = app[f].eof
        /\ app'[e].eof = TRUE
    BY <1>2
  <1> DEFINE D == [f \in End |-> Len(app[Peer(f)].got)]
             W == [f \in End |-> Written(f)]
             C == [f \in End |-> app[f].closed]
             X == [f \in End |-> app[Peer(f)].eof]
  <1>4. W' = W /\ D' = D /\ C' = C
    BY <1>1, <1>3
  <1>5. X' = [X EXCEPT ![Peer(e)] = TRUE] /\ ~X[Peer(e)]
    <2>1. app'[Peer(Peer(e))].eof = TRUE
      BY <1>1, <1>3
    <2>2. \A f \in End : f # Peer(e) => app'[Peer(f)].eof = app[Peer(f)].eof
      BY <1>1, <1>3
    <2>. QED  BY <1>1, <2>1, <2>2
  <1>6. C[Peer(e)] /\ D[Peer(e)] = W[Peer(e)]
    BY <1>1
  <1>7. Channel!EndOfFile(Peer(e))
    BY <1>4, <1>5, <1>6 DEF Channel!EndOfFile
  <1>. QED  BY <1>1, <1>7 DEF ChannelStep, Channel!Next

(* What e has written while its stream is used. *)
LEMMA WrittenFacts ==
  ASSUME NEW e \in End, NEW s, LastData(s) \in Int, StartSeq[e] <= LastData(s)
  PROVE  WrittenBy(e, s) = LastData(s) - StartSeq[e] /\ WrittenBy(e, s) \in Nat
  <1> DEFINE last == LastData(s)
             start == StartSeq[e]
  <1>1. start \in Nat /\ last \in Int /\ start <= last
    BY PairAssumption
  <1>2. WrittenBy(e, s) = LargerOf(0, last - start)
    BY DEF WrittenBy
  <1>. HIDE DEF last, start
  <1>3. WrittenBy(e, s) = last - start /\ last - start \in Nat
    BY <1>1, <1>2 DEF LargerOf
  <1>. QED  BY <1>3 DEF last, start

(* Write numbers new segments after all others, and only before close. *)
LEMMA WriteOrder ==
  ASSUME IInv, OInv, NEW e \in End, NEW n \in 1..MaxSegsPerWrite, Write(e, n)
  PROVE  OInv' /\ ChannelStep
  <1> DEFINE o == snd[e]
             s == WriteSegments(o, n)
             xmit == o.xmit
             start == StartSeq[e]
             timer == IF ctl[e].timer = "inf" THEN "future" ELSE ctl[e].timer
             c == [ctl[e] EXCEPT !.timer = timer]
  <1>1. n \in Nat /\ n >= 1 /\ start \in Nat /\ xmit \in Nat
    BY PairAssumption, EndFacts DEF SendOK, SendHalf
  <1>2. /\ SendOK(s) /\ s.xmit = xmit + n
        /\ Outstanding(s) = Outstanding(o) \cup ((xmit + 1) .. (xmit + n))
        /\ Listed(s) /\ s.fin = o.fin
    BY <1>1, EndFacts, OrderFacts, WriteSegmentsOK, WriteSegmentsListed
  <1>3. /\ ctl' = [ctl EXCEPT ![e] = c] /\ snd' = [snd EXCEPT ![e] = s]
        /\ ctl[e].st \in WritableStates /\ UNCHANGED <<rcv, inbox, app, net, env>>
    BY DEF Write
  <1>4. timer \in Timers
    BY EndFacts DEF Control, Timers
  <1>. HIDE DEF s, timer
  <1>5. c.st = ctl[e].st
    BY <1>4, EndFacts, TimerOK
  <1>. HIDE DEF c
  <1>6. Framed(e, ctl[e], o, app[e])
    BY OrderFacts
  <1>7. ~app[e].closed /\ o.fin = NoSeq /\ start <= xmit
    BY <1>3, <1>6 DEF Framed, WritableStates, OpenStates, ClosingStates, ClosedStates
  <1>8. LastData(o) = xmit /\ LastData(s) = s.xmit
    BY <1>2, <1>7 DEF LastData
  <1>. HIDE DEF xmit, start
  <1>9. /\ LastData(s) \in Int /\ LastData(o) \in Int /\ start <= LastData(s) /\ start <= LastData(o)
        /\ LastData(o) < LastData(s) /\ LastData(o) <= LastData(s)
    BY <1>1, <1>2, <1>7, <1>8
  <1>10. Later(o, s)
    BY <1>7, <1>9 DEF Later
  <1>11. Framed(e, c, s, app[e])
    <2>1. \A q \in Outstanding(s) : start < q
      <3>1. \A q \in Outstanding(o) : start < q
        BY <1>6 DEF Framed, start
      <3>2. \A q \in (xmit + 1) .. (xmit + n) : start < q
        BY <1>1, <1>7
      <3>. QED  BY <1>2, <3>1, <3>2
    <2>2. start <= s.xmit /\ s.fin = NoSeq
      BY <1>2, <1>7, <1>8, <1>9
    <2>. QED  BY <1>3, <1>5, <1>7, <2>1, <2>2
         DEF Framed, Unopened, ClosingStates, WritableStates, start
  <1>12. RecvOrdered(e, c, rcv[e], app[e], snd[Peer(e)])
    BY <1>5, OrderFacts DEF RecvOrdered
  <1>13. Flushed(c, s)
    BY <1>3, <1>5 DEF Flushed, WritableStates
  <1>14. OInv'
    BY <1>2, <1>3, <1>10, <1>11, <1>12, <1>13, OrderFacts, WriteOK, UpdateOrder DEF SendOrdered
  <1>15. snd'[e] = s /\ \A f \in End \ {e} : snd'[f] = snd[f]
    BY <1>3, EndFacts
  <1>16. \A f \in End : Written(f) = WrittenBy(f, snd[f]) /\ Written(f)' = WrittenBy(f, snd'[f])
    BY DEF Written, WrittenBy, LastData, LargerOf
  <1>17. /\ WrittenBy(e, s) = LastData(s) - start /\ WrittenBy(e, s) \in Nat
         /\ WrittenBy(e, o) = LastData(o) - start
    BY <1>9, WrittenFacts DEF start
  <1>18. WrittenBy(e, s) > WrittenBy(e, o)
    BY <1>1, <1>9, <1>17
  <1>19. Written(e)' \in Nat /\ Written(e)' > Written(e)
    BY <1>15, <1>16, <1>17, <1>18
  <1>20. \A f \in End \ {e} : Written(f)' = Written(f)
    BY <1>15, <1>16
  <1>. QED  BY <1>3, <1>7, <1>14, <1>19, <1>20, ChannelWrite

(* What is on recvRead, in numbers: all of it has been written, and the    *)
(* fin, when it is there, is the last of it.                               *)
LEMMA ReadFacts ==
  ASSUME IInv, OInv, NEW e \in End, rcv[e].readq # <<>>
  PROVE  LET r == rcv[e]
             n == Len(r.readq)
             g == Len(app[e].got)
             w == Written(Peer(e))
         IN  /\ Ordered(e, r, app[e], snd[Peer(e)]) /\ ctl[e].st \notin Unanchored
             /\ n \in Nat /\ n >= 1 /\ g \in Nat /\ w \in Nat
             /\ r.fin = NoFin => g + n <= w
             /\ r.fin # NoFin => /\ g + n = w + 1 /\ app[Peer(e)].closed
                                 /\ Head(r.readq) = r.fin <=> n = 1
             /\ Head(r.readq) # NoFin
  <1> DEFINE r == rcv[e]
             n == Len(r.readq)
             g == Len(app[e].got)
             w == Written(Peer(e))
             first == StartSeq[Peer(e)]
             last == LastData(snd[Peer(e)])
             top == r.top
             max == r.max
             fin == r.fin
             xmit == snd[Peer(e)].xmit
             head == Head(r.readq)
  <1>1. Ordered(e, r, app[e], snd[Peer(e)]) /\ ctl[e].st \notin Unanchored
    BY OrderFacts DEF RecvOrdered, Blank
  <1>2. r.readq \in Seq(Nat) /\ app[e].got \in Seq(Nat) /\ RecvOK(r) /\ first \in Nat
    BY EndFacts, PeerNumbers DEF RestOK, RecvOK, RecvHalf
  <1>3. n \in Nat /\ n >= 1 /\ g \in Nat
    BY <1>2, LenProperties, EmptySeq
  <1>4. InSequence(first, r, app[e].got) /\ first <= last
    BY <1>1 DEF Ordered
  <1>5. g + n = top - first
    BY <1>4 DEF InSequence
  <1>6. head = first + g + 1
    BY <1>2, <1>4, ReadInSequence
  <1>7. /\ top \in Nat /\ max \in Nat /\ top <= max /\ xmit \in Nat
        /\ snd[Peer(e)].fin \in Nat /\ fin \in Nat
        /\ snd[Peer(e)].fin # NoSeq => last = xmit - 1 /\ snd[Peer(e)].fin = xmit /\ app[Peer(e)].closed
    BY PeerNumbers
  <1>8. /\ fin = NoFin => max <= last
        /\ fin # NoFin => fin = snd[Peer(e)].fin /\ top = fin
    BY <1>1 DEF Ordered
  <1>9. last \in Int /\ Peer(e) \in End
    BY EndFacts, PeerFacts, LastDataType
  <1>10. w = last - first /\ w \in Nat
    <2>1. w = WrittenBy(Peer(e), snd[Peer(e)])
      BY DEF Written, WrittenBy
    <2>. HIDE DEF w
    <2>. QED  BY <1>4, <1>9, <2>1, WrittenFacts
  <1>11. fin # NoFin => last = xmit - 1 /\ top = xmit /\ fin = xmit /\ app[Peer(e)].closed
    BY <1>7, <1>8 DEF NoFin, NoSeq
  <1>. HIDE DEF r, n, g, w, first, last, top, max, fin, xmit, head
  <1>12. fin = NoFin => g + n <= w
    BY <1>2, <1>3, <1>5, <1>7, <1>8, <1>9, <1>10
  <1>13. fin # NoFin => g + n = w + 1
    BY <1>2, <1>3, <1>5, <1>7, <1>9, <1>10, <1>11
  <1>14. fin # NoFin => (head = fin <=> n = 1)
    BY <1>2, <1>3, <1>5, <1>6, <1>7, <1>11
  <1>15. head # NoFin
    BY <1>2, <1>3, <1>6 DEF NoFin
  <1>. QED  BY <1>1, <1>3, <1>10, <1>11, <1>12, <1>13, <1>14, <1>15 DEF r, n, g, w, fin, head

(* Read hands out the next segment; the fin, or the last data, stays behind. *)
LEMMA ReadOrder == ASSUME IInv, OInv, NEW e \in End, Read(e) PROVE OInv' /\ ChannelStep
  <1> DEFINE o == rcv[e]
             r == ReadSegment(o)
             h == Append(app[e].got, Head(o.readq))
             a == [app[e] EXCEPT !.got = h]
             n == Len(o.readq)
             g == Len(app[e].got)
             w == Written(Peer(e))
             m == Len(r.readq)
             s == snd[Peer(e)]
  <1>1. o.readq # <<>> /\ Head(o.readq) # o.fin
    BY DEF Read, CanRead, HasData
  <1>2. rcv' = [rcv EXCEPT ![e] = r] /\ app' = [app EXCEPT ![e] = a]
    BY DEF Read
  <1>3. UNCHANGED <<ctl, snd, inbox, net, env>>
    BY DEF Read
  <1>4. a.got = h /\ a.eof = app[e].eof /\ a.closed = app[e].closed
    BY EndFacts DEF RestOK
  <1>5. /\ Ordered(e, o, app[e], s) /\ ctl[e].st \notin Unanchored
        /\ n \in Nat /\ n >= 1 /\ g \in Nat /\ w \in Nat
        /\ o.fin = NoFin => g + n <= w
        /\ o.fin # NoFin => g + n = w + 1 /\ n # 1
    BY <1>1, ReadFacts
  <1>6. StartSeq[Peer(e)] \in Nat /\ app[e].got \in Seq(Nat) /\ RecvOK(o)
    BY PeerNumbers, EndFacts
  <1>7. InSequence(StartSeq[Peer(e)], o, app[e].got)
    BY <1>5 DEF Ordered
  <1>8. /\ InSequence(StartSeq[Peer(e)], r, h) /\ Len(h) = g + 1 /\ m = n - 1
        /\ r.top = o.top /\ r.max = o.max /\ r.fin = o.fin
    BY <1>1, <1>6, <1>7, ReadInSequence
  <1>9. r.readq = <<>> => m = 0
    OBVIOUS
  <1>. HIDE DEF r, h, a, n, g, w, m, s
  <1>10. g < w
    BY <1>5
  <1>11. o.fin # NoFin => m # 0 /\ r.readq # <<>>
    BY <1>5, <1>8, <1>9
  <1>12. o.fin # NoFin => ~app[e].eof
    BY <1>5 DEF Ordered, n, o
  <1>13. Ordered(e, r, a, s)
    BY <1>4, <1>5, <1>8, <1>11, <1>12 DEF Ordered
  <1>14. RecvOrdered(e, ctl[e], r, a, s)
    BY <1>5, <1>13 DEF RecvOrdered
  <1>15. SendOrdered(e, ctl[e], snd[e], a)
    BY <1>4, OrderFacts DEF SendOrdered, Framed
  <1>16. Later(snd[e], snd[e])
    BY EndFacts, LaterSame
  <1>17. OInv'
    BY <1>2, <1>3, <1>14, <1>15, <1>16, OrderFacts, ReadOK, UpdateOrder DEF s
  <1>18. \A f \in End : Written(f)' = Written(f)
    BY <1>3 DEF Written
  <1>. QED  BY <1>2, <1>4, <1>8, <1>10, <1>17, <1>18, ChannelDeliver DEF g, w

(* End of file is reported when the fin alone is left on recvRead. *)
LEMMA ReadEofOrder == ASSUME IInv, OInv, NEW e \in End, ReadEof(e) PROVE OInv' /\ ChannelStep
  <1> DEFINE a == [app[e] EXCEPT !.eof = TRUE]
             n == Len(rcv[e].readq)
             g == Len(app[e].got)
             w == Written(Peer(e))
             s == snd[Peer(e)]
  <1>1. rcv[e].readq # <<>> /\ Head(rcv[e].readq) = rcv[e].fin /\ ~app[e].eof
    BY DEF ReadEof, AtEof
  <1>2. app' = [app EXCEPT ![e] = a] /\ UNCHANGED <<ctl, snd, rcv, inbox, net, env>>
    BY DEF ReadEof
  <1>3. a.got = app[e].got /\ a.eof = TRUE /\ a.closed = app[e].closed
    BY EndFacts DEF RestOK
  <1>4. /\ Ordered(e, rcv[e], app[e], s) /\ ctl[e].st \notin Unanchored
        /\ n = 1 /\ g \in Nat /\ w \in Nat /\ g + n = w + 1 /\ app[Peer(e)].closed
        /\ rcv[e].fin # NoFin
    BY <1>1, ReadFacts
  <1>. HIDE DEF a, g, w, s
  <1>5. Ordered(e, rcv[e], a, s)
    BY <1>3, <1>4 DEF Ordered
  <1>6. RecvOrdered(e, ctl[e], rcv[e], a, s)
    BY <1>4, <1>5 DEF RecvOrdered
  <1>7. SendOrdered(e, ctl[e], snd[e], a)
    BY <1>3, OrderFacts DEF SendOrdered, Framed
  <1>8. Later(snd[e], snd[e])
    BY EndFacts, LaterSame
  <1>9. OInv'
    BY <1>2, <1>6, <1>7, <1>8, OrderFacts, ReadEofOK, UpdateOrder DEF s
  <1>10. \A f \in End : Written(f)' = Written(f)
    BY <1>2 DEF Written
  <1>11. g = w
    BY <1>4
  <1>. QED  BY <1>1, <1>2, <1>3, <1>4, <1>9, <1>10, <1>11, ChannelEndOfFile DEF g, w

(* Close numbers the fin at once if nothing is outstanding, or leaves it   *)
(* to the ack that empties the lists.                                      *)
LEMMA CloseOrder == ASSUME IInv, OInv, NEW e \in End, Close(e) PROVE OInv' /\ ChannelStep
  <1> DEFINE a == [app[e] EXCEPT !.closed = TRUE]
  <1>1. app' = [app EXCEPT ![e] = a] /\ UNCHANGED <<rcv, inbox, net>>
    BY DEF Close
  <1>2. a.got = app[e].got /\ a.eof = app[e].eof /\ a.closed = TRUE
    BY EndFacts DEF RestOK
  <1>. HIDE DEF a
  <1>3. RecvOrdered(e, ctl[e], rcv[e], a, snd[Peer(e)])
    BY <1>2, OrderFacts DEF RecvOrdered, Blank, Ordered
  <1>4. Framed(e, ctl[e], snd[e], app[e])
    BY OrderFacts
  <1>5. CASE ctl[e].st \in {"ESTABLISHED", "CLOSE_WAIT"}
    <2> DEFINE o == snd[e]
               s == FinOnClose(o)
               c == Transition(ctl[e], IF ctl[e].st = "ESTABLISHED" THEN "FIN_WAIT_1" ELSE "LAST_ACK")
               xmit == o.xmit
               start == StartSeq[e]
    <2>1. /\ snd' = [snd EXCEPT ![e] = s] /\ ctl' = [ctl EXCEPT ![e] = c] /\ env' = env
      BY <1>5 DEF Close, OpeningStates
    <2>2. c.st \in {"FIN_WAIT_1", "LAST_ACK"}
      BY EndFacts, TransitionOK DEF StreamStates, OpenStates
    <2>. HIDE DEF c
    <2>3. ~app[e].closed /\ o.fin = NoSeq /\ start <= xmit /\ (\A q \in Outstanding(o) : start < q)
      BY <1>4, <1>5 DEF Framed, OpenStates, ClosingStates, ClosedStates
    <2>4. SendOK(o) /\ Listed(o) /\ xmit \in Nat /\ start \in Nat
      BY EndFacts, OrderFacts, PairAssumption DEF SendOK, SendHalf
    <2>5. LastData(o) = xmit
      BY <2>3 DEF LastData
    <2>6. SendOrdered(e, c, s, a) /\ LastData(s) = LastData(o)
      <3>1. CASE Outstanding(o) # {}
        <4>1. s = o
          BY <3>1 DEF FinOnClose
        <4>. HIDE DEF s
        <4>2. Framed(e, c, o, a)
          BY <1>2, <2>2, <2>3 DEF Framed, Unopened, ClosingStates
        <4>. QED  BY <2>4, <4>1, <4>2 DEF SendOrdered
      <3>2. CASE Outstanding(o) = {}
        <4>1. s = AddFinSegment(o)
          BY <3>2 DEF FinOnClose
        <4>2. /\ s.xmit = xmit + 1 /\ s.fin = xmit + 1 /\ Outstanding(s) = {xmit + 1} /\ Listed(s)
          BY <2>4, <3>2, <4>1, AddFinSegmentOK, AddFinSegmentListed
        <4>. HIDE DEF s, xmit, start
        <4>3. start <= s.xmit /\ start < xmit + 1 /\ s.fin # NoSeq /\ s.xmit - 1 = xmit
          BY <2>3, <2>4, <4>2 DEF NoSeq
        <4>4. LastData(s) = s.xmit - 1
          BY <4>3 DEF LastData
        <4>5. c.st \notin Unopened /\ c.st \in ClosingStates
          BY <2>2 DEF Unopened, ClosingStates
        <4>6. /\ s.fin = s.xmit /\ start < s.fin
              /\ Outstanding(s) \subseteq {s.fin} /\ (\A q \in Outstanding(s) : start < q)
          BY <4>2, <4>3
        <4>7. Framed(e, c, s, a)
          BY <1>2, <4>3, <4>5, <4>6 DEF Framed, start
        <4>. QED  BY <2>5, <4>2, <4>3, <4>4, <4>7 DEF SendOrdered
      <3>. QED  BY <3>1, <3>2
    <2>. HIDE DEF s
    <2>7. Later(o, s)
      BY <2>3, <2>4, <2>6, LaterSame
    <2>8. RecvOrdered(e, c, rcv[e], a, snd[Peer(e)])
      BY <1>3, <1>5, <2>2 DEF RecvOrdered, Unanchored, AnchoredStates, OpenStates
    <2>9. Flushed(c, s)
      BY <2>2 DEF Flushed
    <2>10. OInv'
      BY <1>1, <2>1, <2>6, <2>7, <2>8, <2>9, OrderFacts, CloseOK, UpdateOrder
    <2>11. snd'[e] = s /\ \A f \in End \ {e} : snd'[f] = snd[f]
      BY <2>1, EndFacts
    <2>12. \A f \in End : LastData(snd'[f]) = LastData(snd[f])
      BY <2>6, <2>11
    <2>13. \A f \in End : /\ Written(f) = LargerOf(0, LastData(snd[f]) - StartSeq[f])
                          /\ Written(f)' = LargerOf(0, LastData(snd'[f]) - StartSeq[f])
      BY DEF Written, LargerOf, LastData
    <2>14. \A f \in End : Written(f)' = Written(f)
      BY <2>12, <2>13
    <2>. QED  BY <1>1, <1>2, <2>3, <2>10, <2>14, ChannelClose
  <1>6. CASE ctl[e].st \notin {"ESTABLISHED", "CLOSE_WAIT"}
    <2> DEFINE c == Transition(ctl[e], "ABORTED")
    <2>1. /\ ctl[e].st \in OpeningStates
          /\ ctl' = [ctl EXCEPT ![e] = c] /\ snd' = snd
          /\ env' = [env EXCEPT !.aborts = @ - 1]
      BY <1>6 DEF Close
    <2>2. c.st = "ABORTED"
      BY EndFacts, TransitionOK DEF StreamStates, ClosedStates
    <2>. HIDE DEF c
    <2>3. ~app[e].closed
      BY <1>4, <2>1 DEF Framed, OpeningStates, ClosingStates, ClosedStates
    <2>4. Framed(e, c, snd[e], a)
      BY <1>2, <1>4, <2>2, <2>3 DEF Framed, Unopened, OpenStates, ClosingStates, ClosedStates
    <2>5. RecvOrdered(e, c, rcv[e], a, snd[Peer(e)])
      BY <1>3, <2>2 DEF RecvOrdered, Unanchored, AnchoredStates, OpenStates
    <2>6. Flushed(c, snd[e]) /\ Later(snd[e], snd[e])
      BY <2>2, EndFacts, LaterSame DEF Flushed
    <2>7. env'.deaths = env.deaths
      BY <2>1, EndFacts DEF RestOK, EnvType
    <2>8. OInv'
      BY <1>1, <2>1, <2>4, <2>5, <2>6, <2>7, OrderFacts, CloseOK, UpdateOrder DEF SendOrdered
    <2>9. \A f \in End : Written(f)' = Written(f)
      BY <2>1 DEF Written
    <2>. QED  BY <1>1, <1>2, <2>3, <2>8, <2>9, ChannelClose
  <1>. QED  BY <1>5, <1>6
-----------------------------------------------------------------------------
(* The integrator and the network.                                         *)

(* A stream that is released is over. *)
LEMMA ReleaseOrder == ASSUME IInv, OInv, NEW e \in End, Release(e) PROVE OInv' /\ ChannelStep
  <1> DEFINE c == [st |-> "RELEASED", timer |-> "inf", ev |-> {}]
  <1>1. c.st = "RELEASED"
    OBVIOUS
  <1>2. ctl' = [ctl EXCEPT ![e] = c] /\ UNCHANGED <<snd, rcv, inbox, app>>
    BY DEF Release
  <1>3. env'.deaths = env.deaths
    BY EndFacts DEF Release, RestOK, EnvType
  <1>4. \A p \in net' : p \in net \/ (p.src = e /\ p.type = "RST")
    BY DEF Release, RstPacket
  <1>. HIDE DEF c
  <1>5. Flushed(c, snd[e])
    BY <1>1 DEF Flushed
  <1>. QED  BY <1>1, <1>2, <1>3, <1>4, <1>5, ReleaseOK, OverStep

(* A connection that dies may close a stream whose data has not arrived;   *)
(* nothing is said of what has been acknowledged from then on.             *)
LEMMA ConnectionDiedOrder ==
  ASSUME IInv, OInv, NEW e \in End, ConnectionDied(e) PROVE OInv' /\ ChannelStep
  <1> DEFINE c == Transition(ctl[e], IF ctl[e].st = "LAST_ACK" THEN "CLOSED" ELSE "ABORTED_RST")
             left == env.deaths
  <1>1. c.st \in {"CLOSED", "ABORTED_RST"}
    BY EndFacts, TransitionOK DEF StreamStates, ClosedStates
  <1>2. ctl' = [ctl EXCEPT ![e] = c] /\ UNCHANGED <<snd, rcv, inbox, app, net>>
    BY DEF ConnectionDied
  <1>3. env'.deaths = left - 1
    BY EndFacts DEF ConnectionDied, RestOK, EnvType
  <1>4. left \in 0 .. MaxDeaths /\ MaxDeaths \in Nat
    BY EndFacts, PairAssumption DEF RestOK, EnvType
  <1>. HIDE DEF c, left
  <1>5. env'.deaths # MaxDeaths
    BY <1>3, <1>4
  <1>. QED  BY <1>1, <1>2, <1>5, ConnectionDiedOK, OverStep DEF ClosedStates

(* Allocating ahead touches neither the numbering nor what is received. *)
LEMMA SegmentAvailableOrder ==
  ASSUME IInv, OInv, NEW e \in End, SegmentAvailable(e) PROVE OInv' /\ ChannelStep
  <1>1. UNCHANGED <<inbox, app, net>> /\ env'.deaths = env.deaths
    BY EndFacts DEF SegmentAvailable, RestOK, EnvType
  <1>2. /\ Listed(snd[e]) /\ SameOutstanding(snd[e], snd[e]) /\ SameRead(rcv[e], rcv[e])
    BY EndFacts, OrderFacts, SameReadOps DEF SameOutstanding
  <1>3. CASE /\ rcv' = [rcv EXCEPT ![e] = AllocateNextRecvSegment(rcv[e])]
             /\ UNCHANGED <<ctl, snd>>
    <2>1. SameRead(rcv[e], AllocateNextRecvSegment(rcv[e]))
      BY EndFacts, SameReadOps
    <2>. QED  BY <1>1, <1>2, <1>3, <2>1, SegmentAvailableOK, SameStep
  <1>4. CASE /\ snd' = [snd EXCEPT ![e] = AllocateNextSendSegment(snd[e])]
             /\ ctl' = [ctl EXCEPT ![e] = IF snd[e].segWait THEN Raise(ctl[e], {"dataWrite"}) ELSE ctl[e]]
             /\ rcv' = rcv
    <2> DEFINE s == AllocateNextSendSegment(snd[e])
               c == IF snd[e].segWait THEN Raise(ctl[e], {"dataWrite"}) ELSE ctl[e]
    <2>1. Listed(s) /\ s.fin = snd[e].fin /\ SameOutstanding(snd[e], s)
      BY EndFacts, OrderFacts, AllocateNextSendSegmentOK, SameLists DEF SameOutstanding
    <2>2. c.st = ctl[e].st
      BY EndFacts, RaiseOK
    <2>3. snd' = [snd EXCEPT ![e] = s] /\ ctl' = [ctl EXCEPT ![e] = c] /\ rcv' = rcv
      BY <1>4
    <2>. HIDE DEF s, c
    <2>. QED  BY <1>1, <1>2, <2>1, <2>2, <2>3, SegmentAvailableOK, SameStep
  <1>. QED  BY <1>3, <1>4 DEF SegmentAvailable

(* A timer that passes early changes no state of the stream. *)
LEMMA EarlyTimerOrder == ASSUME IInv, OInv, NEW e \in End, EarlyTimer(e) PROVE OInv' /\ ChannelStep
  <1> DEFINE c == [ctl[e] EXCEPT !.timer = "now"]
  <1>1. c.st = ctl[e].st
    BY EndFacts, TimerOK DEF Timers
  <1>2. ctl' = [ctl EXCEPT ![e] = c] /\ UNCHANGED <<snd, rcv, inbox, app, net>>
    BY DEF EarlyTimer
  <1>3. env'.deaths = env.deaths
    BY EndFacts DEF EarlyTimer, RestOK, EnvType
  <1>. HIDE DEF c
  <1>. QED  BY <1>1, <1>2, <1>3, EarlyTimerOK, IdleStep

(* A packet that is lost leaves fewer to be in order. *)
LEMMA LoseOrder == ASSUME IInv, OInv, NEW p \in net, Lose(p) PROVE OInv' /\ ChannelStep
  <1>1. Initiator \in End
    BY DEF End
  <1>2. env'.deaths = env.deaths
    BY DEF Lose, IInv, RestOK, EnvType
  <1>3. UNCHANGED <<ctl, snd, rcv, inbox, app>> /\ net' \subseteq net
    BY DEF Lose
  <1>. QED  BY <1>1, <1>2, <1>3, LoseOK, IdleStep

(* Time passes for both ends. *)
LEMMA SilenceOrder == ASSUME IInv, OInv, Silence PROVE OInv' /\ ChannelStep
  <1>1. UNCHANGED <<snd, rcv, inbox, app, net, env>>
    BY DEF Silence
  <1>2. \A e \in End : ctl'[e].st = ctl[e].st
    BY EndFacts, TimerOK DEF Silence, Timers
  <1>3. ASSUME NEW e \in End
        PROVE  /\ SendOrdered(e, ctl'[e], snd[e], app[e])
               /\ RecvOrdered(e, ctl'[e], rcv[e], app[e], snd[Peer(e)])
               /\ Flushed(ctl[e], snd[e]) => Flushed(ctl'[e], snd[e])
    BY <1>2, OrderFacts DEF SendOrdered, Framed, RecvOrdered, Flushed
  <1>4. \A e \in End : Numbered(Peer(e), inbox[e].data, inbox[e].fin, snd[Peer(e)])
    BY OrderFacts
  <1>5. OInv'
    <2>1. ASSUME NEW e \in End
          PROVE  /\ SendOrdered(e, ctl'[e], snd'[e], app'[e])
                 /\ RecvOrdered(e, ctl'[e], rcv'[e], app'[e], snd'[Peer(e)])
                 /\ Numbered(Peer(e), inbox'[e].data, inbox'[e].fin, snd'[Peer(e)])
      BY <1>1, <1>3, <1>4
    <2>2. \A p \in net' : PacketOrdered(p, snd'[p.src])
      BY <1>1 DEF OInv
    <2>3. env'.deaths = MaxDeaths => \A e \in End : Flushed(ctl'[e], snd'[e])
      BY <1>1, <1>3 DEF OInv
    <2>. QED  BY <2>1, <2>2, <2>3 DEF OInv, SendOrdered, Framed, Listed, RecvOrdered, Ordered,
         Blank, Numbered, PacketOrdered, Flushed
  <1>6. \A f \in End : Written(f)' = Written(f)
    BY <1>1 DEF Written
  <1>. QED  BY <1>1, <1>5, <1>6, NoChannelStep
-----------------------------------------------------------------------------
(* Before anything is written nothing is numbered or received. *)
LEMMA InitOrder == ASSUME Init PROVE OInv /\ Channel!Init
  <1>1. /\ ctl = [e \in End |-> [st |-> "IDLE", timer |-> "inf", ev |-> {}]]
        /\ snd = [e \in End |-> InitSend] /\ rcv = [e \in End |-> InitRecv]
        /\ inbox = [e \in End |-> EmptyInbox] /\ net = {}
        /\ app = [e \in End |-> [got |-> <<>>, eof |-> FALSE, closed |-> FALSE]]
    BY DEF Init
  <1>2. /\ InitSend.xmit = 0 /\ InitSend.fin = NoSeq /\ InitSend.unacked = {} /\ InitSend.sendq = {}
        /\ InitSend.flight = 0
    BY DEF InitSend
  <1>3. Listed(InitSend) /\ Outstanding(InitSend) = {} /\ LastData(InitSend) = 0
    BY <1>2, FS_EmptySet DEF Listed, Outstanding, LastData
  <1>4. ASSUME NEW e \in End
        PROVE  /\ SendOrdered(e, ctl[e], snd[e], app[e])
               /\ RecvOrdered(e, ctl[e], rcv[e], app[e], snd[Peer(e)])
               /\ Numbered(Peer(e), inbox[e].data, inbox[e].fin, snd[Peer(e)])
               /\ Flushed(ctl[e], snd[e])
    <2>1. ctl[e].st = "IDLE" /\ snd[e] = InitSend /\ app[e].got = <<>> /\ ~app[e].eof /\ ~app[e].closed
      BY <1>1
    <2>2. SendOrdered(e, ctl[e], snd[e], app[e])
      BY <1>2, <1>3, <2>1 DEF SendOrdered, Framed, OpenStates, ClosingStates
    <2>3. Blank(rcv[e], app[e])
      BY <1>1, <2>1 DEF Blank, InitRecv
    <2>4. RecvOrdered(e, ctl[e], rcv[e], app[e], snd[Peer(e)])
      BY <2>1, <2>3 DEF RecvOrdered, AnchoredStates, OpenStates
    <2>5. Numbered(Peer(e), inbox[e].data, inbox[e].fin, snd[Peer(e)])
      BY <1>1 DEF Numbered, EmptyInbox
    <2>6. Flushed(ctl[e], snd[e])
      BY <2>1 DEF Flushed
    <2>. QED  BY <2>2, <2>4, <2>5, <2>6
  <1>5. OInv
    BY <1>1, <1>4 DEF OInv
  <1>6. ASSUME NEW e \in End PROVE Written(e) = 0
    <2> DEFINE start == StartSeq[e]
    <2>1. start \in Nat
      BY PairAssumption
    <2>2. Written(e) = LargerOf(0, 0 - start)
      BY <1>1, <1>3 DEF Written
    <2>. HIDE DEF start
    <2>. QED  BY <2>1, <2>2 DEF LargerOf
  <1>7. ASSUME NEW e \in End
        PROVE  Len(app[Peer(e)].got) = 0 /\ app[e].closed = FALSE /\ app[Peer(e)].eof = FALSE
    BY <1>1, PeerFacts, EmptySeq
  <1>8. Channel!Init
    BY <1>6, <1>7 DEF Channel!Init
  <1>. QED  BY <1>5, <1>8

(* Every step keeps the order and is a step of the reliable channel, or    *)
(* one that the applications do not see.                                   *)
LEMMA NextOrder == ASSUME IInv, OInv, [Next]_vars PROVE OInv' /\ ChannelStep
  <1>1. ASSUME NEW e \in End, Loop(e) PROVE OInv' /\ ChannelStep
    BY <1>1, PollOrder, QueueAcceptOrder, SendSynOrder, SendSynAckOrder, SendDataOrder, SendAckOrder,
       TimeoutOrder, SendRstOrder, DispatchEventOrder, TimeWaitOrder, Zenon DEF Loop
  <1>2. ASSUME NEW e \in End, Parse(e) PROVE OInv' /\ ChannelStep
    BY <1>2, ParseDataOrder, ParseFinOrder, Zenon DEF Parse
  <1>3. ASSUME NEW e \in End, Application(e) PROVE OInv' /\ ChannelStep
    BY <1>3, OpenOrder, AcceptOrder, ReadOrder, ReadEofOrder, CloseOrder, WriteOrder, Zenon
       DEF Application
  <1>4. ASSUME NEW e \in End, Integrator(e) PROVE OInv' /\ ChannelStep
    BY <1>4, ReleaseOrder, ConnectionDiedOrder, SegmentAvailableOrder, EarlyTimerOrder, Zenon
       DEF Integrator
  <1>5. ASSUME NEW e \in End, NEW p \in net, Receive(e, p) PROVE OInv' /\ ChannelStep
    BY <1>5, RecvSynOrder, RecvSynAckOrder, RecvAckOrder, RecvAckWithoutNonceOrder, RecvRstOrder,
       AnswerRstOrder, Zenon DEF Receive
  <1>6. CASE UNCHANGED vars
    <2>1. Initiator \in End /\ UNCHANGED <<ctl, snd, rcv, inbox, app, net, env>> /\ IInv'
      BY <1>6, NextOK DEF vars, End
    <2>. QED  BY <2>1, IdleStep
  <1>. QED  BY <1>1, <1>2, <1>3, <1>4, <1>5, <1>6, LoseOrder, SilenceOrder, Zenon DEF Next
-----------------------------------------------------------------------------
(* The inductive invariant holds in every reachable state. *)
THEOREM OrderInvariance == Spec => [](IInv /\ OInv)
  <1>1. Init => IInv /\ OInv
    BY InitOK, InitOrder
  <1>2. IInv /\ OInv /\ [Next]_vars => (IInv /\ OInv)'
    BY NextOK, NextOrder
  <1>. QED  BY <1>1, <1>2, PTL DEF Spec

(* The send and the unacked list of nabto_stream_send_segment partition    *)
(* what is outstanding, in order, and flightSize is the length of the      *)
(* unacked list, through every put back, timeout and acknowledgement.      *)
THEOREM ListsConsistent == Spec => []SendListsOK
  <1>1. ASSUME IInv, OInv, NEW e \in End
        PROVE  LET s == snd[e]
               IN  /\ s.resend \subseteq s.unacked
                   /\ \A u \in s.unacked, q \in s.sendq : u < q
                   /\ \A q \in Outstanding(s) : q > StartSeq[e] /\ q <= s.xmit
                   /\ s.flight = Cardinality(s.unacked)
    <2> DEFINE s == snd[e]
               xmit == s.xmit
               start == StartSeq[e]
    <2>1. SendOK(s) /\ Listed(s) /\ Framed(e, ctl[e], s, app[e])
      BY <1>1, EndFacts, OrderFacts
    <2>2. s.resend \subseteq s.unacked /\ Outstanding(s) \subseteq 1 .. xmit /\ xmit \in Nat /\ start \in Nat
      BY <2>1, PairAssumption DEF SendOK, SendHalf
    <2>3. \A q \in Outstanding(s) : start < q
      BY <2>1 DEF Framed
    <2>. HIDE DEF xmit, start
    <2>4. \A q \in Outstanding(s) : q > start /\ q <= xmit
      BY <2>2, <2>3
    <2>. QED  BY <2>1, <2>2, <2>4 DEF Listed, xmit, start
  <1>2. IInv /\ OInv => SendListsOK
    BY <1>1 DEF SendListsOK
  <1>. QED  BY <1>2, OrderInvariance, PTL

(* The fin waits for all data to be acknowledged: it is alone on the lists *)
(* and numbered last, and whoever has it has everything before it.         *)
THEOREM FinComesLast == Spec => []FinIsLast
  <1>1. ASSUME IInv, OInv, NEW e \in End
        PROVE  /\ snd[e].fin # NoSeq => snd[e].fin = snd[e].xmit /\ Outstanding(snd[e]) \subseteq {snd[e].fin}
               /\ rcv[e].fin # NoFin => rcv[e].fin = snd[Peer(e)].fin /\ rcv[e].top = rcv[e].fin
    BY <1>1, OrderFacts DEF Framed, RecvOrdered, Ordered, Blank
  <1>2. IInv /\ OInv => FinIsLast
    BY <1>1 DEF FinIsLast
  <1>. QED  BY <1>2, OrderInvariance, PTL

(* nabto_stream_read_buffer hands out what the peer's write_buffer took,   *)
(* each segment once and in order, and EOF after the last of it and only   *)
(* when the peer has closed.                                               *)
THEOREM DeliveredInOrder == Spec => []InOrderDelivery
  <1>1. ASSUME IInv, OInv, NEW e \in End
        PROVE  /\ Len(app[e].got) <= Written(Peer(e))
               /\ \A i \in 1..Len(app[e].got) : app[e].got[i] = StartSeq[Peer(e)] + i
               /\ app[e].eof => app[Peer(e)].closed /\ Len(app[e].got) = Written(Peer(e))
    <2> DEFINE g == Len(app[e].got)
               n == Len(rcv[e].readq)
               w == Written(Peer(e))
    <2>1. CASE Blank(rcv[e], app[e])
      <3> DEFINE d == LastData(snd[Peer(e)]) - StartSeq[Peer(e)]
      <3>1. g = 0 /\ ~app[e].eof
        BY <2>1, EmptySeq DEF Blank
      <3>2. d \in Int
        BY <1>1, PeerFacts, EndFacts, LastDataType, PairAssumption
      <3>3. w = LargerOf(0, d)
        BY DEF Written
      <3>. HIDE DEF d, w, g
      <3>4. g <= w
        BY <3>1, <3>2, <3>3 DEF LargerOf
      <3>5. \A i \in 1 .. g : FALSE
        BY <3>1
      <3>. QED  BY <3>1, <3>4, <3>5 DEF g, w
    <2>2. CASE Ordered(e, rcv[e], app[e], snd[Peer(e)])
      <3>1. \A i \in 1..Len(app[e].got) : app[e].got[i] = StartSeq[Peer(e)] + i
        BY <2>2 DEF Ordered, InSequence
      <3>2. CASE rcv[e].readq # <<>>
        <4>1. /\ n \in Nat /\ n >= 1 /\ g \in Nat /\ w \in Nat
              /\ rcv[e].fin = NoFin => g + n <= w
              /\ rcv[e].fin # NoFin => g + n = w + 1 /\ app[Peer(e)].closed
          BY <1>1, <3>2, ReadFacts
        <4>2. app[e].eof => n = 1 /\ rcv[e].fin # NoFin
          BY <2>2 DEF Ordered
        <4>. HIDE DEF g, n, w
        <4>3. g <= w /\ (app[e].eof => g = w)
          BY <4>1, <4>2
        <4>. QED  BY <3>1, <4>1, <4>2, <4>3 DEF g, w
      <3>3. CASE rcv[e].readq = <<>>
        <4> DEFINE first == StartSeq[Peer(e)]
                   last == LastData(snd[Peer(e)])
                   top == rcv[e].top
                   max == rcv[e].max
        <4>1. rcv[e].fin = NoFin /\ ~app[e].eof /\ max <= last /\ first <= last
          BY <2>2, <3>3 DEF Ordered
        <4>2. g + n = top - first /\ n = 0
          BY <2>2, <3>3, EmptySeq DEF Ordered, InSequence
        <4>3. top \in Nat /\ max \in Nat /\ top <= max /\ first \in Nat /\ app[e].got \in Seq(Nat)
          BY <1>1, PeerNumbers
        <4>4. g \in Nat
          BY <4>3, LenProperties
        <4>5. last \in Int /\ Peer(e) \in End
          BY <1>1, EndFacts, PeerFacts, LastDataType
        <4>6. w = last - first
          <5>1. w = WrittenBy(Peer(e), snd[Peer(e)])
            BY DEF Written, WrittenBy
          <5>. HIDE DEF w
          <5>. QED  BY <4>1, <4>5, <5>1, WrittenFacts
        <4>. HIDE DEF first, last, top, max, g, n, w
        <4>7. g <= w
          BY <4>1, <4>2, <4>3, <4>4, <4>5, <4>6
        <4>. QED  BY <3>1, <4>1, <4>7 DEF g, w
      <3>. QED  BY <3>2, <3>3
    <2>. QED  BY <1>1, <2>1, <2>2, OrderFacts DEF RecvOrdered
  <1>2. IInv /\ OInv => InOrderDelivery
    BY <1>1 DEF InOrderDelivery
  <1>. QED  BY <1>2, OrderInvariance, PTL

(* A stream in ST_CLOSED has had all of its data received, unless some     *)
(* stream was told that its connection died: nabto_stream_connection_died  *)
(* turns LAST_ACK into CLOSED whatever is outstanding.                     *)
THEOREM ClosedMeansReceived == Spec => [](env.deaths = MaxDeaths => CleanClose)
  <1>1. ASSUME IInv, OInv, env.deaths = MaxDeaths, NEW e \in End, ctl[e].st = "CLOSED",
               NEW q \in (StartSeq[e] + 1) .. LastData(snd[e])
        PROVE  Received(rcv[Peer(e)], q)
    <2> DEFINE xmit == snd[e].xmit
               fin == snd[e].fin
               start == StartSeq[e]
    <2>1. Outstanding(snd[e]) \subseteq {fin}
      BY <1>1, OrderFacts DEF Flushed
    <2>2. xmit \in Nat /\ fin \in Nat /\ start \in Nat
      BY <1>1, EndFacts, PairAssumption DEF SendOK, SendHalf
    <2>3. fin # NoSeq => fin = xmit
      BY <1>1, OrderFacts DEF Framed
    <2>4. LastData(snd[e]) = IF fin = NoSeq THEN xmit ELSE xmit - 1
      BY DEF LastData
    <2>5. \A x \in (start + 1) .. xmit : x \in Outstanding(snd[e]) \/ Received(rcv[Peer(e)], x)
      BY <1>1, EndFacts DEF SendSafe
    <2>. HIDE DEF xmit, fin
    <2>6. q \in (start + 1) .. xmit /\ q # fin
      BY <2>2, <2>3, <2>4 DEF NoSeq
    <2>. QED  BY <2>1, <2>5, <2>6
  <1>2. IInv /\ OInv => (env.deaths = MaxDeaths => CleanClose)
    BY <1>1 DEF CleanClose
  <1>. QED  BY <1>2, OrderInvariance, PTL

(* Two streams, their event loops and a network that loses, duplicates and *)
(* reorders implement a pair of reliable first in, first out channels.     *)
THEOREM ImplementsReliableStream == Spec => ReliableChannel
  <1>1. Init => Channel!Init
    BY InitOrder
  <1>2. IInv /\ OInv /\ [Next]_vars => [Channel!Next]_(Channel!channel)
    BY NextOrder DEF ChannelStep
  <1>. QED  BY <1>1, <1>2, OrderInvariance, PTL DEF Spec, ReliableChannel, Channel!Spec
-----------------------------------------------------------------------------
(* The retransmission timer.                                               *)

(* Nothing has been sent, and the first segment can be. *)
Untried(s) == s.unacked = {} /\ s.cwnd > 0 /\ ~s.probed

(* A fin that an ET_ACK packet has taken along beyond the congestion       *)
(* window, or that is to be sent.                                          *)
FinOnly(s) ==
  s.fin # NoSeq /\ Outstanding(s) = {s.fin} /\ (s.unacked # {} => s.cwnd < 0)

(* What is outstanding while the timer is not set. *)
Tended(c, s) ==
  /\ c.st \in OpeningStates \cup {"IDLE"} => Untried(s)
  /\ c.st \in TransmitStates /\ c.timer = "inf" =>
       Outstanding(s) = {} \/ Untried(s) \/ FinOnly(s)

TendedInv == \A e \in End : Tended(ctl[e], snd[e])

(* The lists, the tokens and the probe flag are the same. *)
Alike(s, t) ==
  /\ t.unacked = s.unacked /\ t.sendq = s.sendq /\ t.fin = s.fin
  /\ t.cwnd = s.cwnd /\ t.probed = s.probed

(* c moves on to d and does not stop a timer that is needed. *)
KeepsWatch(c, d) ==
  /\ d.st \in OpeningStates \cup {"IDLE"} => c.st \in OpeningStates \cup {"IDLE"}
  /\ d.st \in TransmitStates =>
       \/ c.st \in OpeningStates \cup {"IDLE"}
       \/ c.st \in TransmitStates /\ (d.timer = "inf" => c.timer = "inf")

(* What is outstanding stays tended while the lists and the tokens are the *)
(* same.                                                                   *)
LEMMA StaysTended ==
  ASSUME NEW c, NEW s, NEW d, NEW t, Tended(c, s), KeepsWatch(c, d), Alike(s, t)
  PROVE  Tended(d, t)
  <1>1. Untried(s) => Untried(t)
    BY DEF Untried, Alike
  <1>2. Outstanding(t) = Outstanding(s)
    BY DEF Outstanding, Alike
  <1>3. FinOnly(s) => FinOnly(t)
    BY <1>2 DEF FinOnly, Alike
  <1>. QED  BY <1>1, <1>2, <1>3 DEF Tended, KeepsWatch

(* A step of one end that leaves the other alone. *)
LEMMA TendedStep ==
  ASSUME IInv, TendedInv, NEW e \in End, NEW c, NEW s,
         (ctl' = ctl /\ c = ctl[e]) \/ ctl' = [ctl EXCEPT ![e] = c],
         (snd' = snd /\ s = snd[e]) \/ snd' = [snd EXCEPT ![e] = s],
         Tended(c, s)
  PROVE  TendedInv'
  <1>1. ctl'[e] = c /\ \A f \in End \ {e} : ctl'[f] = ctl[f]
    BY EndFacts
  <1>2. snd'[e] = s /\ \A f \in End \ {e} : snd'[f] = snd[f]
    BY EndFacts
  <1>3. ASSUME NEW f \in End PROVE Tended(ctl'[f], snd'[f])
    BY <1>1, <1>2 DEF TendedInv
  <1>. QED  BY <1>3 DEF TendedInv, Tended, Untried, FinOnly, Outstanding

(* A step that moves control on and leaves the lists alone. *)
LEMMA WatchStep ==
  ASSUME IInv, TendedInv, NEW e \in End, NEW c, NEW s,
         (ctl' = ctl /\ c = ctl[e]) \/ ctl' = [ctl EXCEPT ![e] = c],
         (snd' = snd /\ s = snd[e]) \/ snd' = [snd EXCEPT ![e] = s],
         KeepsWatch(ctl[e], c), Alike(snd[e], s)
  PROVE  TendedInv'
  <1>1. Tended(c, s)
    BY StaysTended DEF TendedInv
  <1>. QED  BY <1>1, TendedStep

(* The moves of the control record that do not stop the timer.             *)
LEMMA WatchFacts ==
  /\ \A c : KeepsWatch(c, c)
  /\ \A s : Alike(s, s)
  BY DEF KeepsWatch, Alike, OpeningStates, TransmitStates

(* Raising events moves nothing. *)
LEMMA RaiseWatch ==
  ASSUME NEW c \in Control, NEW events
  PROVE  Raise(c, events).timer = c.timer /\ KeepsWatch(c, Raise(c, events))
  <1>1. Raise(c, events).timer = c.timer /\ Raise(c, events).st = c.st
    BY DEF Raise, Control
  <1>. QED  BY <1>1 DEF KeepsWatch

(* state_transition touches the timer only when the stream opens. *)
LEMMA TransitionWatch ==
  ASSUME NEW c \in Control, NEW new \in StreamStates
  PROVE  /\ Transition(c, new).st = new
         /\ new \notin {"SYN_SENT", "SYN_RCVD", "ACCEPT", "WAIT_ACCEPT", "ESTABLISHED"} =>
              Transition(c, new).timer = c.timer
  <1>1. CASE c.st = new
    BY <1>1 DEF Transition
  <1>2. CASE c.st # new /\ new \notin {"SYN_SENT", "SYN_RCVD", "ACCEPT", "WAIT_ACCEPT", "ESTABLISHED"}
    <2> DEFINE d == [c EXCEPT !.st = new, !.timer = c.timer]
    <2>1. d \in Control /\ d.timer = c.timer
      BY DEF Control
    <2>2. Transition(c, new) = Raise(d, Raised(c.st, new))
      BY <1>2 DEF Transition
    <2>. HIDE DEF d
    <2>. QED  BY <2>1, <2>2, RaiseWatch, TransitionOK
  <1>. QED  BY <1>1, <1>2, TransitionOK

(* The next send segment is on no list. *)
LEMMA AllocateAlike ==
  ASSUME NEW s, SendOK(s)
  PROVE  Alike(s, AllocateNextSendSegment(s))
  BY DEF Alike, AllocateNextSendSegment, SendOK, SendHalf

(* What an ack does to lists and tokens. *)
LEMMA WindowedLists ==
  ASSUME NEW s, SendOK(s), NEW ack \in Ack, NEW newest
  PROVE  LET w == Windowed(s, ack, newest)
         IN  /\ SendOK(w) /\ Outstanding(w) = Outstanding(s)
             /\ w.unacked \subseteq s.unacked
             /\ s.unacked = {} => w.sendq = s.sendq
             /\ w.fin = s.fin /\ w.cwnd = s.cwnd /\ w.probed = s.probed
  <1> DEFINE w == Windowed(s, ack, newest)
  <1>1. SendOK(w) /\ Outstanding(w) = Outstanding(s)
    BY UpdateWindowOK DEF Windowed
  <1>2. s \in SendHalf(s.unacked)
    BY DEF SendOK
  <1>3. /\ w.unacked \subseteq s.unacked
        /\ w.fin = s.fin /\ w.cwnd = s.cwnd /\ w.probed = s.probed
    BY <1>2 DEF Windowed, UpdateWindow, SendHalf
  <1>4. s.unacked = {} => w.sendq = s.sendq
    BY <1>1, <1>3 DEF Outstanding
  <1>. QED  BY <1>1, <1>3, <1>4

(* What an ack does to the lists, the fin and the tokens.                  *)
LEMMA HandleAcksLists ==
  ASSUME NEW s, SendOK(s), NEW ack \in Ack
  PROVE  LET h == HandleAcks(s, ack)
         IN  /\ h.unacked = s.unacked \ Acked(s, ack) /\ h.sendq = s.sendq
             /\ h.fin = s.fin /\ h.probed = s.probed
             /\ Acked(s, ack) = {} => h.cwnd = s.cwnd
  <1> DEFINE h == HandleAcks(s, ack)
  <1>1. s \in SendHalf(s.unacked)
    BY DEF SendOK
  <1>2. /\ h.unacked = s.unacked \ Acked(s, ack) /\ h.sendq = s.sendq
        /\ h.fin = s.fin /\ h.probed = s.probed
        /\ h.cwnd = s.cwnd + 2 * Cardinality(Acked(s, ack))
    BY <1>1 DEF HandleAcks, SendHalf
  <1>3. Acked(s, ack) = {} => h.cwnd = s.cwnd
    <2>1. s.cwnd \in Int
      BY <1>1 DEF SendHalf
    <2>. HIDE DEF h
    <2>. QED  BY <1>2, <2>1, FS_EmptySet
  <1>. QED  BY <1>2, <1>3

(* What an ack does to the timer. *)
LEMMA AckTimer ==
  ASSUME NEW c \in Control, NEW s, NEW ack, NEW newest
  PROVE  CtlAfterAck(c, s, ack, newest).timer =
           IF Drained(s, ack, newest) /\ ~FinDue(c, s, ack, newest) THEN "inf" ELSE c.timer
  <1> DEFINE f == CtlAfterFinAck(c, s, ack, newest)
             stop == Drained(s, ack, newest) /\ ~FinDue(c, s, ack, newest)
             t == IF stop THEN [f EXCEPT !.timer = "inf"] ELSE f
  <1>1. f \in Control
    BY AckOnFinOK DEF CtlAfterFinAck
  <1>2. f.timer = c.timer
    BY TransitionWatch DEF CtlAfterFinAck, AckOnFin, StreamStates, OpenStates, ClosedStates
  <1>3. CtlAfterAck(c, s, ack, newest) =
          IF AckedSegments(s, ack, newest) # {} THEN Raise(t, {"dataWrite"}) ELSE t
    BY DEF CtlAfterAck
  <1>. HIDE DEF f, stop
  <1>4. t \in Control /\ t.timer = IF stop THEN "inf" ELSE f.timer
    BY <1>1 DEF Control, Timers
  <1>. HIDE DEF t
  <1>. QED  BY <1>2, <1>3, <1>4, RaiseWatch DEF stop

(* parse_ack_extension stops the timer only when nothing is left to wait   *)
(* for.                                                                    *)
LEMMA AckTended ==
  ASSUME NEW c \in Control, NEW s, SendOK(s), NEW ack \in Ack, NEW newest, Tended(c, s)
  PROVE  Tended(CtlAfterAck(c, s, ack, newest), SendAfterAck(c, s, ack, newest))
  <1> DEFINE w == Windowed(s, ack, newest)
             acked == AckedSegments(s, ack, newest)
             h == HandleAcks(w, ack)
             d == CtlAfterAck(c, s, ack, newest)
             t == SendAfterAck(c, s, ack, newest)
             drained == Drained(s, ack, newest)
             due == FinDue(c, s, ack, newest)
  <1>1. /\ SendOK(w) /\ Outstanding(w) = Outstanding(s) /\ w.unacked \subseteq s.unacked
        /\ s.unacked = {} => w.sendq = s.sendq
        /\ w.fin = s.fin /\ w.cwnd = s.cwnd /\ w.probed = s.probed
    BY WindowedLists
  <1>2. acked = Acked(w, ack) /\ acked \subseteq w.unacked
    BY DEF AckedSegments, Acked
  <1>3. /\ h.unacked = w.unacked \ acked /\ h.sendq = w.sendq
        /\ h.fin = w.fin /\ h.probed = w.probed
        /\ acked = {} => h.cwnd = w.cwnd
    BY <1>1, <1>2, HandleAcksLists
  <1>4. /\ drained <=> acked # {} /\ Outstanding(h) = {}
        /\ due <=> drained /\ s.fin = NoSeq /\ c.st \in {"FIN_WAIT_1", "LAST_ACK", "CLOSING"}
        /\ t = IF due THEN AddFinSegment(h) ELSE h
    BY DEF Drained, FinDue, SendAfterAck
  <1>5. d.timer = IF drained /\ ~due THEN "inf" ELSE c.timer
    BY AckTimer
  <1>6. d.st = c.st \/ d.st \in {"FIN_WAIT_2", "TIME_WAIT", "CLOSED"}
    BY CtlAfterAckOK
  <1>. HIDE DEF w, acked, h, d, t, drained, due
  <1>7. CASE s.unacked = {}
    <2>1. acked = {} /\ t = h
      BY <1>1, <1>2, <1>4, <1>7
    <2>2. Alike(s, t)
      BY <1>1, <1>3, <1>7, <2>1 DEF Alike
    <2>3. KeepsWatch(c, d)
      BY <1>4, <1>5, <1>6, <2>1 DEF KeepsWatch, OpeningStates, TransmitStates
    <2>. QED  BY <2>2, <2>3, StaysTended DEF d, t
  <1>8. CASE s.unacked # {}
    <2>1. c.st \notin OpeningStates \cup {"IDLE"}
      BY <1>8 DEF Tended, Untried
    <2>2. d.st \notin OpeningStates \cup {"IDLE"}
      BY <1>6, <2>1 DEF OpeningStates
    <2>3. ASSUME d.st \in TransmitStates, d.timer = "inf"
          PROVE  Outstanding(t) = {} \/ FinOnly(t)
      <3>1. CASE drained /\ ~due
        BY <1>4, <3>1
      <3>2. CASE ~(drained /\ ~due)
        <4>1. c.timer = "inf" /\ c.st \in TransmitStates
          BY <1>5, <1>6, <2>3, <3>2 DEF TransmitStates
        <4>2. FinOnly(s)
          BY <1>8, <4>1 DEF Tended, Untried, Outstanding
        <4>3. ~due /\ t = h
          BY <1>4, <4>2 DEF FinOnly
        <4>4. Outstanding(h) \subseteq {s.fin}
          BY <1>1, <1>3, <4>2 DEF FinOnly, Outstanding
        <4>5. h.unacked # {} => acked = {}
          BY <1>1, <1>2, <1>3, <4>2 DEF FinOnly, Outstanding
        <4>6. CASE Outstanding(h) # {}
          <5>1. h.fin = s.fin /\ Outstanding(h) = {h.fin}
            BY <1>1, <1>3, <4>4, <4>6
          <5>2. h.unacked # {} => h.cwnd < 0
            BY <1>1, <1>3, <1>8, <4>2, <4>5 DEF FinOnly
          <5>. QED  BY <4>2, <4>3, <5>1, <5>2 DEF FinOnly
        <4>. QED  BY <4>3, <4>6
      <3>. QED  BY <3>1, <3>2
    <2>. QED  BY <2>2, <2>3 DEF Tended, d, t
  <1>. QED  BY <1>7, <1>8
-----------------------------------------------------------------------------
(* The steps of an end.                                                    *)

(* Poll keeps TendedInv.                                                   *)
LEMMA PollTended == ASSUME IInv, TendedInv, NEW e \in End, Poll(e) PROVE TendedInv'
  <1> DEFINE s == IF snd[e].segWait THEN AllocateNextSendSegment(snd[e]) ELSE snd[e]
             c == IF snd[e].segWait /\ s.hasSeg THEN Raise(ctl[e], {"dataWrite"}) ELSE ctl[e]
  <1>1. snd' = [snd EXCEPT ![e] = s]
    BY DEF Poll
  <1>2. ctl' = [ctl EXCEPT ![e] = c]
    <2>1. snd'[e] = s
      BY <1>1, EndFacts
    <2>. QED  BY <2>1, Zenon DEF Poll
  <1>3. KeepsWatch(ctl[e], c) /\ Alike(snd[e], s)
    BY EndFacts, RaiseWatch, AllocateAlike, WatchFacts
  <1>. HIDE DEF s, c
  <1>. QED  BY <1>1, <1>2, <1>3, WatchStep

(* Packets without segments, and timeouts, set the timer or leave it. *)
LEMMA SendSynTended == ASSUME IInv, TendedInv, NEW e \in End, SendSyn(e) PROVE TendedInv'
  <1> DEFINE s == [snd[e] EXCEPT !.clock = @ + 1]
             c == [ctl[e] EXCEPT !.timer = "future"]
  <1>1. snd' = [snd EXCEPT ![e] = s] /\ ctl' = [ctl EXCEPT ![e] = c]
    BY DEF SendSyn
  <1>2. Alike(snd[e], s)
    BY EndFacts DEF Alike, SendOK, SendHalf
  <1>3. KeepsWatch(ctl[e], c)
    BY EndFacts DEF KeepsWatch, Control
  <1>. HIDE DEF s, c
  <1>. QED  BY <1>1, <1>2, <1>3, WatchStep

(* SendSynAck keeps TendedInv.                                             *)
LEMMA SendSynAckTended == ASSUME IInv, TendedInv, NEW e \in End, SendSynAck(e) PROVE TendedInv'
  <1> DEFINE s == [snd[e] EXCEPT !.clock = @ + 1]
             c == [ctl[e] EXCEPT !.timer = "future"]
  <1>1. snd' = [snd EXCEPT ![e] = s] /\ ctl' = [ctl EXCEPT ![e] = c]
    BY DEF SendSynAck
  <1>2. Alike(snd[e], s)
    BY EndFacts DEF Alike, SendOK, SendHalf
  <1>3. KeepsWatch(ctl[e], c)
    BY EndFacts DEF KeepsWatch, Control
  <1>. HIDE DEF s, c
  <1>. QED  BY <1>1, <1>2, <1>3, WatchStep

(* A stream that sends segments is open, and with ET_DATA it sets the timer. *)
LEMMA SetTimerTended ==
  ASSUME IInv, TendedInv, NEW e \in End, NEW s,
         snd' = [snd EXCEPT ![e] = s], ctl' = [ctl EXCEPT ![e].timer = "future"],
         ctl[e].st \in TransmitStates
  PROVE  TendedInv'
  <1> DEFINE c == [ctl[e] EXCEPT !.timer = "future"]
  <1>1. ctl' = [ctl EXCEPT ![e] = c]
    OBVIOUS
  <1>2. c.st \in TransmitStates /\ c.timer = "future"
    BY EndFacts DEF Control
  <1>. HIDE DEF c
  <1>3. Tended(c, s)
    BY <1>2 DEF Tended, TransmitStates, OpeningStates
  <1>. QED  BY <1>1, <1>3, TendedStep

(* SendData keeps TendedInv.                                               *)
LEMMA SendDataTended == ASSUME IInv, TendedInv, NEW e \in End, SendData(e) PROVE TendedInv'
  <1>1. PICK out \in Fills(e) :
          snd' = [snd EXCEPT ![e] = [WriteDataToPacket(@, out) EXCEPT !.probed = TRUE]]
    BY DEF SendData
  <1>2. ctl[e].st \in TransmitStates
    BY DEF SendData, Turn, NextEvent
  <1> DEFINE s == [WriteDataToPacket(snd[e], out) EXCEPT !.probed = TRUE]
  <1>3. snd' = [snd EXCEPT ![e] = s]
    BY <1>1
  <1>. HIDE DEF s
  <1>. QED  BY <1>2, <1>3, SetTimerTended DEF SendData

(* Timeout keeps TendedInv.                                                *)
LEMMA TimeoutTended == ASSUME IInv, TendedInv, NEW e \in End, Timeout(e) PROVE TendedInv'
  <1>1. ctl[e].st \in TransmitStates
    BY DEF Timeout, Turn, NextEvent
  <1> DEFINE s == HandleTimeout(snd[e])
  <1>2. snd' = [snd EXCEPT ![e] = s]
    BY DEF Timeout
  <1>. HIDE DEF s
  <1>. QED  BY <1>1, <1>2, SetTimerTended DEF Timeout

(* An ET_ACK packet carries segments only when ET_DATA could not: when the *)
(* tokens are used up.  It does not set the timer.                         *)
LEMMA SendAckTended == ASSUME IInv, TendedInv, NEW e \in End, SendAck(e) PROVE TendedInv'
  <1>1. PICK out \in Fills(e) :
          snd' = [snd EXCEPT ![e] = WriteDataToPacket(@, out)]
    BY DEF SendAck
  <1> DEFINE u == snd[e]
             s == WriteDataToPacket(u, out)
  <1>2. snd' = [snd EXCEPT ![e] = s] /\ ctl' = ctl
    BY <1>1 DEF SendAck
  <1>3. ctl[e].st \in OpenStates /\ (ctl[e].st \in TransmitStates => ~DataToSend(u))
    BY DEF SendAck, Turn, NextEvent
  <1>4. /\ u \in SendHalf(u.unacked) /\ Tended(ctl[e], u) /\ SendOK(u)
        /\ u.resend \subseteq u.unacked
    BY EndFacts DEF SendOK, TendedInv
  <1>5. out \subseteq Sendable(u)
    BY DEF Fills
  <1>6. /\ s.unacked = u.unacked \cup out /\ s.sendq = u.sendq \ out /\ s.fin = u.fin
        /\ s.cwnd = u.cwnd - Cardinality(out) /\ s.probed = u.probed
    BY <1>4 DEF WriteDataToPacket, SendHalf
  <1>7. out \subseteq Outstanding(u) /\ Outstanding(s) = Outstanding(u)
    BY <1>4, <1>5, <1>6 DEF Sendable, Outstanding
  <1>8. u.cwnd \in Int /\ Cardinality(out) \in Nat /\ IsFiniteSet(out)
    BY <1>4, <1>7, CountedSegments DEF SendHalf
  <1>. HIDE DEF s, u
  <1>9. CASE out = {}
    <2>1. Cardinality(out) = 0
      BY <1>9, FS_EmptySet
    <2>2. Alike(u, s)
      BY <1>6, <1>8, <1>9, <2>1 DEF Alike
    <2>. QED  BY <1>2, <2>2, WatchStep, WatchFacts DEF u
  <1>10. CASE out # {}
    <2>1. Cardinality(out) > 0
      <3>1. Cardinality(out) # 0
        BY <1>8, <1>10, FS_EmptySet
      <3>. QED  BY <1>8, <3>1
    <2>2. ASSUME ctl[e].st \in TransmitStates, ctl[e].timer = "inf"
          PROVE  FinOnly(s)
      <3>1. u.cwnd <= 0 /\ Sendable(u) # {}
        BY <1>3, <1>5, <1>8, <1>10, <2>2 DEF DataToSend
      <3>2. FinOnly(u)
        BY <1>4, <1>7, <1>8, <1>10, <2>2, <3>1 DEF Tended, Untried
      <3>3. s.cwnd < 0
        BY <1>6, <1>8, <2>1, <3>1
      <3>. QED  BY <1>6, <1>7, <3>2, <3>3 DEF FinOnly
    <2>3. Tended(ctl[e], s)
      BY <1>3, <2>2 DEF Tended, OpenStates, OpeningStates
    <2>. QED  BY <1>2, <2>3, TendedStep
  <1>. QED  BY <1>9, <1>10

(* Steps that move the state on without touching a send half. *)
LEMMA LeavesTransmission ==
  ASSUME IInv, TendedInv, NEW e \in End, NEW new \in ClosedStates, snd' = snd,
         ctl' = [ctl EXCEPT ![e] = Transition(ctl[e], new)]
  PROVE  TendedInv'
  <1> DEFINE c == Transition(ctl[e], new)
  <1>1. c.st = new
    BY EndFacts, TransitionOK DEF StreamStates
  <1>2. ctl' = [ctl EXCEPT ![e] = c]
    OBVIOUS
  <1>. HIDE DEF c
  <1>3. KeepsWatch(ctl[e], c)
    BY <1>1 DEF KeepsWatch, ClosedStates, OpeningStates, TransmitStates
  <1>. QED  BY <1>2, <1>3, WatchStep, WatchFacts

(* QueueAccept keeps TendedInv.                                            *)
LEMMA QueueAcceptTended == ASSUME IInv, TendedInv, NEW e \in End, QueueAccept(e) PROVE TendedInv'
  <1> DEFINE c == Transition(ctl[e], "WAIT_ACCEPT")
  <1>1. ctl[e].st = "ACCEPT"
    BY DEF QueueAccept, Turn, NextEvent
  <1>2. c.st = "WAIT_ACCEPT"
    BY EndFacts, TransitionOK DEF StreamStates, OpeningStates
  <1>3. ctl' = [ctl EXCEPT ![e] = c] /\ snd' = snd
    BY DEF QueueAccept
  <1>. HIDE DEF c
  <1>4. KeepsWatch(ctl[e], c)
    BY <1>1, <1>2 DEF KeepsWatch, OpeningStates, TransmitStates
  <1>. QED  BY <1>3, <1>4, WatchStep, WatchFacts

(* SendRst keeps TendedInv.                                                *)
LEMMA SendRstTended == ASSUME IInv, TendedInv, NEW e \in End, SendRst(e) PROVE TendedInv'
  BY LeavesTransmission DEF SendRst, ClosedStates

(* TimeWait keeps TendedInv.                                               *)
LEMMA TimeWaitTended == ASSUME IInv, TendedInv, NEW e \in End, TimeWait(e) PROVE TendedInv'
  BY LeavesTransmission DEF TimeWait, ClosedStates

(* ConnectionDied keeps TendedInv.                                         *)
LEMMA ConnectionDiedTended ==
  ASSUME IInv, TendedInv, NEW e \in End, ConnectionDied(e) PROVE TendedInv'
  <1> DEFINE new == IF ctl[e].st = "LAST_ACK" THEN "CLOSED" ELSE "ABORTED_RST"
  <1>1. new \in ClosedStates
    BY DEF ClosedStates
  <1>2. snd' = snd /\ ctl' = [ctl EXCEPT ![e] = Transition(ctl[e], new)]
    BY DEF ConnectionDied
  <1>. QED  BY <1>1, <1>2, LeavesTransmission

(* DispatchEvent keeps TendedInv.                                          *)
LEMMA DispatchEventTended ==
  ASSUME IInv, TendedInv, NEW e \in End, DispatchEvent(e) PROVE TendedInv'
  <1> DEFINE c == [ctl[e] EXCEPT !.ev = @ \ {FirstEvent(@)}]
  <1>1. c.st = ctl[e].st /\ c.timer = ctl[e].timer
    BY EndFacts DEF Control
  <1>2. ctl' = [ctl EXCEPT ![e] = c] /\ snd' = snd
    BY DEF DispatchEvent
  <1>. HIDE DEF c
  <1>3. KeepsWatch(ctl[e], c)
    BY <1>1 DEF KeepsWatch
  <1>. QED  BY <1>2, <1>3, WatchStep, WatchFacts
-----------------------------------------------------------------------------
(* Packets.                                                                *)

(* RecvSyn keeps TendedInv.                                                *)
LEMMA RecvSynTended ==
  ASSUME IInv, TendedInv, NEW e \in End, NEW p \in net, RecvSyn(e, p) PROVE TendedInv'
  <1>1. snd' = snd
    BY DEF RecvSyn
  <1>2. CASE ctl[e].st = "IDLE"
    <2> DEFINE c == Transition(ctl[e], "ACCEPT")
    <2>1. ctl' = [ctl EXCEPT ![e] = c]
      BY <1>2 DEF RecvSyn
    <2>2. c.st = "ACCEPT"
      BY EndFacts, TransitionOK DEF StreamStates, OpeningStates
    <2>. HIDE DEF c
    <2>3. KeepsWatch(ctl[e], c)
      BY <1>2, <2>2 DEF KeepsWatch, OpeningStates, TransmitStates
    <2>. QED  BY <1>1, <2>1, <2>3, WatchStep, WatchFacts
  <1>3. CASE ctl[e].st = "SYN_RCVD"
    <2> DEFINE c == [ctl[e] EXCEPT !.timer = "now"]
    <2>1. ctl' = [ctl EXCEPT ![e] = c]
      BY <1>3 DEF RecvSyn
    <2>2. c.st = "SYN_RCVD"
      BY <1>3, EndFacts DEF Control
    <2>. HIDE DEF c
    <2>3. KeepsWatch(ctl[e], c)
      BY <1>3, <2>2 DEF KeepsWatch, OpeningStates, TransmitStates
    <2>. QED  BY <1>1, <2>1, <2>3, WatchStep, WatchFacts
  <1>4. CASE ctl[e].st \notin {"IDLE", "SYN_RCVD"}
    <2>1. ctl' = ctl
      BY <1>4 DEF RecvSyn
    <2>. QED  BY <1>1, <2>1, WatchStep, WatchFacts
  <1>. QED  BY <1>2, <1>3, <1>4

(* RecvSynAck keeps TendedInv.                                             *)
LEMMA RecvSynAckTended ==
  ASSUME IInv, TendedInv, NEW e \in End, NEW p \in net, RecvSynAck(e, p) PROVE TendedInv'
  <1> DEFINE opening == ctl[e].st = "SYN_SENT"
             c == IF opening THEN Transition(ctl[e], "ESTABLISHED") ELSE ctl[e]
             s == IF opening THEN AllocateNextSendSegment(snd[e]) ELSE snd[e]
             noted == NoteStamp(rcv[e], p.stamp)
             r == IF opening
                  THEN AllocateNextRecvSegment([AnchorRecv(noted, p.seq, p.stamp) EXCEPT !.ackNow = TRUE])
                  ELSE [noted EXCEPT !.ackNow = @ \/ ctl[e].st = "ESTABLISHED"]
             newest == r.echo <= p.stamp
  <1>1. p.ack \in Ack
    <2>1. Arrives(e, p, "SYN_ACK")
      BY DEF RecvSynAck
    <2>. QED  BY <2>1, ArrivesOK, AckingPacket DEF CarriesAck
  <1>2. /\ ctl' = [ctl EXCEPT ![e] = CtlAfterAck(c, s, p.ack, newest)]
        /\ snd' = [snd EXCEPT ![e] = SendAfterAck(c, s, p.ack, newest)]
    BY Zenon DEF RecvSynAck
  <1>4. c \in Control /\ (c = ctl[e] \/ (ctl[e].st = "SYN_SENT" /\ c.st = "ESTABLISHED"))
    BY EndFacts, TransitionOK DEF StreamStates, OpenStates
  <1>5. SendOK(s) /\ Alike(snd[e], s)
    BY EndFacts, AllocateNextSendSegmentOK, AllocateAlike, WatchFacts
  <1>. HIDE DEF c, s, newest
  <1>6. KeepsWatch(ctl[e], c)
    BY <1>4, WatchFacts DEF KeepsWatch, OpeningStates, TransmitStates
  <1>7. Tended(c, s)
    BY <1>5, <1>6, StaysTended DEF TendedInv
  <1>8. Tended(CtlAfterAck(c, s, p.ack, newest), SendAfterAck(c, s, p.ack, newest))
    BY <1>1, <1>4, <1>5, <1>7, AckTended
  <1>. QED  BY <1>2, <1>8, TendedStep

(* RecvAck keeps TendedInv.                                                *)
LEMMA RecvAckTended ==
  ASSUME IInv, TendedInv, NEW e \in End, NEW p \in net, RecvAck(e, p) PROVE TendedInv'
  <1> DEFINE c == IF ctl[e].st = "SYN_RCVD" THEN Transition(ctl[e], "ESTABLISHED") ELSE ctl[e]
             newest == NoteStamp(rcv[e], p.stamp).echo <= p.stamp
  <1>1. p.ack \in Ack
    <2>1. Arrives(e, p, "ACK")
      BY DEF RecvAck
    <2>. QED  BY <2>1, ArrivesOK, AckingPacket DEF CarriesAck
  <1>2. /\ ctl' = [ctl EXCEPT ![e] = CtlAfterAck(c, snd[e], p.ack, newest)]
        /\ snd' = [snd EXCEPT ![e] = SendAfterAck(c, snd[e], p.ack, newest)]
    BY Zenon DEF RecvAck
  <1>3. c \in Control /\ (c = ctl[e] \/ (ctl[e].st = "SYN_RCVD" /\ c.st = "ESTABLISHED"))
    BY EndFacts, TransitionOK DEF StreamStates, OpenStates
  <1>. HIDE DEF c, newest
  <1>4. KeepsWatch(ctl[e], c)
    BY <1>3, WatchFacts DEF KeepsWatch, OpeningStates, TransmitStates
  <1>5. Tended(c, snd[e])
    BY <1>4, WatchFacts, StaysTended DEF TendedInv
  <1>6. Tended(CtlAfterAck(c, snd[e], p.ack, newest), SendAfterAck(c, snd[e], p.ack, newest))
    BY <1>1, <1>3, <1>5, AckTended, EndFacts
  <1>. QED  BY <1>2, <1>6, TendedStep

(* RecvRst keeps TendedInv.                                                *)
LEMMA RecvRstTended ==
  ASSUME IInv, TendedInv, NEW e \in End, NEW p \in net, RecvRst(e, p) PROVE TendedInv'
  <1>1. snd' = snd
    BY DEF RecvRst
  <1>2. \/ ctl' = [ctl EXCEPT ![e] = ctl[e]]
        \/ \E new \in {"CLOSED", "ABORTED_RST"} : ctl' = [ctl EXCEPT ![e] = Transition(ctl[e], new)]
    BY DEF RecvRst
  <1>. QED  BY <1>1, <1>2, WatchStep, WatchFacts, LeavesTransmission DEF ClosedStates

(* ParseData keeps TendedInv.                                              *)
LEMMA ParseDataTended == ASSUME IInv, TendedInv, NEW e \in End, ParseData(e) PROVE TendedInv'
  <1>1. snd' = snd
    BY DEF ParseData
  <1>2. \/ ctl' = [ctl EXCEPT ![e] = ctl[e]]
        \/ ctl' = [ctl EXCEPT ![e] = Raise(ctl[e], {"dataReady"})]
    BY DEF ParseData
  <1>. QED  BY <1>1, <1>2, WatchStep, WatchFacts, RaiseWatch, EndFacts

(* A fin of the peer moves the state on and leaves the timer alone. *)
LEMMA ParseFinTended == ASSUME IInv, TendedInv, NEW e \in End, ParseFin(e) PROVE TendedInv'
  <1>1. snd' = snd
    BY DEF ParseFin
  <1>2. CASE ctl' = ctl \/ ctl' = [ctl EXCEPT ![e] = ctl[e]]
    BY <1>1, <1>2, WatchStep, WatchFacts
  <1>3. CASE /\ ctl[e].st \in {"ESTABLISHED", "FIN_WAIT_1", "FIN_WAIT_2"}
             /\ \E c \in {ctl[e], Raise(ctl[e], {"dataReady"})} :
                  ctl' = [ctl EXCEPT ![e] = Transition(c, StateAfterFin(ctl[e].st))]
    <2>1. PICK c \in {ctl[e], Raise(ctl[e], {"dataReady"})} :
                  ctl' = [ctl EXCEPT ![e] = Transition(c, StateAfterFin(ctl[e].st))]
      BY <1>3
    <2> DEFINE new == StateAfterFin(ctl[e].st)
               d == Transition(c, new)
    <2>2. /\ new \in {"CLOSE_WAIT", "CLOSING", "TIME_WAIT"}
          /\ new \in TransmitStates => ctl[e].st \in TransmitStates
      BY <1>3 DEF StateAfterFin, TransmitStates
    <2>3. c \in Control /\ c.timer = ctl[e].timer
      BY EndFacts, RaiseOK, RaiseWatch
    <2>. HIDE DEF new
    <2>4. d.st = new /\ d.timer = ctl[e].timer
      BY <2>2, <2>3, TransitionWatch DEF StreamStates, OpenStates
    <2>5. ctl' = [ctl EXCEPT ![e] = d]
      BY <2>1 DEF new
    <2>. HIDE DEF d
    <2>6. KeepsWatch(ctl[e], d)
      BY <2>2, <2>4 DEF KeepsWatch, OpeningStates
    <2>. QED  BY <1>1, <2>5, <2>6, WatchStep, WatchFacts
  <1>4. \/ ctl' = ctl \/ ctl' = [ctl EXCEPT ![e] = ctl[e]]
        \/ /\ ctl[e].st \in {"ESTABLISHED", "FIN_WAIT_1", "FIN_WAIT_2"}
           /\ \E c \in {ctl[e], Raise(ctl[e], {"dataReady"})} :
                ctl' = [ctl EXCEPT ![e] = Transition(c, StateAfterFin(ctl[e].st))]
    BY DEF ParseFin
  <1>. QED  BY <1>2, <1>3, <1>4
-----------------------------------------------------------------------------
(* The application.                                                        *)

(* Open keeps TendedInv.                                                   *)
LEMMA OpenTended == ASSUME IInv, TendedInv, NEW e \in End, Open(e) PROVE TendedInv'
  <1> DEFINE c == Transition(ctl[e], "SYN_SENT")
             s == [snd[e] EXCEPT !.xmit = StartSeq[e]]
  <1>1. ctl' = [ctl EXCEPT ![e] = c] /\ snd' = [snd EXCEPT ![e] = s] /\ ctl[e].st = "IDLE"
    BY DEF Open
  <1>2. Alike(snd[e], s)
    BY EndFacts DEF Alike, SendOK, SendHalf
  <1>3. c.st = "SYN_SENT"
    BY EndFacts, TransitionOK DEF StreamStates, OpeningStates
  <1>. HIDE DEF c, s
  <1>4. KeepsWatch(ctl[e], c)
    BY <1>1, <1>3 DEF KeepsWatch, OpeningStates, TransmitStates
  <1>. QED  BY <1>1, <1>2, <1>4, WatchStep

(* Accept keeps TendedInv.                                                 *)
LEMMA AcceptTended == ASSUME IInv, TendedInv, NEW e \in End, Accept(e) PROVE TendedInv'
  <1> DEFINE c == Transition(ctl[e], "SYN_RCVD")
             n == [snd[e] EXCEPT !.xmit = StartSeq[e]]
             s == AllocateNextSendSegment(n)
  <1>1. /\ ctl' = [ctl EXCEPT ![e] = c] /\ snd' = [snd EXCEPT ![e] = s]
        /\ ctl[e].st \in {"WAIT_ACCEPT", "ACCEPT"}
    BY DEF Accept
  <1>2. Alike(snd[e], n)
    BY EndFacts DEF Alike, SendOK, SendHalf
  <1>3. SendOK(n)
    <2>1. Outstanding(snd[e]) = {} /\ StartSeq[e] \in Nat
      BY <1>1, EndFacts, PairAssumption DEF Fresh, Unopened
    <2>. QED  BY <2>1, EndFacts, StartOK
  <1>. HIDE DEF n
  <1>4. Alike(snd[e], s)
    BY <1>2, <1>3, AllocateAlike DEF Alike
  <1>5. c.st = "SYN_RCVD"
    BY EndFacts, TransitionOK DEF StreamStates, OpeningStates
  <1>. HIDE DEF c, s
  <1>6. KeepsWatch(ctl[e], c)
    BY <1>1, <1>5 DEF KeepsWatch, OpeningStates, TransmitStates
  <1>. QED  BY <1>1, <1>4, <1>6, WatchStep

(* write_buffer sets a timer that is not set. *)
LEMMA WriteTended ==
  ASSUME IInv, TendedInv, NEW e \in End, NEW n \in 1..MaxSegsPerWrite, Write(e, n) PROVE TendedInv'
  <1> DEFINE s == WriteSegments(snd[e], n)
             c == [ctl[e] EXCEPT !.timer = IF @ = "inf" THEN "future" ELSE @]
  <1>1. /\ ctl' = [ctl EXCEPT ![e] = c] /\ snd' = [snd EXCEPT ![e] = s]
    BY DEF Write
  <1>2. c.st = ctl[e].st /\ c.timer # "inf"
    BY EndFacts DEF Control
  <1>3. s.unacked = snd[e].unacked /\ s.cwnd = snd[e].cwnd /\ s.probed = snd[e].probed
    BY EndFacts DEF WriteSegments, SendOK, SendHalf
  <1>. HIDE DEF c, s
  <1>4. Tended(c, s)
    BY <1>2, <1>3 DEF TendedInv, Tended, Untried
  <1>. QED  BY <1>1, <1>4, TendedStep

(* Close keeps TendedInv.                                                  *)
LEMMA CloseTended == ASSUME IInv, TendedInv, NEW e \in End, Close(e) PROVE TendedInv'
  <1>1. CASE ctl[e].st \in {"ESTABLISHED", "CLOSE_WAIT"}
    <2> DEFINE u == snd[e]
               s == FinOnClose(u)
               c == Transition(ctl[e], IF ctl[e].st = "ESTABLISHED" THEN "FIN_WAIT_1" ELSE "LAST_ACK")
    <2>1. /\ snd' = [snd EXCEPT ![e] = s] /\ ctl' = [ctl EXCEPT ![e] = c]
      BY <1>1 DEF Close, OpeningStates
    <2>2. c.st \in {"FIN_WAIT_1", "LAST_ACK"} /\ c.timer = ctl[e].timer
      BY EndFacts, TransitionWatch DEF StreamStates, OpenStates
    <2>. HIDE DEF c
    <2>3. KeepsWatch(ctl[e], c)
      BY <1>1, <2>2 DEF KeepsWatch, OpeningStates, TransmitStates
    <2>4. CASE Outstanding(u) = {}
      <3>1. /\ s.unacked = u.unacked /\ s.sendq = u.sendq \cup {u.xmit + 1} /\ s.fin = u.xmit + 1
            /\ u.xmit \in Nat
        BY <2>4, EndFacts DEF FinOnClose, AddFinSegment, SendOK, SendHalf
      <3>. HIDE DEF s
      <3>2. FinOnly(s)
        <4> DEFINE xmit == u.xmit
        <4>1. xmit \in Nat
          BY <3>1
        <4>. HIDE DEF xmit
        <4>2. xmit + 1 # 0
          BY <4>1
        <4>. QED  BY <2>4, <3>1, <4>2 DEF FinOnly, Outstanding, NoSeq, xmit
      <3>3. Tended(c, s)
        BY <2>2, <3>2 DEF Tended, OpeningStates
      <3>. QED  BY <2>1, <3>3, TendedStep
    <2>5. CASE Outstanding(u) # {}
      <3>1. s = u
        BY <2>5 DEF FinOnClose
      <3>. QED  BY <2>1, <2>3, <3>1, WatchStep, WatchFacts
    <2>. QED  BY <2>4, <2>5
  <1>2. CASE ctl[e].st \notin {"ESTABLISHED", "CLOSE_WAIT"}
    BY <1>2, LeavesTransmission DEF Close, ClosedStates
  <1>. QED  BY <1>1, <1>2
-----------------------------------------------------------------------------
(* The integrator and the network.                                         *)

(* Release keeps TendedInv.                                                *)
LEMMA ReleaseTended == ASSUME IInv, TendedInv, NEW e \in End, Release(e) PROVE TendedInv'
  <1> DEFINE c == [st |-> "RELEASED", timer |-> "inf", ev |-> {}]
  <1>1. ctl' = [ctl EXCEPT ![e] = c] /\ snd' = snd
    BY DEF Release
  <1>2. KeepsWatch(ctl[e], c)
    BY DEF KeepsWatch, OpeningStates, TransmitStates
  <1>. HIDE DEF c
  <1>. QED  BY <1>1, <1>2, WatchStep, WatchFacts

(* SegmentAvailable keeps TendedInv.                                       *)
LEMMA SegmentAvailableTended ==
  ASSUME IInv, TendedInv, NEW e \in End, SegmentAvailable(e) PROVE TendedInv'
  <1>1. CASE UNCHANGED <<ctl, snd>>
    BY <1>1, WatchStep, WatchFacts
  <1>2. CASE /\ snd' = [snd EXCEPT ![e] = AllocateNextSendSegment(snd[e])]
             /\ ctl' = [ctl EXCEPT ![e] = IF snd[e].segWait THEN Raise(ctl[e], {"dataWrite"}) ELSE ctl[e]]
    <2> DEFINE s == AllocateNextSendSegment(snd[e])
               c == IF snd[e].segWait THEN Raise(ctl[e], {"dataWrite"}) ELSE ctl[e]
    <2>1. KeepsWatch(ctl[e], c) /\ Alike(snd[e], s)
      BY EndFacts, RaiseWatch, AllocateAlike, WatchFacts
    <2>2. snd' = [snd EXCEPT ![e] = s] /\ ctl' = [ctl EXCEPT ![e] = c]
      BY <1>2
    <2>. HIDE DEF c, s
    <2>. QED  BY <2>1, <2>2, WatchStep
  <1>. QED  BY <1>1, <1>2 DEF SegmentAvailable

(* EarlyTimer keeps TendedInv.                                             *)
LEMMA EarlyTimerTended == ASSUME IInv, TendedInv, NEW e \in End, EarlyTimer(e) PROVE TendedInv'
  <1> DEFINE c == [ctl[e] EXCEPT !.timer = "now"]
  <1>1. c.st = ctl[e].st /\ c.timer = "now"
    BY EndFacts DEF Control
  <1>2. ctl' = [ctl EXCEPT ![e] = c] /\ snd' = snd
    BY DEF EarlyTimer
  <1>. HIDE DEF c
  <1>3. KeepsWatch(ctl[e], c)
    BY <1>1 DEF KeepsWatch
  <1>. QED  BY <1>2, <1>3, WatchStep, WatchFacts

(* When every timer passes, TendedInv is kept.                             *)
LEMMA SilenceTended == ASSUME IInv, TendedInv, Silence PROVE TendedInv'
  <1>1. /\ snd' = snd
        /\ ctl' = [e \in End |-> IF ctl[e].timer = "future" THEN [ctl[e] EXCEPT !.timer = "now"] ELSE ctl[e]]
    BY DEF Silence
  <1>2. ASSUME NEW e \in End PROVE KeepsWatch(ctl[e], ctl'[e])
    <2>1. ctl'[e] = IF ctl[e].timer = "future" THEN [ctl[e] EXCEPT !.timer = "now"] ELSE ctl[e]
      BY <1>1
    <2>2. ctl'[e].st = ctl[e].st /\ (ctl'[e].timer = "inf" => ctl[e].timer = "inf")
      BY <2>1, EndFacts DEF Control
    <2>. QED  BY <2>2 DEF KeepsWatch
  <1>3. ASSUME NEW e \in End PROVE Tended(ctl'[e], snd'[e])
    BY <1>1, <1>2, WatchFacts, StaysTended DEF TendedInv
  <1>. QED  BY <1>3 DEF TendedInv, Tended, Untried, FinOnly, Outstanding

(* A stuttering step keeps TendedInv.                                      *)
LEMMA UnchangedTended == ASSUME IInv, TendedInv, UNCHANGED <<ctl, snd>> PROVE TendedInv'
  BY DEF TendedInv, Tended, Untried, FinOnly, Outstanding

(* Before the streams exist nothing is outstanding.                        *)
LEMMA InitTended == ASSUME Init PROVE TendedInv
  <1>1. ASSUME NEW e \in End PROVE Tended(ctl[e], snd[e])
    <2>1. ctl[e].st = "IDLE" /\ snd[e] = InitSend
      BY DEF Init
    <2>2. Untried(InitSend)
      BY SenderAssumption DEF Untried, InitSend
    <2>. QED  BY <2>1, <2>2 DEF Tended, TransmitStates
  <1>. QED  BY <1>1 DEF TendedInv

(* Every step keeps TendedInv.                                             *)
LEMMA NextTended == ASSUME IInv, TendedInv, [Next]_vars PROVE TendedInv'
  <1>1. ASSUME NEW e \in End, Loop(e) PROVE TendedInv'
    BY <1>1, PollTended, QueueAcceptTended, SendSynTended, SendSynAckTended, SendDataTended,
       SendAckTended, TimeoutTended, SendRstTended, DispatchEventTended, TimeWaitTended, Zenon DEF Loop
  <1>2. ASSUME NEW e \in End, Parse(e) PROVE TendedInv'
    BY <1>2, ParseDataTended, ParseFinTended, Zenon DEF Parse
  <1>3. ASSUME NEW e \in End, Application(e) PROVE TendedInv'
    <2>1. CASE Read(e) \/ ReadEof(e)
      BY <2>1, UnchangedTended DEF Read, ReadEof
    <2>. QED  BY <1>3, <2>1, OpenTended, AcceptTended, CloseTended, WriteTended, Zenon DEF Application
  <1>4. ASSUME NEW e \in End, Integrator(e) PROVE TendedInv'
    BY <1>4, ReleaseTended, ConnectionDiedTended, SegmentAvailableTended, EarlyTimerTended, Zenon
       DEF Integrator
  <1>5. ASSUME NEW e \in End, NEW p \in net, Receive(e, p) PROVE TendedInv'
    <2>1. CASE RecvAckWithoutNonce(e, p) \/ AnswerRst(e, p)
      BY <2>1, UnchangedTended DEF RecvAckWithoutNonce, AnswerRst
    <2>. QED  BY <1>5, <2>1, RecvSynTended, RecvSynAckTended, RecvAckTended, RecvRstTended, Zenon
              DEF Receive
  <1>6. ASSUME NEW p \in net, Lose(p) PROVE TendedInv'
    BY <1>6, UnchangedTended DEF Lose
  <1>7. CASE UNCHANGED vars
    BY <1>7, UnchangedTended DEF vars
  <1>. QED  BY <1>1, <1>2, <1>3, <1>4, <1>5, <1>6, <1>7, SilenceTended, Zenon DEF Next

(* The fin is on its own and more tokens are used than there were. *)
Overdrawn(s) == s.unacked = {s.fin} /\ s.cwnd < 0

(* While something is unacknowledged a timer runs or there is data to      *)
(* send.  The one exception is a fin that nabto_stream_create_ack_packet   *)
(* has taken along although the congestion window was used up: the         *)
(* event_handled of ET_ACK sets no timer.  RetransmissionArmed holds while *)
(* no end has such a fin, and of each end that has none by itself.         *)
THEOREM ArmedUnlessOverdrawn ==
  Spec => [](/\ \A e \in End : Armed(e) \/ Overdrawn(snd[e])
             /\ (\A e \in End : ~Overdrawn(snd[e])) => RetransmissionArmed)
  <1>1. Init => IInv /\ TendedInv
    BY InitOK, InitTended
  <1>2. IInv /\ TendedInv /\ [Next]_vars => (IInv /\ TendedInv)'
    BY NextOK, NextTended
  <1>3. TendedInv => \A e \in End : Armed(e) \/ Overdrawn(snd[e])
    <2>1. SUFFICES ASSUME TendedInv, NEW e \in End, ~Armed(e)
                   PROVE  Overdrawn(snd[e])
      OBVIOUS
    <2>2. ctl[e].st \in TransmitStates /\ snd[e].unacked # {} /\ ctl[e].timer = "inf"
      BY <2>1 DEF Armed
    <2>3. FinOnly(snd[e])
      BY <2>1, <2>2 DEF TendedInv, Tended, Outstanding, Untried
    <2>. QED  BY <2>2, <2>3 DEF FinOnly, Outstanding, Overdrawn
  <1>4. (\A e \in End : Armed(e) \/ Overdrawn(snd[e]))
          => ((\A e \in End : ~Overdrawn(snd[e])) => RetransmissionArmed)
    BY DEF RetransmissionArmed
  <1>. QED  BY <1>1, <1>2, <1>3, <1>4, PTL DEF Spec
-----------------------------------------------------------------------------
(* Orderly closes.                                                         *)

(* No end is stopped, no connection dies, and no window shrinks below a    *)
(* fin that is outstanding: nabto_stream_flow_control_advertised_window_   *)
(* reduced would put it back on the send list.                             *)
Undisturbed ==
  /\ env'.aborts = env.aborts /\ env'.deaths = env.deaths
  /\ \A e \in End : snd[e].fin \in snd[e].unacked => snd'[e].fin \notin snd'[e].sendq

(* The states of an end that has the peer's fin, and of one whose own fin  *)
(* is acknowledged, as long as nothing is aborted.                         *)
FinHandled == {"CLOSE_WAIT", "LAST_ACK", "CLOSING", "TIME_WAIT", "CLOSED", "RELEASED"}
FinAcked == {"FIN_WAIT_2", "TIME_WAIT", "CLOSED", "RELEASED"}

(* No packet has taken the fin along. *)
Unsent(s) == s.fin = NoSeq \/ s.fin \in s.sendq

(* Only a stream that exists has sent anything, and only a syn is sent     *)
(* before the peer exists.                                                 *)
Known ==
  /\ \A e \in End : ctl[e].st \notin {"IDLE", "SYN_SENT"} => ctl[Peer(e)].st # "IDLE"
  /\ \A p \in net : /\ ctl[p.src].st # "IDLE"
                    /\ p.type # "SYN" => ctl[Peer(p.src)].st # "IDLE"

(* A fin that has not been sent is nowhere. *)
Launched ==
  \A e \in End :
    Unsent(snd[e]) =>
      /\ \A p \in net : p.src = e /\ p.type = "ACK" => p.fin = NoFin
      /\ inbox[Peer(e)].fin = NoFin /\ rcv[Peer(e)].fin = NoFin

(* The states tell which fins have arrived. *)
FinsAgree ==
  \A e \in End :
    /\ ctl[e].st \in FinHandled <=> rcv[e].fin # NoFin
    /\ ctl[e].st \in FinAcked => rcv[Peer(e)].fin # NoFin

(* An rst comes from a stream that has been released. *)
RstsLate == \A p \in net : p.type = "RST" => ctl[p.src].st = "RELEASED"

CInv == NoFalseAbort /\ Known /\ Launched /\ FinsAgree /\ RstsLate
-----------------------------------------------------------------------------
(* What a step may do to the state of an end, to its fin and to the fin of *)
(* its peer.                                                               *)
StateMoves(e, new, fin) ==
  /\ new = "IDLE" => ctl[e].st = "IDLE"
  /\ ctl[e].st = "RELEASED" => new = "RELEASED"
  /\ new \notin {"IDLE", "SYN_SENT"} =>
       ctl[e].st \notin {"IDLE", "SYN_SENT"} \/ ctl[Peer(e)].st # "IDLE"
  /\ new \in FinHandled <=> fin # NoFin
  /\ new \in FinAcked => rcv[Peer(e)].fin # NoFin
  /\ new \notin {"ABORTED", "ABORTED_RST"}

FinMoves(e, r, i) ==
  /\ rcv[e].fin # NoFin => r.fin # NoFin
  /\ Unsent(snd[Peer(e)]) => r.fin = NoFin /\ i.fin = NoFin

(* A packet that e sends, in state st and with the send half s after it. *)
NewPacket(e, p, st, s) ==
  /\ p.src = e /\ st # "IDLE"
  /\ p.type # "SYN" => ctl[Peer(e)].st # "IDLE"
  /\ p.type = "ACK" => p.fin = NoFin \/ ~Unsent(s)
  /\ p.type = "RST" => st = "RELEASED"

(* A step of all ends. *)
LEMMA CloseStep ==
  ASSUME IInv, CInv, NEW e \in End,
         \A f \in End : /\ StateMoves(f, ctl'[f].st, rcv'[f].fin)
                        /\ FinMoves(f, rcv'[f], inbox'[f])
                        /\ Unsent(snd'[f]) => Unsent(snd[f]),
         \A p \in net' : p \in net \/ NewPacket(e, p, ctl'[e].st, snd'[e])
  PROVE  CInv'
  <1>1. \A f \in End : Peer(f) \in End /\ Peer(Peer(f)) = f
    BY PeerFacts
  <1>2. \A p \in net : p.src \in End
    <2>1. net \subseteq Packets
      BY EndFacts DEF NetSafe
    <2>. QED  BY <2>1 DEF Packets, SynPackets, SynAckPackets, AckPackets, RstPackets
  <1>3. NoFalseAbort'
    BY DEF NoFalseAbort, StateMoves
  <1>4. \A f \in End : ctl[f].st # "IDLE" => ctl'[f].st # "IDLE"
    BY DEF StateMoves
  <1>5. Known'
    <2>1. ASSUME NEW f \in End, ctl'[f].st \notin {"IDLE", "SYN_SENT"}
          PROVE  ctl'[Peer(f)].st # "IDLE"
      BY <1>1, <1>4, <2>1 DEF CInv, Known, StateMoves
    <2>2. ASSUME NEW p \in net'
          PROVE  ctl'[p.src].st # "IDLE" /\ (p.type # "SYN" => ctl'[Peer(p.src)].st # "IDLE")
      BY <1>1, <1>2, <1>4 DEF CInv, Known, NewPacket
    <2>. QED  BY <2>1, <2>2 DEF Known
  <1>6. Launched'
    <2>1. ASSUME NEW f \in End, Unsent(snd'[f])
          PROVE  /\ \A p \in net' : p.src = f /\ p.type = "ACK" => p.fin = NoFin
                 /\ inbox'[Peer(f)].fin = NoFin /\ rcv'[Peer(f)].fin = NoFin
      <3>1. Unsent(snd[f])
        BY <2>1
      <3>2. inbox'[Peer(f)].fin = NoFin /\ rcv'[Peer(f)].fin = NoFin
        BY <1>1, <3>1 DEF FinMoves
      <3>3. ASSUME NEW p \in net', p.src = f, p.type = "ACK" PROVE p.fin = NoFin
        BY <2>1, <3>1, <3>3 DEF CInv, Launched, NewPacket
      <3>. QED  BY <3>2, <3>3
    <2>. QED  BY <2>1 DEF Launched, Unsent
  <1>7. FinsAgree'
    <2>1. ASSUME NEW f \in End
          PROVE  /\ ctl'[f].st \in FinHandled <=> rcv'[f].fin # NoFin
                 /\ ctl'[f].st \in FinAcked => rcv'[Peer(f)].fin # NoFin
      BY <1>1 DEF StateMoves, FinMoves
    <2>. QED  BY <2>1 DEF FinsAgree
  <1>8. RstsLate'
    <2>1. ASSUME NEW p \in net', p.type = "RST" PROVE ctl'[p.src].st = "RELEASED"
      BY <1>2, <2>1 DEF CInv, RstsLate, StateMoves, NewPacket
    <2>. QED  BY <2>1 DEF RstsLate
  <1>. QED  BY <1>3, <1>5, <1>6, <1>7, <1>8 DEF CInv

(* What does not change moves as it may. *)
LEMMA StaysPut ==
  ASSUME CInv, NEW e \in End
  PROVE  /\ StateMoves(e, ctl[e].st, rcv[e].fin)
         /\ FinMoves(e, rcv[e], inbox[e])
         /\ ctl[e].st \notin {"ABORTED", "ABORTED_RST"}
         /\ \A r : r.fin = rcv[e].fin => FinMoves(e, r, inbox[e])
         /\ Unsent(snd[Peer(e)]) => rcv[e].fin = NoFin /\ inbox[e].fin = NoFin
  <1>1. Peer(e) \in End /\ Peer(Peer(e)) = e
    BY PeerFacts
  <1>2. StateMoves(e, ctl[e].st, rcv[e].fin)
    BY DEF CInv, NoFalseAbort, FinsAgree, StateMoves
  <1>3. Unsent(snd[Peer(e)]) => rcv[e].fin = NoFin /\ inbox[e].fin = NoFin
    BY <1>1 DEF CInv, Launched
  <1>4. \A r : r.fin = rcv[e].fin => FinMoves(e, r, inbox[e])
    BY <1>3 DEF FinMoves
  <1>. QED  BY <1>2, <1>3, <1>4 DEF StateMoves

(* A step of one end. *)
LEMMA CloseMove ==
  ASSUME IInv, CInv, NEW e \in End, NEW c, NEW s, NEW r, NEW i,
         (ctl' = ctl /\ c = ctl[e]) \/ ctl' = [ctl EXCEPT ![e] = c],
         (snd' = snd /\ s = snd[e]) \/ snd' = [snd EXCEPT ![e] = s],
         (rcv' = rcv /\ r = rcv[e]) \/ rcv' = [rcv EXCEPT ![e] = r],
         (inbox' = inbox /\ i = inbox[e]) \/ inbox' = [inbox EXCEPT ![e] = i],
         StateMoves(e, c.st, r.fin), FinMoves(e, r, i), Unsent(s) => Unsent(snd[e]),
         \A p \in net' : p \in net \/ NewPacket(e, p, c.st, s)
  PROVE  CInv'
  <1>1. ctl'[e] = c /\ \A f \in End \ {e} : ctl'[f] = ctl[f]
    BY EndFacts
  <1>2. snd'[e] = s /\ \A f \in End \ {e} : snd'[f] = snd[f]
    BY EndFacts
  <1>3. rcv'[e] = r /\ \A f \in End \ {e} : rcv'[f] = rcv[f]
    BY EndFacts
  <1>4. inbox'[e] = i /\ \A f \in End \ {e} : inbox'[f] = inbox[f]
    BY EndFacts DEF RestOK
  <1>5. ASSUME NEW f \in End
        PROVE  /\ StateMoves(f, ctl'[f].st, rcv'[f].fin)
               /\ FinMoves(f, rcv'[f], inbox'[f])
               /\ Unsent(snd'[f]) => Unsent(snd[f])
    <2>1. CASE f = e
      BY <1>1, <1>2, <1>3, <1>4, <2>1
    <2>2. CASE f # e
      <3>1. ctl'[f] = ctl[f] /\ snd'[f] = snd[f] /\ rcv'[f] = rcv[f] /\ inbox'[f] = inbox[f]
        BY <1>1, <1>2, <1>3, <1>4, <2>2
      <3>. QED  BY <3>1, StaysPut
    <2>. QED  BY <2>1, <2>2
  <1>6. \A p \in net' : p \in net \/ NewPacket(e, p, ctl'[e].st, snd'[e])
    BY <1>1, <1>2
  <1>. QED  BY <1>5, <1>6, CloseStep

(* A step that moves only the state of e. *)
LEMMA CloseControl ==
  ASSUME IInv, CInv, NEW e \in End, NEW c,
         (ctl' = ctl /\ c = ctl[e]) \/ ctl' = [ctl EXCEPT ![e] = c],
         UNCHANGED <<snd, rcv, inbox>>, net' \subseteq net,
         StateMoves(e, c.st, rcv[e].fin)
  PROVE  CInv'
  BY CloseMove, StaysPut

(* A step of e that keeps its state, its fin and the peer's. *)
LEMMA CloseQuiet ==
  ASSUME IInv, CInv, NEW e \in End, NEW c, NEW s, NEW r,
         (ctl' = ctl /\ c = ctl[e]) \/ ctl' = [ctl EXCEPT ![e] = c],
         (snd' = snd /\ s = snd[e]) \/ snd' = [snd EXCEPT ![e] = s],
         (rcv' = rcv /\ r = rcv[e]) \/ rcv' = [rcv EXCEPT ![e] = r],
         inbox' = inbox, net' \subseteq net,
         c.st = ctl[e].st, s.fin = snd[e].fin, s.sendq = snd[e].sendq, r.fin = rcv[e].fin
  PROVE  CInv'
  <1>1. StateMoves(e, c.st, r.fin)
    BY StaysPut
  <1>2. FinMoves(e, r, inbox[e])
    BY StaysPut
  <1>3. Unsent(s) => Unsent(snd[e])
    BY DEF Unsent
  <1>. QED  BY <1>1, <1>2, <1>3, CloseMove

(* An end that keeps its state and both fins. *)
LEMMA KeepsFins ==
  ASSUME CInv, NEW e \in End, NEW c, c.st = ctl[e].st,
         NEW r, r.fin = rcv[e].fin, NEW i, i.fin = inbox[e].fin
  PROVE  StateMoves(e, c.st, r.fin) /\ FinMoves(e, r, i)
  <1>1. StateMoves(e, c.st, r.fin)
    BY StaysPut
  <1>2. FinMoves(e, r, i)
    BY StaysPut DEF FinMoves
  <1>. QED  BY <1>1, <1>2

(* The retries touch no list. *)
LEMMA PollClose == ASSUME IInv, CInv, NEW e \in End, Poll(e) PROVE CInv'
  <1> DEFINE s == IF snd[e].segWait THEN AllocateNextSendSegment(snd[e]) ELSE snd[e]
             c == IF snd[e].segWait /\ s.hasSeg THEN Raise(ctl[e], {"dataWrite"}) ELSE ctl[e]
             r == IF rcv[e].wait THEN AllocateNextRecvSegment(rcv[e]) ELSE rcv[e]
  <1>1. /\ snd' = [snd EXCEPT ![e] = s] /\ rcv' = [rcv EXCEPT ![e] = r]
        /\ inbox' = inbox /\ net' = net
    BY DEF Poll
  <1>2. ctl' = [ctl EXCEPT ![e] = c]
    <2>1. snd'[e] = s
      BY <1>1, EndFacts
    <2>. QED  BY <2>1, Zenon DEF Poll
  <1>3. Alike(snd[e], s)
    BY EndFacts, AllocateAlike, WatchFacts
  <1>4. c.st = ctl[e].st
    BY EndFacts, RaiseOK
  <1>5. r.fin = rcv[e].fin
    BY EndFacts, SameReadOps DEF SameRead
  <1>. HIDE DEF s, c, r
  <1>. QED  BY <1>1, <1>2, <1>3, <1>4, <1>5, CloseQuiet DEF Alike

(* A timeout moves segments from unacked to resend. *)
LEMMA TimeoutClose == ASSUME IInv, CInv, NEW e \in End, Timeout(e) PROVE CInv'
  <1> DEFINE s == HandleTimeout(snd[e])
             c == [ctl[e] EXCEPT !.timer = "future"]
  <1>1. /\ snd' = [snd EXCEPT ![e] = s] /\ ctl' = [ctl EXCEPT ![e] = c]
        /\ UNCHANGED <<rcv, inbox, net>>
    BY DEF Timeout
  <1>2. s.fin = snd[e].fin /\ s.sendq = snd[e].sendq
    BY EndFacts DEF HandleTimeout, SendOK, SendHalf
  <1>3. c.st = ctl[e].st
    BY EndFacts DEF Control
  <1>. HIDE DEF s, c
  <1>. QED  BY <1>1, <1>2, <1>3, CloseQuiet

(* Delivering an event to the application moves nothing. *)
LEMMA DispatchEventClose == ASSUME IInv, CInv, NEW e \in End, DispatchEvent(e) PROVE CInv'
  <1> DEFINE c == [ctl[e] EXCEPT !.ev = @ \ {FirstEvent(@)}]
  <1>1. ctl' = [ctl EXCEPT ![e] = c] /\ UNCHANGED <<snd, rcv, inbox, net>>
    BY DEF DispatchEvent
  <1>2. c.st = ctl[e].st
    BY EndFacts DEF Control
  <1>. HIDE DEF c
  <1>. QED  BY <1>1, <1>2, CloseQuiet

(* A timer that passes moves nothing else. *)
LEMMA EarlyTimerClose == ASSUME IInv, CInv, NEW e \in End, EarlyTimer(e) PROVE CInv'
  <1> DEFINE c == [ctl[e] EXCEPT !.timer = "now"]
  <1>1. ctl' = [ctl EXCEPT ![e] = c] /\ UNCHANGED <<snd, rcv, inbox, net>>
    BY DEF EarlyTimer
  <1>2. c.st = ctl[e].st
    BY EndFacts DEF Control
  <1>. HIDE DEF c
  <1>. QED  BY <1>1, <1>2, CloseQuiet

(* When every timer passes, CInv is kept.                                  *)
LEMMA SilenceClose == ASSUME IInv, CInv, Silence PROVE CInv'
  <1>1. /\ UNCHANGED <<snd, rcv, inbox, net>>
        /\ ctl' = [e \in End |-> IF ctl[e].timer = "future" THEN [ctl[e] EXCEPT !.timer = "now"] ELSE ctl[e]]
    BY DEF Silence
  <1>2. ASSUME NEW f \in End
        PROVE  /\ StateMoves(f, ctl'[f].st, rcv'[f].fin)
               /\ FinMoves(f, rcv'[f], inbox'[f])
               /\ Unsent(snd'[f]) => Unsent(snd[f])
    <2>1. ctl'[f].st = ctl[f].st
      <3>1. ctl'[f] = IF ctl[f].timer = "future" THEN [ctl[f] EXCEPT !.timer = "now"] ELSE ctl[f]
        BY <1>1
      <3>. QED  BY <3>1, EndFacts DEF Control
    <2>2. StateMoves(f, ctl[f].st, rcv[f].fin) /\ FinMoves(f, rcv[f], inbox[f])
      BY StaysPut
    <2>. QED  BY <1>1, <2>1, <2>2
  <1>3. Initiator \in End
    BY DEF End
  <1>. QED  BY <1>1, <1>2, <1>3, CloseStep

(* Reports of the allocators touch no list. *)
LEMMA SegmentAvailableClose == ASSUME IInv, CInv, NEW e \in End, SegmentAvailable(e) PROVE CInv'
  <1>1. inbox' = inbox /\ net' = net
    BY DEF SegmentAvailable
  <1>2. CASE rcv' = [rcv EXCEPT ![e] = AllocateNextRecvSegment(rcv[e])] /\ UNCHANGED <<ctl, snd>>
    <2> DEFINE r == AllocateNextRecvSegment(rcv[e])
    <2>1. r.fin = rcv[e].fin
      BY EndFacts, SameReadOps DEF SameRead
    <2>2. rcv' = [rcv EXCEPT ![e] = r]
      BY <1>2
    <2>. HIDE DEF r
    <2>. QED  BY <1>1, <1>2, <2>1, <2>2, CloseQuiet
  <1>3. CASE /\ snd' = [snd EXCEPT ![e] = AllocateNextSendSegment(snd[e])]
             /\ ctl' = [ctl EXCEPT ![e] = IF snd[e].segWait THEN Raise(ctl[e], {"dataWrite"}) ELSE ctl[e]]
             /\ rcv' = rcv
    <2> DEFINE s == AllocateNextSendSegment(snd[e])
               c == IF snd[e].segWait THEN Raise(ctl[e], {"dataWrite"}) ELSE ctl[e]
    <2>1. snd' = [snd EXCEPT ![e] = s] /\ ctl' = [ctl EXCEPT ![e] = c] /\ rcv' = rcv
      BY <1>3
    <2>2. Alike(snd[e], s) /\ c.st = ctl[e].st
      BY EndFacts, RaiseOK, AllocateAlike
    <2>. HIDE DEF s, c
    <2>. QED  BY <1>1, <2>1, <2>2, CloseQuiet DEF Alike
  <1>. QED  BY <1>2, <1>3 DEF SegmentAvailable

(* Reading takes no fin. *)
LEMMA ReadClose == ASSUME IInv, CInv, NEW e \in End, Read(e) PROVE CInv'
  <1> DEFINE r == ReadSegment(rcv[e])
  <1>1. rcv' = [rcv EXCEPT ![e] = r] /\ UNCHANGED <<ctl, snd, inbox, net>>
    BY DEF Read
  <1>2. r.fin = rcv[e].fin
    BY EndFacts DEF ReadSegment, RecvHalf
  <1>. HIDE DEF r
  <1>. QED  BY <1>1, <1>2, CloseQuiet

(* Nothing but packets that leave the network. *)
LEMMA NetClose == ASSUME IInv, CInv, UNCHANGED <<ctl, snd, rcv, inbox>>, net' \subseteq net PROVE CInv'
  <1>1. Initiator \in End
    BY DEF End
  <1>. QED  BY <1>1, CloseQuiet

(* RecvAckWithoutNonce keeps CInv.                                         *)
LEMMA RecvAckWithoutNonceClose ==
  ASSUME IInv, CInv, NEW e \in End, NEW p \in net, RecvAckWithoutNonce(e, p) PROVE CInv'
  <1> DEFINE r == NoteStamp(rcv[e], p.stamp)
  <1>1. /\ rcv' = [rcv EXCEPT ![e] = r] /\ UNCHANGED <<ctl, snd, inbox>>
    BY DEF RecvAckWithoutNonce
  <1>2. net' \subseteq net
    BY DEF RecvAckWithoutNonce, Arrives
  <1>3. r.fin = rcv[e].fin
    BY EndFacts, SameReadOps DEF SameRead
  <1>. HIDE DEF r
  <1>. QED  BY <1>1, <1>2, <1>3, CloseQuiet

(* An application that can write has not closed, so there is no fin. *)
LEMMA WriteClose ==
  ASSUME IInv, OInv, CInv, NEW e \in End, NEW n \in 1..MaxSegsPerWrite, Write(e, n) PROVE CInv'
  <1> DEFINE s == WriteSegments(snd[e], n)
             c == [ctl[e] EXCEPT !.timer = IF @ = "inf" THEN "future" ELSE @]
  <1>1. /\ ctl' = [ctl EXCEPT ![e] = c] /\ snd' = [snd EXCEPT ![e] = s]
        /\ UNCHANGED <<rcv, inbox, net>>
    BY DEF Write
  <1>2. c.st = ctl[e].st
    BY EndFacts DEF Control
  <1>3. snd[e].fin = NoSeq
    BY OrderFacts DEF Write, Framed, WritableStates, ClosingStates, ClosedStates
  <1>4. Unsent(snd[e])
    BY <1>3 DEF Unsent
  <1>5. StateMoves(e, c.st, rcv[e].fin) /\ FinMoves(e, rcv[e], inbox[e])
    BY <1>2, StaysPut
  <1>. HIDE DEF s, c
  <1>. QED  BY <1>1, <1>4, <1>5, CloseMove

(* Data does not carry a fin. *)
LEMMA HandleDataFin ==
  ASSUME NEW r, RecvOK(r), NEW q \in Nat
  PROVE  HandleData(r, q).fin = r.fin
  <1> DEFINE f == FindRecvBuffer(r, q)
  <1>1. f \in RecvHalf /\ f.fin = r.fin /\ r \in RecvHalf
    BY FindRecvBufferOK, FindRecvBufferSame DEF RecvOK, SameRead
  <1>2. HandleData(r, q) =
          IF q <= r.top THEN [r EXCEPT !.ackNow = TRUE]
          ELSE IF BufferFound(r, q) /\ q \notin f.filled THEN PlaceSegment(f, q)
          ELSE [f EXCEPT !.ackNow = TRUE]
    BY DEF HandleData
  <1>. HIDE DEF f
  <1>3. PlaceSegment(f, q).fin = f.fin
    BY <1>1 DEF PlaceSegment, MoveToRead, RecvHalf
  <1>4. [r EXCEPT !.ackNow = TRUE].fin = r.fin /\ [f EXCEPT !.ackNow = TRUE].fin = f.fin
    BY <1>1 DEF RecvHalf
  <1>. QED  BY <1>1, <1>2, <1>3, <1>4

(* ParseData keeps CInv.                                                   *)
LEMMA ParseDataClose == ASSUME IInv, CInv, NEW e \in End, ParseData(e) PROVE CInv'
  <1> DEFINE q == CHOOSE x \in inbox[e].data : \A y \in inbox[e].data : x <= y
             rest == inbox[e].data \ {q}
             takes == /\ inbox[e].size <= opt[e].maxRecv
                      /\ ctl[e].st \in {"ESTABLISHED", "CLOSE_WAIT", "FIN_WAIT_1", "FIN_WAIT_2"}
             r == IF takes THEN HandleData(rcv[e], q) ELSE rcv[e]
             i == [inbox[e] EXCEPT !.data = rest, !.size = IF rest = {} THEN 0 ELSE @]
  <1>1. /\ rcv' = [rcv EXCEPT ![e] = r] /\ snd' = snd /\ net' = net
        /\ inbox' = [inbox EXCEPT ![e] = i]
    BY DEF ParseData
  <1>2. PICK c \in {ctl[e], Raise(ctl[e], {"dataReady"})} : ctl' = [ctl EXCEPT ![e] = c]
    BY DEF ParseData
  <1>3. c.st = ctl[e].st
    BY EndFacts, RaiseOK
  <1>4. i.fin = inbox[e].fin
    BY EndFacts DEF RestOK, Inbox
  <1>5. q \in Nat
    <2>1. inbox[e].data \in SUBSET Nat /\ inbox[e].data # {}
      BY EndFacts DEF RestOK, Inbox, ParseData
    <2>2. \E x \in inbox[e].data : \A y \in inbox[e].data : x <= y
      BY <2>1, LeastElement
    <2>. QED  BY <2>1, <2>2
  <1>. HIDE DEF q, i, takes
  <1>6. r.fin = rcv[e].fin
    BY <1>5, EndFacts, HandleDataFin
  <1>. HIDE DEF r
  <1>7. StateMoves(e, c.st, r.fin) /\ FinMoves(e, r, i)
    BY <1>3, <1>4, <1>6, KeepsFins
  <1>. QED  BY <1>1, <1>2, <1>7, CloseMove

(* A fin in a packet has left the send list. *)
LEMMA SegmentsClose ==
  ASSUME IInv, CInv, NEW e \in End, ctl[e].st \notin {"IDLE", "SYN_SENT"},
         NEW out, out \subseteq Sendable(snd[e]),
         NEW s, s.fin = snd[e].fin, s.sendq = snd[e].sendq \ out,
         NEW c, c.st = ctl[e].st, (ctl' = ctl /\ c = ctl[e]) \/ ctl' = [ctl EXCEPT ![e] = c],
         snd' = [snd EXCEPT ![e] = s],
         rcv' = [rcv EXCEPT ![e].ackNow = FALSE], inbox' = inbox,
         net' = net \cup {AckPacket(e, out)}
  PROVE  CInv'
  <1> DEFINE r == [rcv[e] EXCEPT !.ackNow = FALSE]
             p == AckPacket(e, out)
  <1>1. rcv' = [rcv EXCEPT ![e] = r]
    OBVIOUS
  <1>2. r.fin = rcv[e].fin
    BY EndFacts, SameReadOps DEF SameRead
  <1>3. p.src = e /\ p.type = "ACK" /\ p.fin = IF snd[e].fin \in out THEN snd[e].fin ELSE NoFin
    BY DEF AckPacket
  <1>4. snd[e].fin \in out => snd[e].fin # NoSeq
    <2>1. out \subseteq Outstanding(snd[e])
      BY EndFacts DEF Sendable, Outstanding, SendOK
    <2>2. Outstanding(snd[e]) \subseteq 1 .. snd[e].xmit
      BY EndFacts DEF SendOK
    <2>3. 0 \notin 1 .. snd[e].xmit
      OBVIOUS
    <2>. QED  BY <2>1, <2>2, <2>3 DEF NoSeq
  <1>5. p.fin = NoFin \/ ~Unsent(s)
    BY <1>3, <1>4 DEF Unsent
  <1>6. Unsent(s) => Unsent(snd[e])
    BY DEF Unsent
  <1>. HIDE DEF r, p
  <1>7. NewPacket(e, p, c.st, s)
    BY <1>3, <1>5 DEF NewPacket, CInv, Known
  <1>8. StateMoves(e, c.st, r.fin) /\ FinMoves(e, r, inbox[e])
    BY <1>2, KeepsFins
  <1>9. \A x \in net' : x \in net \/ NewPacket(e, x, c.st, s)
    BY <1>7 DEF p
  <1>. QED  BY <1>1, <1>6, <1>8, <1>9, CloseMove

(* What write_data_to_packet does to the fin and the send list. *)
LEMMA WrittenOut ==
  ASSUME NEW s, SendOK(s), NEW out
  PROVE  LET t == WriteDataToPacket(s, out)
         IN  /\ t.fin = s.fin /\ t.sendq = s.sendq \ out
             /\ [t EXCEPT !.probed = TRUE].fin = s.fin
             /\ [t EXCEPT !.probed = TRUE].sendq = s.sendq \ out
  BY DEF WriteDataToPacket, SendOK, SendHalf

(* SendData keeps CInv.                                                    *)
LEMMA SendDataClose == ASSUME IInv, CInv, NEW e \in End, SendData(e) PROVE CInv'
  <1>1. PICK out \in Fills(e) :
          /\ net' = net \cup {AckPacket(e, out)}
          /\ snd' = [snd EXCEPT ![e] = [WriteDataToPacket(@, out) EXCEPT !.probed = TRUE]]
    BY DEF SendData
  <1> DEFINE s == [WriteDataToPacket(snd[e], out) EXCEPT !.probed = TRUE]
             c == [ctl[e] EXCEPT !.timer = "future"]
  <1>2. snd' = [snd EXCEPT ![e] = s] /\ ctl' = [ctl EXCEPT ![e] = c]
    BY <1>1 DEF SendData
  <1>3. c.st = ctl[e].st
    BY EndFacts DEF Control
  <1>4. s.fin = snd[e].fin /\ s.sendq = snd[e].sendq \ out
    BY EndFacts, WrittenOut
  <1>5. ctl[e].st \notin {"IDLE", "SYN_SENT"}
    BY DEF SendData, Turn, NextEvent, TransmitStates
  <1>6. out \subseteq Sendable(snd[e])
    BY DEF Fills
  <1>7. rcv' = [rcv EXCEPT ![e].ackNow = FALSE] /\ inbox' = inbox
    BY DEF SendData
  <1>8. net' = net \cup {AckPacket(e, out)}
    BY <1>1
  <1>. HIDE DEF s, c
  <1>. QED  BY <1>2, <1>3, <1>4, <1>5, <1>6, <1>7, <1>8, SegmentsClose

(* SendAck keeps CInv.                                                     *)
LEMMA SendAckClose == ASSUME IInv, CInv, NEW e \in End, SendAck(e) PROVE CInv'
  <1>1. PICK out \in Fills(e) :
          /\ net' = net \cup {AckPacket(e, out)}
          /\ snd' = [snd EXCEPT ![e] = WriteDataToPacket(@, out)]
    BY DEF SendAck
  <1> DEFINE s == WriteDataToPacket(snd[e], out)
  <1>2. snd' = [snd EXCEPT ![e] = s] /\ ctl' = ctl
    BY <1>1 DEF SendAck
  <1>3. s.fin = snd[e].fin /\ s.sendq = snd[e].sendq \ out
    BY EndFacts, WrittenOut
  <1>4. ctl[e].st \notin {"IDLE", "SYN_SENT"}
    BY DEF SendAck, Turn, NextEvent, OpenStates
  <1>5. out \subseteq Sendable(snd[e])
    BY DEF Fills
  <1>6. rcv' = [rcv EXCEPT ![e].ackNow = FALSE] /\ inbox' = inbox
    BY DEF SendAck
  <1>. HIDE DEF s
  <1>. QED  BY <1>1, <1>2, <1>3, <1>4, <1>5, <1>6, SegmentsClose

(* A syn or syn|ack takes nothing along. *)
LEMMA StampedClose ==
  ASSUME IInv, CInv, NEW e \in End, NEW p,
         snd' = [snd EXCEPT ![e].clock = @ + 1], ctl' = [ctl EXCEPT ![e].timer = "future"],
         UNCHANGED <<rcv, inbox>>, net' = net \cup {p}, p.src = e,
         \/ p.type = "SYN" /\ ctl[e].st = "SYN_SENT"
         \/ p.type = "SYN_ACK" /\ ctl[e].st = "SYN_RCVD"
  PROVE  CInv'
  <1> DEFINE s == [snd[e] EXCEPT !.clock = @ + 1]
             c == [ctl[e] EXCEPT !.timer = "future"]
  <1>1. snd' = [snd EXCEPT ![e] = s] /\ ctl' = [ctl EXCEPT ![e] = c]
    OBVIOUS
  <1>2. s.fin = snd[e].fin /\ s.sendq = snd[e].sendq
    BY EndFacts DEF SendOK, SendHalf
  <1>3. c.st = ctl[e].st
    BY EndFacts DEF Control
  <1>. HIDE DEF s, c
  <1>4. NewPacket(e, p, c.st, s)
    BY <1>3 DEF NewPacket, CInv, Known
  <1>5. StateMoves(e, c.st, rcv[e].fin) /\ FinMoves(e, rcv[e], inbox[e])
    BY <1>3, StaysPut
  <1>6. Unsent(s) => Unsent(snd[e])
    BY <1>2 DEF Unsent
  <1>7. \A x \in net' : x \in net \/ NewPacket(e, x, c.st, s)
    BY <1>4
  <1>. QED  BY <1>1, <1>5, <1>6, <1>7, CloseMove

(* SendSyn keeps CInv.                                                     *)
LEMMA SendSynClose == ASSUME IInv, CInv, NEW e \in End, SendSyn(e) PROVE CInv'
  <1> DEFINE p == [type |-> "SYN", src |-> e, stamp |-> snd[e].clock, seq |-> StartSeq[e],
                   maxSend |-> opt[e].maxSend, maxRecv |-> opt[e].maxRecv,
                   nonce |-> ~opt[e].replayOff]
  <1>1. net' = net \cup {p} /\ UNCHANGED <<rcv, inbox>>
    BY DEF SendSyn
  <1>2. /\ snd' = [snd EXCEPT ![e].clock = @ + 1] /\ ctl' = [ctl EXCEPT ![e].timer = "future"]
    BY DEF SendSyn
  <1>3. ctl[e].st = "SYN_SENT"
    BY DEF SendSyn, Turn, NextEvent
  <1>4. p.src = e /\ p.type = "SYN"
    OBVIOUS
  <1>. HIDE DEF p
  <1>. QED  BY <1>1, <1>2, <1>3, <1>4, StampedClose

(* SendSynAck keeps CInv.                                                  *)
LEMMA SendSynAckClose == ASSUME IInv, CInv, NEW e \in End, SendSynAck(e) PROVE CInv'
  <1> DEFINE p == [type |-> "SYN_ACK", src |-> e, stamp |-> snd[e].clock, seq |-> StartSeq[e],
                   maxSend |-> opt[e].maxSend, maxRecv |-> opt[e].maxRecv,
                   nonce |-> ~opt[e].replayOff, ack |-> AckExtension(rcv[e])]
  <1>1. net' = net \cup {p} /\ UNCHANGED <<rcv, inbox>>
    BY DEF SendSynAck
  <1>2. /\ snd' = [snd EXCEPT ![e].clock = @ + 1] /\ ctl' = [ctl EXCEPT ![e].timer = "future"]
    BY DEF SendSynAck
  <1>3. ctl[e].st = "SYN_RCVD"
    BY DEF SendSynAck, Turn, NextEvent
  <1>4. p.src = e /\ p.type = "SYN_ACK"
    OBVIOUS
  <1>. HIDE DEF p
  <1>. QED  BY <1>1, <1>2, <1>3, <1>4, StampedClose
-----------------------------------------------------------------------------
(* An opening stream has no fin of the peer. *)
LEMMA OpeningMove ==
  ASSUME CInv, NEW e \in End, ctl[e].st \in {"IDLE"} \cup OpeningStates,
         NEW new \in OpeningStates \cup {"ESTABLISHED"},
         \/ new = "SYN_SENT" \/ ctl[e].st \notin {"IDLE", "SYN_SENT"} \/ ctl[Peer(e)].st # "IDLE"
  PROVE  StateMoves(e, new, rcv[e].fin)
  <1>1. rcv[e].fin = NoFin
    BY DEF CInv, FinsAgree, FinHandled, OpeningStates
  <1>2. new \notin FinHandled /\ new \notin FinAcked /\ new \notin {"IDLE", "ABORTED", "ABORTED_RST"}
    BY DEF FinHandled, FinAcked, OpeningStates
  <1>3. ctl[e].st # "RELEASED"
    BY DEF OpeningStates
  <1>. QED  BY <1>1, <1>2, <1>3 DEF StateMoves

(* QueueAccept keeps CInv.                                                 *)
LEMMA QueueAcceptClose == ASSUME IInv, CInv, NEW e \in End, QueueAccept(e) PROVE CInv'
  <1> DEFINE c == Transition(ctl[e], "WAIT_ACCEPT")
  <1>1. ctl' = [ctl EXCEPT ![e] = c] /\ UNCHANGED <<snd, rcv, inbox, net>>
    BY DEF QueueAccept
  <1>2. ctl[e].st = "ACCEPT"
    BY DEF QueueAccept, Turn, NextEvent
  <1>3. c.st = "WAIT_ACCEPT"
    BY EndFacts, TransitionOK DEF StreamStates, OpeningStates
  <1>. HIDE DEF c
  <1>4. StateMoves(e, c.st, rcv[e].fin)
    BY <1>2, <1>3, OpeningMove DEF OpeningStates
  <1>. QED  BY <1>1, <1>4, CloseControl

(* Open keeps CInv.                                                        *)
LEMMA OpenClose == ASSUME IInv, CInv, NEW e \in End, Open(e) PROVE CInv'
  <1> DEFINE c == Transition(ctl[e], "SYN_SENT")
             s == [snd[e] EXCEPT !.xmit = StartSeq[e]]
  <1>1. /\ ctl' = [ctl EXCEPT ![e] = c] /\ snd' = [snd EXCEPT ![e] = s] /\ ctl[e].st = "IDLE"
        /\ UNCHANGED <<rcv, inbox, net>>
    BY DEF Open
  <1>2. s.fin = snd[e].fin /\ s.sendq = snd[e].sendq
    BY EndFacts DEF SendOK, SendHalf
  <1>3. c.st = "SYN_SENT"
    BY EndFacts, TransitionOK DEF StreamStates, OpeningStates
  <1>. HIDE DEF c, s
  <1>4. StateMoves(e, c.st, rcv[e].fin)
    BY <1>1, <1>3, OpeningMove DEF OpeningStates
  <1>5. FinMoves(e, rcv[e], inbox[e])
    BY StaysPut
  <1>6. Unsent(s) => Unsent(snd[e])
    BY <1>2 DEF Unsent
  <1>. QED  BY <1>1, <1>4, <1>5, <1>6, CloseMove

(* Accept keeps CInv.                                                      *)
LEMMA AcceptClose == ASSUME IInv, CInv, NEW e \in End, Accept(e) PROVE CInv'
  <1> DEFINE c == Transition(ctl[e], "SYN_RCVD")
             n == [snd[e] EXCEPT !.xmit = StartSeq[e]]
             s == AllocateNextSendSegment(n)
             r == AllocateNextRecvSegment(rcv[e])
  <1>1. /\ ctl' = [ctl EXCEPT ![e] = c] /\ snd' = [snd EXCEPT ![e] = s] /\ rcv' = [rcv EXCEPT ![e] = r]
        /\ ctl[e].st \in {"WAIT_ACCEPT", "ACCEPT"} /\ UNCHANGED <<inbox, net>>
    BY DEF Accept
  <1>2. n.fin = snd[e].fin /\ n.sendq = snd[e].sendq
    BY EndFacts DEF SendOK, SendHalf
  <1>3. SendOK(n)
    <2>1. Outstanding(snd[e]) = {} /\ StartSeq[e] \in Nat
      BY <1>1, EndFacts, PairAssumption DEF Fresh, Unopened
    <2>. QED  BY <2>1, EndFacts, StartOK
  <1>. HIDE DEF n
  <1>4. s.fin = snd[e].fin /\ s.sendq = snd[e].sendq
    BY <1>2, <1>3, AllocateAlike DEF Alike
  <1>5. c.st = "SYN_RCVD"
    BY EndFacts, TransitionOK DEF StreamStates, OpeningStates
  <1>6. r.fin = rcv[e].fin
    BY EndFacts, SameReadOps DEF SameRead
  <1>. HIDE DEF c, s, r
  <1>7. StateMoves(e, c.st, r.fin)
    BY <1>1, <1>5, <1>6, OpeningMove DEF OpeningStates
  <1>8. FinMoves(e, r, inbox[e])
    BY <1>6, StaysPut
  <1>9. Unsent(s) => Unsent(snd[e])
    BY <1>4 DEF Unsent
  <1>. QED  BY <1>1, <1>7, <1>8, <1>9, CloseMove

(* A packet comes from a stream that exists. *)
LEMMA ArrivesClose ==
  ASSUME IInv, CInv, NEW e \in End, NEW p \in net, NEW type, Arrives(e, p, type)
  PROVE  /\ net' \subseteq net /\ p.src = Peer(e) /\ p.type = type /\ p \in Packets
         /\ ctl[Peer(e)].st # "IDLE" /\ ctl[e].st # "RELEASED"
         /\ env'.aborts = env.aborts /\ env'.deaths = env.deaths
  <1>1. net' \subseteq net /\ p.src = Peer(e) /\ p.type = type /\ ctl[e].st # "RELEASED"
    BY DEF Arrives
  <1>2. ctl[Peer(e)].st # "IDLE"
    BY <1>1 DEF CInv, Known
  <1>3. env'.aborts = env.aborts /\ env'.deaths = env.deaths
    BY EndFacts DEF Arrives, RestOK, EnvType
  <1>. QED  BY <1>1, <1>2, <1>3, EndFacts DEF NetSafe

(* RecvSyn keeps CInv.                                                     *)
LEMMA RecvSynClose == ASSUME IInv, CInv, NEW e \in End, NEW p \in net, RecvSyn(e, p) PROVE CInv'
  <1>1. net' \subseteq net /\ ctl[Peer(e)].st # "IDLE"
    BY ArrivesClose DEF RecvSyn
  <1>2. snd' = snd /\ inbox' = inbox
    BY DEF RecvSyn
  <1>3. CASE ctl[e].st = "IDLE"
    <2> DEFINE c == Transition(ctl[e], "ACCEPT")
               r == AnchorRecv(rcv[e], p.seq, p.stamp)
    <2>1. ctl' = [ctl EXCEPT ![e] = c] /\ rcv' = [rcv EXCEPT ![e] = r]
      BY <1>3, Zenon DEF RecvSyn
    <2>2. c.st = "ACCEPT"
      BY EndFacts, TransitionOK DEF StreamStates, OpeningStates
    <2>3. r.fin = rcv[e].fin
      BY EndFacts DEF AnchorRecv, RecvHalf
    <2>. HIDE DEF c, r
    <2>4. StateMoves(e, c.st, r.fin)
      BY <1>1, <1>3, <2>2, <2>3, OpeningMove DEF OpeningStates
    <2>5. FinMoves(e, r, inbox[e])
      BY <2>3, StaysPut
    <2>. QED  BY <1>1, <1>2, <2>1, <2>4, <2>5, CloseMove
  <1>4. CASE ctl[e].st # "IDLE"
    <2> DEFINE c == IF ctl[e].st = "SYN_RCVD" THEN [ctl[e] EXCEPT !.timer = "now"] ELSE ctl[e]
               r == NoteStamp(rcv[e], p.stamp)
    <2>1. /\ rcv' = [rcv EXCEPT ![e] = r]
          /\ (ctl' = ctl /\ c = ctl[e]) \/ ctl' = [ctl EXCEPT ![e] = c]
      BY <1>4 DEF RecvSyn
    <2>2. c.st = ctl[e].st
      BY EndFacts, TimerOK DEF Timers
    <2>3. r.fin = rcv[e].fin
      BY EndFacts, SameReadOps DEF SameRead
    <2>. HIDE DEF c, r
    <2>. QED  BY <1>1, <1>2, <2>1, <2>2, <2>3, CloseQuiet
  <1>. QED  BY <1>3, <1>4

(* TIME_WAIT does not wait. *)
LEMMA TimeWaitClose == ASSUME IInv, CInv, NEW e \in End, TimeWait(e) PROVE CInv'
  <1> DEFINE c == Transition(ctl[e], "CLOSED")
  <1>1. ctl' = [ctl EXCEPT ![e] = c] /\ UNCHANGED <<snd, rcv, inbox, net>>
    BY DEF TimeWait
  <1>2. ctl[e].st = "TIME_WAIT"
    BY DEF TimeWait, Turn, NextEvent
  <1>3. c.st = "CLOSED"
    BY EndFacts, TransitionOK DEF StreamStates, ClosedStates
  <1>. HIDE DEF c
  <1>4. rcv[e].fin # NoFin /\ rcv[Peer(e)].fin # NoFin
    BY <1>2 DEF CInv, FinsAgree, FinHandled, FinAcked
  <1>5. StateMoves(e, c.st, rcv[e].fin)
    BY <1>2, <1>3, <1>4 DEF StateMoves, FinHandled
  <1>. QED  BY <1>1, <1>5, CloseControl

(* Closing an open stream puts a fin on the send list or leaves it for     *)
(* later.                                                                  *)
LEMMA CloseClose == ASSUME IInv, OInv, CInv, Undisturbed, NEW e \in End, Close(e) PROVE CInv'
  <1>1. UNCHANGED <<rcv, inbox, net>>
    BY DEF Close
  <1>2. CASE ctl[e].st \in {"ESTABLISHED", "CLOSE_WAIT"}
    <2> DEFINE s == FinOnClose(snd[e])
               c == Transition(ctl[e], IF ctl[e].st = "ESTABLISHED" THEN "FIN_WAIT_1" ELSE "LAST_ACK")
    <2>1. /\ snd' = [snd EXCEPT ![e] = s] /\ ctl' = [ctl EXCEPT ![e] = c]
      BY <1>2 DEF Close, OpeningStates
    <2>2. \/ ctl[e].st = "ESTABLISHED" /\ c.st = "FIN_WAIT_1"
          \/ ctl[e].st = "CLOSE_WAIT" /\ c.st = "LAST_ACK"
      BY <1>2, EndFacts, TransitionOK DEF StreamStates, OpenStates
    <2>. HIDE DEF s, c
    <2>3. Unsent(snd[e])
      BY <1>2, OrderFacts DEF Unsent, Framed, ClosingStates, ClosedStates
    <2>4. StateMoves(e, c.st, rcv[e].fin)
      BY <2>2 DEF StateMoves, CInv, FinsAgree, FinHandled, FinAcked
    <2>5. FinMoves(e, rcv[e], inbox[e])
      BY StaysPut
    <2>. QED  BY <1>1, <2>1, <2>3, <2>4, <2>5, CloseMove
  <1>3. CASE ctl[e].st \notin {"ESTABLISHED", "CLOSE_WAIT"}
    <2>1. ctl[e].st \in OpeningStates /\ env' = [env EXCEPT !.aborts = @ - 1]
      BY <1>3 DEF Close
    <2>2. env.aborts \in Nat /\ env \in EnvType /\ MaxAborts \in Nat
      BY EndFacts, PairAssumption DEF RestOK, EnvType
    <2>3. env'.aborts = env.aborts - 1
      BY <2>1, <2>2 DEF EnvType
    <2> DEFINE n == env.aborts
    <2>4. n = n - 1 /\ n \in Nat
      BY <2>2, <2>3 DEF Undisturbed
    <2>. HIDE DEF n
    <2>. QED  BY <2>4
  <1>. QED  BY <1>2, <1>3

(* No connection dies. *)
LEMMA ConnectionDiedClose == ASSUME IInv, Undisturbed, NEW e \in End, ConnectionDied(e) PROVE CInv'
  <1> DEFINE n == env.deaths
  <1>1. env' = [env EXCEPT !.deaths = n - 1] /\ env \in EnvType
    BY EndFacts DEF ConnectionDied, RestOK
  <1>2. n \in Nat
    BY <1>1, PairAssumption DEF EnvType
  <1>3. env'.deaths = n - 1
    BY <1>1 DEF EnvType
  <1>4. n = n - 1
    BY <1>3 DEF Undisturbed
  <1>. HIDE DEF n
  <1>. QED  BY <1>2, <1>4

(* What the integrator releases is closed, and no rst is sent. *)
LEMMA ReleaseClose == ASSUME IInv, CInv, Undisturbed, NEW e \in End, Release(e) PROVE CInv'
  <1> DEFINE c == [st |-> "RELEASED", timer |-> "inf", ev |-> {}]
  <1>1. ctl' = [ctl EXCEPT ![e] = c] /\ UNCHANGED <<snd, rcv, inbox>>
    BY DEF Release
  <1>2. Finished(e)
    <2>1. SUFFICES ASSUME env' = [env EXCEPT !.aborts = @ - 1] PROVE FALSE
      BY DEF Release
    <2> DEFINE n == env.aborts
    <2>2. env \in EnvType
      BY EndFacts DEF RestOK
    <2>3. n \in Nat
      BY <2>2, PairAssumption DEF EnvType
    <2>4. env'.aborts = n - 1
      BY <2>1, <2>2 DEF EnvType
    <2>5. n = n - 1
      BY <2>4 DEF Undisturbed
    <2>. HIDE DEF n
    <2>. QED  BY <2>3, <2>5
  <1>3. ctl[e].st = "CLOSED"
    BY <1>2 DEF Finished, ClosedStates, CInv, NoFalseAbort
  <1>4. net' = net
    BY <1>3 DEF Release, StopShouldSendRst
  <1>5. c.st = "RELEASED"
    OBVIOUS
  <1>. HIDE DEF c
  <1>6. StateMoves(e, c.st, rcv[e].fin)
    BY <1>3, <1>5 DEF StateMoves, CInv, FinsAgree, FinHandled, FinAcked
  <1>. QED  BY <1>1, <1>4, <1>6, CloseControl

(* A stream that never existed gets nothing but a syn. *)
LEMMA AnswerRstClose == ASSUME IInv, CInv, NEW e \in End, NEW p \in net, AnswerRst(e, p) PROVE CInv'
  <1>1. /\ p.src = Peer(e) /\ UNCHANGED <<ctl, snd, rcv, inbox>>
        /\ ctl[e].st = "RELEASED" \/ (ctl[e].st = "IDLE" /\ p.type # "SYN")
        /\ net' = (net \ {p}) \cup (IF p.type = "RST" THEN {} ELSE {RstPacket(e)})
    BY DEF AnswerRst
  <1>2. ctl[e].st = "RELEASED" /\ ctl[Peer(e)].st # "IDLE"
    BY <1>1, PeerFacts DEF CInv, Known
  <1>3. NewPacket(e, RstPacket(e), ctl[e].st, snd[e])
    BY <1>2 DEF NewPacket, RstPacket
  <1>4. StateMoves(e, ctl[e].st, rcv[e].fin) /\ FinMoves(e, rcv[e], inbox[e])
    BY StaysPut
  <1>5. \A x \in net' : x \in net \/ NewPacket(e, x, ctl[e].st, snd[e])
    BY <1>1, <1>3
  <1>. QED  BY <1>1, <1>4, <1>5, CloseMove

(* An rst finds nothing but the fin unacknowledged. *)
LEMMA RecvRstClose ==
  ASSUME IInv, OInv, CInv, NEW e \in End, NEW p \in net, RecvRst(e, p) PROVE CInv'
  <1>1. /\ net' \subseteq net /\ p.src = Peer(e) /\ p.type = "RST" /\ ctl[e].st # "RELEASED"
    BY ArrivesClose DEF RecvRst
  <1>2. UNCHANGED <<snd, rcv, inbox>> /\ ctl[e].st # "IDLE"
    BY DEF RecvRst
  <1>3. Peer(e) \in End /\ Peer(Peer(e)) = e
    BY PeerFacts
  <1>4. ctl[Peer(e)].st = "RELEASED"
    BY <1>1 DEF CInv, RstsLate
  <1>5. rcv[Peer(e)].fin # NoFin /\ rcv[e].fin # NoFin
    BY <1>3, <1>4 DEF CInv, FinsAgree, FinHandled, FinAcked
  <1>6. ctl[e].st \in FinHandled
    BY <1>5 DEF CInv, FinsAgree
  <1>7. snd[e].fin # NoSeq /\ snd[e].fin \notin snd[e].sendq
    BY <1>3, <1>5 DEF CInv, Launched, Unsent
  <1>8. ctl[e].st # "CLOSE_WAIT" /\ Outstanding(snd[e]) \subseteq {snd[e].fin}
    BY <1>7, OrderFacts DEF Framed, ClosingStates, ClosedStates
  <1>9. FinIsNext(snd[e])
    <2>1. CASE Outstanding(snd[e]) = {}
      BY <2>1 DEF FinIsNext
    <2>2. CASE Outstanding(snd[e]) # {}
      <3>1. snd[e].fin \in snd[e].unacked /\ snd[e].unacked \subseteq {snd[e].fin}
        BY <1>7, <1>8, <2>2 DEF Outstanding
      <3>2. snd[e].fin \in Nat
        BY EndFacts DEF SendOK, SendHalf
      <3> DEFINE q == snd[e].fin
      <3>3. q <= q
        <4>1. q \in Nat
          BY <3>2
        <4>. HIDE DEF q
        <4>. QED  BY <4>1
      <3>. QED  BY <3>1, <3>3 DEF FinIsNext
    <2>. QED  BY <2>1, <2>2
  <1>10. ctl[e].st \in {"LAST_ACK", "CLOSING", "TIME_WAIT", "CLOSED"}
    BY <1>1, <1>6, <1>8 DEF FinHandled
  <1>11. PICK c \in {ctl[e], Transition(ctl[e], "CLOSED")} :
            ctl' = [ctl EXCEPT ![e] = c] /\ (c = ctl[e] => ctl[e].st = "CLOSED")
    <2>1. CASE ctl[e].st = "CLOSED"
      BY <2>1 DEF RecvRst, ClosedStates
    <2>2. CASE ctl[e].st # "CLOSED"
      <3>1. ctl' = [ctl EXCEPT ![e] = Transition(ctl[e], "CLOSED")]
        BY <1>9, <1>10, <2>2 DEF RecvRst, ClosedStates
      <3>2. Transition(ctl[e], "CLOSED") # ctl[e]
        BY <2>2, EndFacts, TransitionOK DEF StreamStates, ClosedStates
      <3>. QED  BY <3>1, <3>2
    <2>. QED  BY <2>1, <2>2
  <1>12. c.st = "CLOSED"
    BY <1>11, EndFacts, TransitionOK DEF StreamStates, ClosedStates
  <1>13. StateMoves(e, c.st, rcv[e].fin)
    BY <1>1, <1>5, <1>10, <1>12 DEF StateMoves, FinHandled
  <1>. QED  BY <1>1, <1>2, <1>11, <1>13, CloseControl
-----------------------------------------------------------------------------
(* The fin of the peer. *)
LEMMA ParseFinClose == ASSUME IInv, OInv, CInv, NEW e \in End, ParseFin(e) PROVE CInv'
  <1> DEFINE q == inbox[e].fin
  <1>1. inbox' = [inbox EXCEPT ![e] = EmptyInbox] /\ UNCHANGED <<snd, net>> /\ q # NoFin
    BY DEF ParseFin
  <1>2. ~Unsent(snd[Peer(e)]) /\ EmptyInbox.fin = NoFin
    BY <1>1, StaysPut DEF EmptyInbox
  <1>3. \A r : (rcv[e].fin # NoFin => r.fin # NoFin) => FinMoves(e, r, EmptyInbox)
    BY <1>2 DEF FinMoves
  <1>4. CASE ctl[e].st \in {"ESTABLISHED", "FIN_WAIT_1", "FIN_WAIT_2"}
    <2> DEFINE r == HandleFin(rcv[e], q)
    <2>1. /\ rcv' = [rcv EXCEPT ![e] = r]
          /\ ctl' = [ctl EXCEPT ![e] =
                       IF BufferFound(rcv[e], q)
                       THEN Transition(IF rcv'[e].top # rcv[e].top
                                       THEN Raise(ctl[e], {"dataReady"}) ELSE ctl[e],
                                       StateAfterFin(ctl[e].st))
                       ELSE ctl[e]]
      BY <1>4, Zenon DEF ParseFin
    <2>2. q \in Nat /\ rcv[e].fin = NoFin
      BY <1>4, EndFacts DEF RestOK, Inbox, CInv, FinsAgree, FinHandled
    <2>. HIDE DEF q
    <2>3. CASE BufferFound(rcv[e], q)
      <3>1. r.fin # NoFin
        <4> DEFINE f == FindRecvBuffer(rcv[e], q)
                   g == [f EXCEPT !.fin = q]
        <4>1. f \in RecvHalf
          BY <2>2, EndFacts, FindRecvBufferOK DEF RecvOK
        <4>2. r = PlaceSegment(g, q)
          BY <2>3 DEF HandleFin
        <4>. HIDE DEF f
        <4>3. g \in RecvHalf /\ g.fin = q
          BY <2>2, <4>1 DEF RecvHalf
        <4>. HIDE DEF g, r
        <4>4. PlaceSegment(g, q).fin = g.fin
          BY <4>3 DEF PlaceSegment, MoveToRead, RecvHalf
        <4>. QED  BY <1>1, <4>2, <4>3, <4>4 DEF q
      <3>2. PICK b \in {ctl[e], Raise(ctl[e], {"dataReady"})} :
              ctl' = [ctl EXCEPT ![e] = Transition(b, StateAfterFin(ctl[e].st))]
        BY <2>1, <2>3
      <3> DEFINE new == StateAfterFin(ctl[e].st)
                 c == Transition(b, new)
      <3>3. \/ ctl[e].st = "ESTABLISHED" /\ new = "CLOSE_WAIT"
            \/ ctl[e].st = "FIN_WAIT_1" /\ new = "CLOSING"
            \/ ctl[e].st = "FIN_WAIT_2" /\ new = "TIME_WAIT"
        BY <1>4 DEF StateAfterFin
      <3>4. b \in Control
        BY EndFacts, RaiseOK
      <3>5. ctl' = [ctl EXCEPT ![e] = c]
        BY <3>2
      <3>. HIDE DEF new
      <3>6. c.st = new
        BY <3>3, <3>4, TransitionOK DEF StreamStates, OpenStates
      <3>. HIDE DEF c, r
      <3>7. StateMoves(e, c.st, r.fin)
        BY <3>1, <3>3, <3>6 DEF StateMoves, CInv, FinsAgree, FinHandled, FinAcked
      <3>8. FinMoves(e, r, EmptyInbox)
        BY <1>3, <3>1
      <3>. QED  BY <1>1, <2>1, <3>5, <3>7, <3>8, CloseMove
    <2>4. CASE ~BufferFound(rcv[e], q)
      <3>1. r = FindRecvBuffer(rcv[e], q) /\ ctl' = [ctl EXCEPT ![e] = ctl[e]]
        BY <2>1, <2>4 DEF HandleFin
      <3>2. r.fin = rcv[e].fin
        BY <2>2, <3>1, EndFacts, FindRecvBufferSame DEF SameRead
      <3>. HIDE DEF r
      <3>3. StateMoves(e, ctl[e].st, r.fin) /\ FinMoves(e, r, EmptyInbox)
        BY <1>3, <3>2, StaysPut
      <3>. QED  BY <1>1, <2>1, <3>1, <3>3, CloseMove
    <2>. QED  BY <2>3, <2>4
  <1>5. CASE ctl[e].st \notin {"ESTABLISHED", "FIN_WAIT_1", "FIN_WAIT_2"}
    <2> DEFINE r == [rcv[e] EXCEPT !.ackNow = TRUE]
    <2>1. rcv' = [rcv EXCEPT ![e] = r] /\ ctl' = ctl
      BY <1>5 DEF ParseFin
    <2>2. r.fin = rcv[e].fin
      BY EndFacts, SameReadOps DEF SameRead
    <2>. HIDE DEF r
    <2>3. StateMoves(e, ctl[e].st, r.fin) /\ FinMoves(e, r, EmptyInbox)
      BY <1>3, <2>2, StaysPut
    <2>. QED  BY <1>1, <2>1, <2>3, CloseMove
  <1>. QED  BY <1>4, <1>5

(* A peer that has received the fin knows that it is the fin. *)
LEMMA ReceivedFin ==
  ASSUME IInv, OInv, NEW e \in End, snd[e].fin # NoSeq, Received(rcv[Peer(e)], snd[e].fin)
  PROVE  rcv[Peer(e)].fin # NoFin
  <1> DEFINE f == Peer(e)
             r == rcv[f]
             top == r.top
             max == r.max
             filled == r.filled
             q == snd[e].fin
             last == LastData(snd[e])
  <1>1. f \in End /\ Peer(f) = e
    BY PeerFacts
  <1>2. /\ q \in Nat /\ top \in Nat /\ max \in Nat /\ top <= max
        /\ filled \subseteq (top + 2) .. max
        /\ StartSeq[e] \in Nat /\ StartSeq[e] < q
        /\ last = q - 1
    <2>1. /\ snd[Peer(f)].fin \in Nat /\ r.top \in Nat /\ r.max \in Nat /\ r.top <= r.max
          /\ r.filled \subseteq (r.top + 2) .. r.max
          /\ StartSeq[Peer(f)] \in Nat
          /\ LastData(snd[Peer(f)]) = IF snd[Peer(f)].fin = NoSeq THEN snd[Peer(f)].xmit ELSE snd[Peer(f)].xmit - 1
          /\ snd[Peer(f)].fin # NoSeq => snd[Peer(f)].fin = snd[Peer(f)].xmit /\ StartSeq[Peer(f)] < snd[Peer(f)].fin
      BY <1>1, PeerNumbers
    <2>. QED  BY <1>1, <2>1
  <1>3. q <= top \/ q \in filled
    BY DEF Received
  <1>4. Blank(r, app[f]) \/ Ordered(f, r, app[f], snd[e])
    BY <1>1, OrderFacts DEF RecvOrdered
  <1>5. /\ Blank(r, app[f]) => top = 0 /\ max = 0
        /\ Ordered(f, r, app[f], snd[e]) /\ r.fin = NoFin => max <= last
    BY DEF Blank, Ordered
  <1>6. q <= max
    <2>. HIDE DEF q, top, max, filled, last, r
    <2>. QED  BY <1>2, <1>3
  <1>7. ~(top = 0 /\ max = 0) /\ ~(max <= last)
    <2>. HIDE DEF q, top, max, filled, last, r, f
    <2>. QED  BY <1>2, <1>6
  <1>. QED  BY <1>4, <1>5, <1>7

(* An ack of the fin is true, and one that moves the window leaves the fin *)
(* where it is.                                                            *)
LEMMA AckClose ==
  ASSUME IInv, OInv, CInv, Undisturbed, NEW e \in End,
         NEW c \in Control, NEW s, NEW r, NEW i, NEW ack \in Ack, NEW newest,
         SendOK(s), Alike(snd[e], s), HonestAck(rcv[Peer(e)], ack),
         StateMoves(e, c.st, r.fin), FinMoves(e, r, i),
         ctl' = [ctl EXCEPT ![e] = CtlAfterAck(c, s, ack, newest)],
         snd' = [snd EXCEPT ![e] = SendAfterAck(c, s, ack, newest)],
         (rcv' = rcv /\ r = rcv[e]) \/ rcv' = [rcv EXCEPT ![e] = r],
         (inbox' = inbox /\ i = inbox[e]) \/ inbox' = [inbox EXCEPT ![e] = i],
         net' \subseteq net
  PROVE  CInv'
  <1> DEFINE w == Windowed(s, ack, newest)
             acked == AckedSegments(s, ack, newest)
             h == HandleAcks(w, ack)
             d == CtlAfterAck(c, s, ack, newest)
             t == SendAfterAck(c, s, ack, newest)
  <1>1. /\ SendOK(w) /\ Outstanding(w) = Outstanding(s) /\ w.unacked \subseteq s.unacked
        /\ w.fin = s.fin
    BY WindowedLists
  <1>2. acked = Acked(w, ack)
    BY DEF AckedSegments
  <1>3. h.sendq = w.sendq /\ h.fin = w.fin
    BY <1>1, HandleAcksLists
  <1>4. s.fin # NoSeq => t = h
    BY DEF SendAfterAck, FinDue
  <1>5. d.st = IF s.fin \in acked THEN AckOnFin(c).st ELSE c.st
    BY CtlAfterAckState
  <1>6. s.fin = snd[e].fin /\ s.unacked = snd[e].unacked /\ s.sendq = snd[e].sendq
    BY DEF Alike
  <1>7. ctl' = [ctl EXCEPT ![e] = d] /\ snd' = [snd EXCEPT ![e] = t]
    OBVIOUS
  <1>8. snd'[e] = t
    BY <1>7, EndFacts
  <1>. HIDE DEF w, acked, h, d, t
  <1>9. s.fin \in acked => rcv[Peer(e)].fin # NoFin
    <2>1. ASSUME s.fin \in acked PROVE rcv[Peer(e)].fin # NoFin
      <3>1. s.fin \in w.unacked /\ s.fin <= ack.max /\ s.fin \notin ack.holes
        BY <1>2, <2>1 DEF Acked
      <3>2. s.fin \in Outstanding(s) /\ Outstanding(s) \subseteq 1 .. s.xmit
        BY <1>1, <3>1 DEF Outstanding, SendOK
      <3>3. s.fin \in Nat /\ s.xmit \in Nat /\ ack.max \in Nat
        BY DEF SendOK, SendHalf, Ack
      <3>4. s.fin # NoSeq
        <4>1. 0 \notin 1 .. s.xmit
          OBVIOUS
        <4>. QED  BY <3>2, <4>1 DEF NoSeq
      <3>5. Received(rcv[Peer(e)], s.fin)
        <4>1. s.fin \in 0 .. ack.max
          BY <3>1, <3>3
        <4>. QED  BY <3>1, <4>1 DEF HonestAck
      <3>. QED  BY <1>6, <3>4, <3>5, ReceivedFin
    <2>. QED  BY <2>1
  <1>10. StateMoves(e, d.st, r.fin)
    <2>1. CASE d.st = c.st
      BY <2>1
    <2>2. CASE d.st # c.st
      <3>1. \A new \in {"FIN_WAIT_2", "TIME_WAIT", "CLOSED"} : Transition(c, new).st = new
        BY TransitionOK DEF StreamStates, OpenStates, ClosedStates
      <3>2. s.fin \in acked
        BY <1>5, <2>2
      <3>3. \/ c.st = "FIN_WAIT_1" /\ d.st = "FIN_WAIT_2"
            \/ c.st = "CLOSING" /\ d.st = "TIME_WAIT"
            \/ c.st = "LAST_ACK" /\ d.st = "CLOSED"
        BY <1>5, <2>2, <3>1 DEF AckOnFin
      <3>. QED  BY <1>9, <3>2, <3>3 DEF StateMoves, FinHandled
    <2>. QED  BY <2>1, <2>2
  <1>11. Unsent(t) => Unsent(snd[e])
    <2>1. SUFFICES ASSUME Unsent(t), snd[e].fin # NoSeq, snd[e].fin \notin snd[e].sendq PROVE FALSE
      BY DEF Unsent
    <2>2. t = h /\ t.fin = snd[e].fin
      BY <1>1, <1>3, <1>4, <1>6, <2>1
    <2>3. snd[e].fin \in w.sendq /\ snd[e].fin \in snd'[e].sendq
      BY <1>3, <1>8, <2>1, <2>2 DEF Unsent
    <2>4. snd[e].fin \in snd[e].unacked
      BY <1>1, <1>6, <2>1, <2>3 DEF Outstanding
    <2>5. snd'[e].fin = snd[e].fin
      BY <1>8, <2>2
    <2>. QED  BY <2>3, <2>4, <2>5 DEF Undisturbed
  <1>. QED  BY <1>7, <1>10, <1>11, CloseMove

(* RecvSynAck keeps CInv.                                                  *)
LEMMA RecvSynAckClose ==
  ASSUME IInv, OInv, CInv, Undisturbed, NEW e \in End, NEW p \in net, RecvSynAck(e, p) PROVE CInv'
  <1> DEFINE opening == ctl[e].st = "SYN_SENT"
             c == IF opening THEN Transition(ctl[e], "ESTABLISHED") ELSE ctl[e]
             s == IF opening THEN AllocateNextSendSegment(snd[e]) ELSE snd[e]
             noted == NoteStamp(rcv[e], p.stamp)
             r == IF opening
                  THEN AllocateNextRecvSegment([AnchorRecv(noted, p.seq, p.stamp) EXCEPT !.ackNow = TRUE])
                  ELSE [noted EXCEPT !.ackNow = @ \/ ctl[e].st = "ESTABLISHED"]
             newest == r.echo <= p.stamp
  <1>1. Arrives(e, p, "SYN_ACK")
    BY DEF RecvSynAck
  <1>2. /\ p.ack \in Ack /\ HonestAck(rcv[Peer(e)], p.ack) /\ p.stamp \in Nat /\ p.seq \in Nat
    BY <1>1, ArrivesOK, AckingPacket DEF CarriesAck, SynAckPackets
  <1>3. net' \subseteq net /\ ctl[Peer(e)].st # "IDLE"
    BY <1>1, ArrivesClose
  <1>4. /\ rcv' = [rcv EXCEPT ![e] = r]
        /\ ctl' = [ctl EXCEPT ![e] = CtlAfterAck(c, s, p.ack, newest)]
        /\ snd' = [snd EXCEPT ![e] = SendAfterAck(c, s, p.ack, newest)]
        /\ inbox' = inbox
    BY Zenon DEF RecvSynAck
  <1>5. c \in Control /\ (opening => c.st = "ESTABLISHED") /\ (~opening => c.st = ctl[e].st)
    BY EndFacts, TransitionOK DEF StreamStates, OpenStates
  <1>6. SendOK(s) /\ Alike(snd[e], s)
    BY EndFacts, AllocateNextSendSegmentOK, AllocateAlike, WatchFacts
  <1>7. r.fin = rcv[e].fin
    <2>1. noted \in RecvHalf /\ noted.fin = rcv[e].fin
      BY <1>2, EndFacts, NoteStampOK, SameReadOps DEF SameRead, RecvOK
    <2> DEFINE u == [AnchorRecv(noted, p.seq, p.stamp) EXCEPT !.ackNow = TRUE]
    <2>2. u \in RecvHalf /\ u.fin = noted.fin
      <3>. HIDE DEF noted
      <3>. QED  BY <1>2, <2>1 DEF AnchorRecv, RecvHalf
    <2>. HIDE DEF noted, u
    <2>3. AllocateNextRecvSegment(u).fin = u.fin
      BY <2>2 DEF AllocateNextRecvSegment, RecvHalf
    <2>4. [noted EXCEPT !.ackNow = @ \/ ctl[e].st = "ESTABLISHED"].fin = noted.fin
      BY <2>1 DEF RecvHalf
    <2>. QED  BY <2>1, <2>2, <2>3, <2>4 DEF u
  <1>. HIDE DEF c, s, r, newest
  <1>8. StateMoves(e, c.st, r.fin)
    <2>1. CASE opening
      BY <1>3, <1>5, <1>7, <2>1, OpeningMove DEF OpeningStates
    <2>2. CASE ~opening
      BY <1>5, <1>7, <2>2, StaysPut
    <2>. QED  BY <2>1, <2>2
  <1>9. FinMoves(e, r, inbox[e])
    BY <1>7, StaysPut
  <1>. QED  BY <1>2, <1>3, <1>4, <1>5, <1>6, <1>8, <1>9, AckClose

(* RecvAck keeps CInv.                                                     *)
LEMMA RecvAckClose ==
  ASSUME IInv, OInv, CInv, Undisturbed, NEW e \in End, NEW p \in net, RecvAck(e, p) PROVE CInv'
  <1> DEFINE c == IF ctl[e].st = "SYN_RCVD" THEN Transition(ctl[e], "ESTABLISHED") ELSE ctl[e]
             r == NoteStamp(rcv[e], p.stamp)
             newest == r.echo <= p.stamp
             size == IF p.data = {} THEN 0 ELSE p.size
             i == [data |-> p.data, fin |-> p.fin, size |-> size]
  <1>1. Arrives(e, p, "ACK")
    BY DEF RecvAck
  <1>2. p.ack \in Ack /\ HonestAck(rcv[Peer(e)], p.ack)
    BY <1>1, ArrivesOK, AckingPacket DEF CarriesAck
  <1>3. net' \subseteq net /\ p.src = Peer(e) /\ p.type = "ACK"
    BY <1>1, ArrivesClose
  <1>4. /\ rcv' = [rcv EXCEPT ![e] = r]
        /\ ctl' = [ctl EXCEPT ![e] = CtlAfterAck(c, snd[e], p.ack, newest)]
        /\ snd' = [snd EXCEPT ![e] = SendAfterAck(c, snd[e], p.ack, newest)]
    BY Zenon DEF RecvAck
  <1>5. inbox' = [inbox EXCEPT ![e] = i]
    BY DEF RecvAck
  <1>6. i.fin = p.fin
    OBVIOUS
  <1>7. /\ c \in Control
        /\ c.st = ctl[e].st \/ (ctl[e].st = "SYN_RCVD" /\ c.st = "ESTABLISHED")
    BY EndFacts, TransitionOK DEF StreamStates, OpenStates
  <1>8. r.fin = rcv[e].fin
    BY EndFacts, SameReadOps DEF SameRead
  <1>. HIDE DEF c, r, newest, i
  <1>9. StateMoves(e, c.st, r.fin)
    BY <1>7, <1>8, StaysPut, OpeningMove DEF OpeningStates
  <1>10. FinMoves(e, r, i)
    <2>1. Unsent(snd[Peer(e)]) => p.fin = NoFin
      BY <1>3, PeerFacts DEF CInv, Launched
    <2>. QED  BY <1>6, <1>8, <2>1, StaysPut DEF FinMoves
  <1>11. SendOK(snd[e]) /\ Alike(snd[e], snd[e])
    BY EndFacts, WatchFacts
  <1>. QED  BY <1>2, <1>3, <1>4, <1>5, <1>7, <1>9, <1>10, <1>11, AckClose
-----------------------------------------------------------------------------
(* Before the streams exist there is no fin and no packet.                 *)
LEMMA InitClose == ASSUME Init PROVE CInv
  <1>1. \A e \in End : /\ ctl[e].st = "IDLE" /\ snd[e] = InitSend /\ rcv[e] = InitRecv
                       /\ inbox[e] = EmptyInbox
    BY DEF Init
  <1>2. net = {}
    BY DEF Init
  <1>3. InitSend.fin = NoSeq /\ InitRecv.fin = NoFin /\ EmptyInbox.fin = NoFin
    BY DEF InitSend, InitRecv, EmptyInbox
  <1>4. NoFalseAbort
    BY <1>1 DEF NoFalseAbort
  <1>5. Known /\ RstsLate
    BY <1>1, <1>2 DEF Known, RstsLate
  <1>6. Launched
    BY <1>1, <1>2, <1>3, PeerFacts DEF Launched
  <1>7. FinsAgree
    BY <1>1, <1>3, PeerFacts DEF FinsAgree, FinHandled, FinAcked
  <1>. QED  BY <1>4, <1>5, <1>6, <1>7 DEF CInv

(* Every undisturbed step keeps CInv.                                      *)
LEMMA NextClose == ASSUME IInv, OInv, CInv, Undisturbed, Next PROVE CInv'
  <1>1. ASSUME NEW e \in End, Loop(e) PROVE CInv'
    <2>1. CASE SendRst(e)
      <3>1. ctl[e].st = "ABORTED"
        BY <2>1 DEF SendRst, Turn, NextEvent
      <3>. QED  BY <3>1 DEF CInv, NoFalseAbort
    <2>. QED  BY <1>1, <2>1, PollClose, QueueAcceptClose, SendSynClose, SendSynAckClose, SendDataClose,
              SendAckClose, TimeoutClose, DispatchEventClose, TimeWaitClose, Zenon DEF Loop
  <1>2. ASSUME NEW e \in End, Parse(e) PROVE CInv'
    BY <1>2, ParseDataClose, ParseFinClose, Zenon DEF Parse
  <1>3. ASSUME NEW e \in End, Application(e) PROVE CInv'
    <2>1. CASE ReadEof(e)
      BY <2>1, NetClose DEF ReadEof
    <2>. QED  BY <1>3, <2>1, OpenClose, AcceptClose, ReadClose, CloseClose, WriteClose, Zenon
              DEF Application
  <1>4. ASSUME NEW e \in End, Integrator(e) PROVE CInv'
    BY <1>4, ReleaseClose, ConnectionDiedClose, SegmentAvailableClose, EarlyTimerClose, Zenon
       DEF Integrator
  <1>5. ASSUME NEW e \in End, NEW p \in net, Receive(e, p) PROVE CInv'
    BY <1>5, RecvSynClose, RecvSynAckClose, RecvAckClose, RecvAckWithoutNonceClose, RecvRstClose,
       AnswerRstClose, Zenon DEF Receive
  <1>6. ASSUME NEW p \in net, Lose(p) PROVE CInv'
    BY <1>6, NetClose DEF Lose
  <1>. QED  BY <1>1, <1>2, <1>3, <1>4, <1>5, <1>6, SilenceClose, Zenon DEF Next

(* A stuttering step keeps CInv.                                           *)
LEMMA UnchangedClose == ASSUME CInv, UNCHANGED vars PROVE CInv'
  BY DEF CInv, NoFalseAbort, Known, Launched, Unsent, FinsAgree, RstsLate, vars

(* NoFalseAbort: as long as nobody is stopped, no connection dies and no   *)
(* window shrinks below an outstanding fin, no stream is reported as       *)
(* aborted, however the closes cross and whichever packets are lost,       *)
(* repeated or overtaken: nabto_stream_handle_rst finds an end that has    *)
(* the peer's fin and waits for nothing but the ack of its own.            *)
THEOREM OrderlyClose == Spec /\ [][Undisturbed]_vars => []NoFalseAbort
  <1> DEFINE J == IInv /\ OInv /\ CInv
  <1>1. Init => J
    BY InitOK, InitOrder, InitClose
  <1>2. J /\ [Next]_vars /\ [Undisturbed]_vars => J'
    <2>1. IInv /\ OInv /\ [Next]_vars => IInv' /\ OInv'
      BY NextOK, NextOrder
    <2>2. ASSUME J, [Next]_vars, [Undisturbed]_vars PROVE CInv'
      <3>1. CASE UNCHANGED vars
        BY <2>2, <3>1, UnchangedClose
      <3>2. CASE ~UNCHANGED vars
        BY <2>2, <3>2, NextClose
      <3>. QED  BY <3>1, <3>2
    <2>. QED  BY <2>1, <2>2
  <1>3. J => NoFalseAbort
    BY DEF CInv
  <1>. HIDE DEF J
  <1>. QED  BY <1>1, <1>2, <1>3, PTL DEF Spec
=============================================================================
