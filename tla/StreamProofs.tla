---------------------------- MODULE StreamProofs ----------------------------
(***************************************************************************)
(* Invariants of StreamPair, proved for every value of its constants: any  *)
(* window, pools, segment sizes, and any number of losses, duplicates,     *)
(* overtakings, early timers and aborts.                                   *)
(*                                                                         *)
(* None of the four invariants is inductive.  IInv strengthens them with   *)
(* what connects the two ends: every ack under way is honest about its     *)
(* sender, however old it is (NetSafe); and with what a stream that has    *)
(* not been opened, or has not heard of its peer, cannot have (Fresh).     *)
(***************************************************************************)
EXTENDS StreamPair, StreamHalfProofs

(* s is a send half of e that has lost nothing and that trusts no window   *)
(* its peer has not given.                                                 *)
SendSafe(e, s) ==
  /\ SendOK(s)
  /\ \A q \in (StartSeq[e] + 1) .. s.xmit : q \in Outstanding(s) \/ Received(rcv[Peer(e)], q)
  /\ s.adv <= rcv[Peer(e)].top + MaxRecvSegments

(* Before open or accept nothing is outstanding; before the peer's first   *)
(* packet nothing has been received.                                       *)
Unopened == {"IDLE", "ACCEPT", "WAIT_ACCEPT"}
Unanchored == {"IDLE", "SYN_SENT"}

Fresh(c, s, r) ==
  /\ c.st \in Unopened => Outstanding(s) = {}
  /\ c.st \in Unanchored => r.max = 0

(* The acks in N are honest. *)
CarriesAck(p) == p.type \in {"SYN_ACK", "ACK"}

NetSafe(N) ==
  /\ N \subseteq Packets
  /\ IsFiniteSet(N)
  /\ \A p \in N : CarriesAck(p) => HonestAck(rcv[p.src], p.ack)

EnvType ==
  [loss : 0..MaxLoss, dup : 0..MaxDup, reorder : 0..MaxReorder,
   spurious : 0..MaxSpurious, available : 0..MaxAvailable, aborts : 0..MaxAborts, deaths : 0..MaxDeaths]

RestOK ==
  /\ opt \in [End -> Options]
  /\ inbox \in [End -> Inbox]
  /\ app \in [End -> [got : Seq(Nat), eof : BOOLEAN, closed : BOOLEAN]]
  /\ env \in EnvType

EndsOK ==
  /\ ctl \in [End -> Control]
  /\ DOMAIN snd = End
  /\ rcv \in [End -> RecvHalf]
  /\ \A e \in End : SendSafe(e, snd[e]) /\ RecvOK(rcv[e]) /\ Fresh(ctl[e], snd[e], rcv[e])

(* The inductive invariant. *)
IInv == EndsOK /\ NetSafe(net) /\ RestOK
-----------------------------------------------------------------------------
(* The peer of the peer is the end itself.                                 *)
LEMMA PeerFacts == \A e \in End : Peer(e) \in End /\ Peer(Peer(e)) = e
  BY DEF Peer, End, Initiator, Responder

(* A step in which every receive half only gains segments, and every send  *)
(* half and every packet is safe by what was received before the step.     *)
LEMMA StepOK ==
  ASSUME IInv, RestOK', NetSafe(net'),
         ctl' \in [End -> Control], DOMAIN snd' = End, rcv' \in [End -> RecvHalf],
         \A f \in End : /\ SendSafe(f, snd'[f])
                        /\ RecvOK(rcv'[f]) /\ Extends(rcv[f], rcv'[f])
                        /\ Fresh(ctl'[f], snd'[f], rcv'[f])
  PROVE  IInv'
  <1>1. ASSUME NEW f \in End PROVE SendSafe(f, snd[f])'
    <2> DEFINE r == rcv[Peer(f)]
               t == rcv'[Peer(f)]
               s == snd'[f]
    <2>1. Peer(f) \in End
      BY PeerFacts
    <2>2. SendSafe(f, s) /\ Extends(r, t) /\ RecvOK(t) /\ RecvOK(r)
      BY <2>1 DEF IInv, EndsOK
    <2>3. s.adv \in Nat /\ r.top \in Nat /\ t.top \in Nat /\ MaxRecvSegments \in Nat /\ s.xmit \in Nat
      BY <2>2, ReceiverAssumption DEF SendSafe, SendOK, SendHalf, RecvOK, RecvHalf
    <2>4. s.adv <= t.top + MaxRecvSegments
      BY <2>2, <2>3 DEF SendSafe, Extends
    <2>5. StartSeq[f] \in Nat
      BY PairAssumption
    <2>6. ASSUME NEW q \in (StartSeq[f] + 1) .. s.xmit
          PROVE  q \in Outstanding(s) \/ Received(t, q)
      <3>1. q \in Nat
        BY <2>3, <2>5
      <3>. QED  BY <2>2, <3>1 DEF SendSafe, Extends
    <2>. QED  BY <2>2, <2>4, <2>6 DEF SendSafe
  <1>2. ASSUME NEW p \in net', CarriesAck(p) PROVE HonestAck(rcv'[p.src], p.ack)
    <2>1. p \in Packets /\ HonestAck(rcv[p.src], p.ack)
      BY <1>2 DEF NetSafe
    <2>2. p.src \in End /\ p.ack \in Ack
      BY <1>2, <2>1 DEF Packets, SynPackets, SynAckPackets, AckPackets, RstPackets, CarriesAck
    <2>3. RecvOK(rcv[p.src]) /\ RecvOK(rcv'[p.src]) /\ Extends(rcv[p.src], rcv'[p.src])
      BY <2>2 DEF IInv, EndsOK
    <2>. QED  BY <2>1, <2>2, <2>3, StaysHonest
  <1>3. NetSafe(net)'
    BY <1>2 DEF NetSafe
  <1>4. ASSUME NEW f \in End PROVE RecvOK(rcv[f])' /\ Fresh(ctl[f], snd[f], rcv[f])'
    BY DEF RecvOK, WindowOK, RecvSegmentsFree, Fresh
  <1>5. EndsOK'
    BY <1>1, <1>4 DEF EndsOK
  <1>. QED  BY <1>3, <1>5 DEF IInv

(* A receive half that does not change extends itself.                     *)
LEMMA ExtendsReflexive ==
  ASSUME NEW r \in RecvHalf
  PROVE  Extends(r, r)
  BY DEF Extends, RecvHalf

(* A step of one end. *)
LEMMA EndStep ==
  ASSUME IInv, RestOK', NetSafe(net'), NEW e \in End,
         ctl' \in [End -> Control], DOMAIN snd' = End, rcv' \in [End -> RecvHalf],
         \A f \in End \ {e} : ctl'[f] = ctl[f] /\ snd'[f] = snd[f] /\ rcv'[f] = rcv[f],
         SendSafe(e, snd'[e]), RecvOK(rcv'[e]), Extends(rcv[e], rcv'[e]),
         Fresh(ctl'[e], snd'[e], rcv'[e])
  PROVE  IInv'
  <1>1. ASSUME NEW f \in End
        PROVE  /\ SendSafe(f, snd'[f])
               /\ RecvOK(rcv'[f]) /\ Extends(rcv[f], rcv'[f])
               /\ Fresh(ctl'[f], snd'[f], rcv'[f])
    <2>1. CASE f = e
      BY <2>1
    <2>2. CASE f # e
      <3>1. ctl'[f] = ctl[f] /\ snd'[f] = snd[f] /\ rcv'[f] = rcv[f]
        BY <2>2
      <3>2. /\ SendSafe(f, snd[f]) /\ RecvOK(rcv[f]) /\ Fresh(ctl[f], snd[f], rcv[f])
            /\ rcv[f] \in RecvHalf
        BY DEF IInv, EndsOK
      <3>. QED  BY <3>1, <3>2, ExtendsReflexive
    <2>. QED  BY <2>1, <2>2
  <1>. QED  BY <1>1, StepOK

(* A step of one end that leaves both halves alone. *)
LEMMA ControlStep ==
  ASSUME IInv, RestOK', NetSafe(net'), NEW e \in End, NEW c \in Control,
         ctl' = [ctl EXCEPT ![e] = c], UNCHANGED <<snd, rcv>>,
         c.st \in Unopened => ctl[e].st \in Unopened,
         c.st \in Unanchored => ctl[e].st \in Unanchored
  PROVE  IInv'
  <1>1. /\ ctl \in [End -> Control] /\ DOMAIN snd = End /\ rcv \in [End -> RecvHalf]
        /\ SendSafe(e, snd[e]) /\ RecvOK(rcv[e]) /\ Fresh(ctl[e], snd[e], rcv[e])
    BY DEF IInv, EndsOK
  <1>2. ctl' \in [End -> Control] /\ ctl'[e] = c /\ \A f \in End \ {e} : ctl'[f] = ctl[f]
    BY <1>1
  <1>3. Fresh(c, snd[e], rcv[e])
    BY <1>1 DEF Fresh
  <1>4. Extends(rcv[e], rcv[e])
    BY <1>1, ExtendsReflexive
  <1>. QED  BY <1>1, <1>2, <1>3, <1>4, EndStep
-----------------------------------------------------------------------------
(* Control.                                                                *)

LEMMA RaiseOK ==
  ASSUME NEW c \in Control, NEW events
  PROVE  Raise(c, events) \in Control /\ Raise(c, events).st = c.st
  BY PairAssumption DEF Raise, Control

(* state_transition keeps the control record typed.                        *)
LEMMA TransitionOK ==
  ASSUME NEW c \in Control, NEW new \in StreamStates
  PROVE  Transition(c, new) \in Control /\ Transition(c, new).st = new
  <1> DEFINE timer == IF new \in {"SYN_SENT", "SYN_RCVD"} THEN "now"
                      ELSE IF new \in {"ACCEPT", "WAIT_ACCEPT", "ESTABLISHED"} THEN "inf"
                      ELSE c.timer
             d == [c EXCEPT !.st = new, !.timer = timer]
  <1>1. timer \in Timers
    BY DEF Control, Timers
  <1>2. Transition(c, new) = IF c.st = new THEN c ELSE Raise(d, Raised(c.st, new))
    BY DEF Transition
  <1>. HIDE DEF timer
  <1>3. d \in Control /\ d.st = new
    BY <1>1 DEF Control
  <1>. HIDE DEF d
  <1>. QED  BY <1>2, <1>3, RaiseOK

(* Setting a timer keeps the control record typed.                         *)
LEMMA TimerOK ==
  ASSUME NEW c \in Control, NEW timer \in Timers
  PROVE  [c EXCEPT !.timer = timer] \in Control /\ [c EXCEPT !.timer = timer].st = c.st
  BY DEF Control
-----------------------------------------------------------------------------
(* The network.                                                            *)

LEMMA NetShrinks ==
  ASSUME NEW N, NetSafe(N), NEW M, M \subseteq N
  PROVE  NetSafe(M)
  <1>1. IsFiniteSet(M)
    BY FS_Subset DEF NetSafe
  <1>. QED  BY <1>1 DEF NetSafe

(* Sending a safe packet keeps the network safe.                           *)
LEMMA NetGrows ==
  ASSUME NEW N, NetSafe(N), NEW p \in Packets,
         CarriesAck(p) => HonestAck(rcv[p.src], p.ack)
  PROVE  NetSafe(N \cup {p})
  <1>1. IsFiniteSet(N \cup {p})
    BY FS_AddElement DEF NetSafe
  <1>. QED  BY <1>1 DEF NetSafe

(* An rst acknowledges nothing and is always safe to send.                 *)
LEMMA RstPacketOK ==
  ASSUME NEW e \in End
  PROVE  RstPacket(e) \in Packets /\ ~CarriesAck(RstPacket(e))
  <1>1. RstPacket(e) \in RstPackets
    BY DEF RstPacket, RstPackets
  <1>2. RstPacket(e).type = "RST"
    BY DEF RstPacket
  <1>. QED  BY <1>1, <1>2 DEF Packets, CarriesAck

(* A packet that arrives comes from the peer and leaves the network safe. *)
LEMMA ArrivesOK ==
  ASSUME IInv, NEW e \in End, NEW p \in net, NEW type, Arrives(e, p, type)
  PROVE  /\ NetSafe(net') /\ env' \in EnvType
         /\ p \in Packets /\ p.src = Peer(e) /\ p.type = type
         /\ CarriesAck(p) => HonestAck(rcv[Peer(e)], p.ack)
  <1>1. NetSafe(net) /\ env \in EnvType
    BY DEF IInv, RestOK
  <1>2. Cardinality(Overtaken(p)) \in Nat
    BY <1>1, FS_Subset, FS_CardinalityType DEF NetSafe, Overtaken
  <1>3. PICK again \in BOOLEAN :
          /\ again => env.dup > 0
          /\ net' = IF again THEN net ELSE net \ {p}
          /\ env' = [env EXCEPT !.reorder = @ - Cardinality(Overtaken(p)),
                                !.dup = IF again THEN @ - 1 ELSE @]
    BY DEF Arrives
  <1>4. NetSafe(net')
    BY <1>1, <1>3, NetShrinks
  <1>5. env' \in EnvType
    <2> DEFINE reorder == env.reorder - Cardinality(Overtaken(p))
               dup == IF again THEN env.dup - 1 ELSE env.dup
    <2>1. env.reorder \in 0 .. MaxReorder /\ env.dup \in 0 .. MaxDup
      BY <1>1 DEF EnvType
    <2>2. Cardinality(Overtaken(p)) <= env.reorder
      BY DEF Arrives
    <2>3. MaxReorder \in Nat /\ MaxDup \in Nat
      BY PairAssumption
    <2>4. reorder \in 0 .. MaxReorder /\ dup \in 0 .. MaxDup
      BY <1>2, <1>3, <2>1, <2>2, <2>3
    <2>5. env' = [env EXCEPT !.reorder = reorder, !.dup = dup]
      BY <1>3
    <2>. HIDE DEF reorder, dup
    <2>. QED  BY <1>1, <2>4, <2>5 DEF EnvType
  <1>. QED  BY <1>1, <1>4, <1>5 DEF Arrives, NetSafe

(* The environment takes one of what it may still do. *)
LEMMA SpendOK ==
  ASSUME env \in EnvType
  PROVE  /\ env.loss > 0 => [env EXCEPT !.loss = @ - 1] \in EnvType
         /\ env.spurious > 0 => [env EXCEPT !.spurious = @ - 1] \in EnvType
         /\ env.available > 0 => [env EXCEPT !.available = @ - 1] \in EnvType
         /\ env.aborts > 0 => [env EXCEPT !.aborts = @ - 1] \in EnvType
         /\ env.deaths > 0 => [env EXCEPT !.deaths = @ - 1] \in EnvType
  <1>1. ASSUME env.loss > 0 PROVE [env EXCEPT !.loss = @ - 1] \in EnvType
    <2> DEFINE left == env.loss - 1
    <2>1. env.loss \in 0 .. MaxLoss /\ MaxLoss \in Nat
      BY PairAssumption DEF EnvType
    <2>2. left \in 0 .. MaxLoss
      BY <1>1, <2>1
    <2>. HIDE DEF left
    <2>3. [env EXCEPT !.loss = left] \in EnvType
      BY <2>2 DEF EnvType
    <2>. QED  BY <2>3 DEF left
  <1>2. ASSUME env.spurious > 0 PROVE [env EXCEPT !.spurious = @ - 1] \in EnvType
    <2> DEFINE left == env.spurious - 1
    <2>1. env.spurious \in 0 .. MaxSpurious /\ MaxSpurious \in Nat
      BY PairAssumption DEF EnvType
    <2>2. left \in 0 .. MaxSpurious
      BY <1>2, <2>1
    <2>. HIDE DEF left
    <2>3. [env EXCEPT !.spurious = left] \in EnvType
      BY <2>2 DEF EnvType
    <2>. QED  BY <2>3 DEF left
  <1>3. ASSUME env.available > 0 PROVE [env EXCEPT !.available = @ - 1] \in EnvType
    <2> DEFINE left == env.available - 1
    <2>1. env.available \in 0 .. MaxAvailable /\ MaxAvailable \in Nat
      BY PairAssumption DEF EnvType
    <2>2. left \in 0 .. MaxAvailable
      BY <1>3, <2>1
    <2>. HIDE DEF left
    <2>3. [env EXCEPT !.available = left] \in EnvType
      BY <2>2 DEF EnvType
    <2>. QED  BY <2>3 DEF left
  <1>4. ASSUME env.aborts > 0 PROVE [env EXCEPT !.aborts = @ - 1] \in EnvType
    <2> DEFINE left == env.aborts - 1
    <2>1. env.aborts \in 0 .. MaxAborts /\ MaxAborts \in Nat
      BY PairAssumption DEF EnvType
    <2>2. left \in 0 .. MaxAborts
      BY <1>4, <2>1
    <2>. HIDE DEF left
    <2>3. [env EXCEPT !.aborts = left] \in EnvType
      BY <2>2 DEF EnvType
    <2>. QED  BY <2>3 DEF left
  <1>5. ASSUME env.deaths > 0 PROVE [env EXCEPT !.deaths = @ - 1] \in EnvType
    <2> DEFINE left == env.deaths - 1
    <2>1. env.deaths \in 0 .. MaxDeaths /\ MaxDeaths \in Nat
      BY PairAssumption DEF EnvType
    <2>2. left \in 0 .. MaxDeaths
      BY <1>5, <2>1
    <2>. HIDE DEF left
    <2>3. [env EXCEPT !.deaths = left] \in EnvType
      BY <2>2 DEF EnvType
    <2>. QED  BY <2>3 DEF left
  <1>. QED  BY <1>1, <1>2, <1>3, <1>4, <1>5
-----------------------------------------------------------------------------
(* What the invariant says of one end.                                     *)
LEMMA EndFacts ==
  ASSUME IInv, NEW e \in End
  PROVE  /\ ctl \in [End -> Control] /\ ctl[e] \in Control /\ DOMAIN snd = End
         /\ rcv \in [End -> RecvHalf] /\ rcv[e] \in RecvHalf
         /\ SendSafe(e, snd[e]) /\ SendOK(snd[e]) /\ RecvOK(rcv[e])
         /\ Fresh(ctl[e], snd[e], rcv[e])
         /\ NetSafe(net) /\ RestOK
         /\ Extends(rcv[e], rcv[e])
  BY ExtendsReflexive DEF IInv, EndsOK, SendSafe

(* A step of one end, given by what becomes of its parts. *)
LEMMA UpdateStep ==
  ASSUME IInv, RestOK', NetSafe(net'), NEW e \in End, NEW c \in Control, NEW s, NEW r,
         (ctl' = ctl /\ c = ctl[e]) \/ ctl' = [ctl EXCEPT ![e] = c],
         (snd' = snd /\ s = snd[e]) \/ snd' = [snd EXCEPT ![e] = s],
         (rcv' = rcv /\ r = rcv[e]) \/ rcv' = [rcv EXCEPT ![e] = r],
         SendSafe(e, s), RecvOK(r), Extends(rcv[e], r), Fresh(c, s, r)
  PROVE  IInv'
  <1>1. r \in RecvHalf
    BY DEF RecvOK
  <1>2. ctl' \in [End -> Control] /\ ctl'[e] = c /\ \A f \in End \ {e} : ctl'[f] = ctl[f]
    BY EndFacts
  <1>3. DOMAIN snd' = End /\ snd'[e] = s /\ \A f \in End \ {e} : snd'[f] = snd[f]
    BY EndFacts
  <1>4. rcv' \in [End -> RecvHalf] /\ rcv'[e] = r /\ \A f \in End \ {e} : rcv'[f] = rcv[f]
    BY EndFacts, <1>1
  <1>. QED  BY <1>2, <1>3, <1>4, EndStep

(* A step that touches neither half keeps the invariant if it keeps the    *)
(* network safe.                                                           *)
LEMMA NetStep ==
  ASSUME IInv, RestOK', NetSafe(net'), UNCHANGED <<ctl, snd, rcv>>
  PROVE  IInv'
  <1>1. Initiator \in End
    BY DEF End
  <1>. QED  BY <1>1, EndFacts, UpdateStep

(* The same segments are outstanding, so nothing is lost. *)
LEMMA SameIsSafe ==
  ASSUME NEW e \in End, NEW s, SendSafe(e, s), NEW t, SendOK(t), SameOutstanding(s, t)
  PROVE  SendSafe(e, t)
  BY DEF SendSafe, SameOutstanding
-----------------------------------------------------------------------------
(* The event loop.                                                         *)

LEMMA PollOK == ASSUME IInv, NEW e \in End, Poll(e) PROVE IInv'
  <1> DEFINE r == IF rcv[e].wait THEN AllocateNextRecvSegment(rcv[e]) ELSE rcv[e]
             s == IF snd[e].segWait THEN AllocateNextSendSegment(snd[e]) ELSE snd[e]
             c == IF snd[e].segWait /\ s.hasSeg THEN Raise(ctl[e], {"dataWrite"}) ELSE ctl[e]
  <1>1. rcv' = [rcv EXCEPT ![e] = r] /\ snd' = [snd EXCEPT ![e] = s]
    BY DEF Poll
  <1>2. ctl' = [ctl EXCEPT ![e] = c]
    <2>1. snd'[e] = s
      BY <1>1, EndFacts
    <2>. QED  BY <2>1, Zenon DEF Poll
  <1>3. RecvOK(r) /\ Extends(rcv[e], r) /\ r.max = rcv[e].max
    BY EndFacts, AllocateNextRecvSegmentOK
  <1>4. SendSafe(e, s) /\ Outstanding(s) = Outstanding(snd[e])
    BY EndFacts, AllocateNextSendSegmentOK, SameIsSafe DEF SameOutstanding
  <1>5. c \in Control /\ c.st = ctl[e].st
    BY EndFacts, RaiseOK
  <1>6. Fresh(c, s, r)
    BY <1>3, <1>4, <1>5, EndFacts DEF Fresh
  <1>7. RestOK' /\ NetSafe(net')
    BY EndFacts DEF Poll, RestOK
  <1>. HIDE DEF r, s, c
  <1>. QED  BY <1>1, <1>2, <1>3, <1>4, <1>5, <1>6, <1>7, UpdateStep

(* QueueAccept keeps the invariant.                                        *)
LEMMA QueueAcceptOK == ASSUME IInv, NEW e \in End, QueueAccept(e) PROVE IInv'
  <1>1. ctl[e].st = "ACCEPT"
    BY DEF QueueAccept, Turn, NextEvent
  <1>2. ctl' = [ctl EXCEPT ![e] = Transition(ctl[e], "WAIT_ACCEPT")] /\ UNCHANGED <<snd, rcv>>
    BY DEF QueueAccept
  <1>3. Transition(ctl[e], "WAIT_ACCEPT") \in Control /\ Transition(ctl[e], "WAIT_ACCEPT").st = "WAIT_ACCEPT"
    BY EndFacts, TransitionOK DEF StreamStates, OpeningStates
  <1>4. RestOK' /\ NetSafe(net')
    BY EndFacts DEF QueueAccept, RestOK
  <1>. QED  BY <1>1, <1>2, <1>3, <1>4, ControlStep DEF Unopened, Unanchored

(* A packet that carries no data: the sender takes a stamp and arms its    *)
(* timer.                                                                  *)
LEMMA StampedPacket ==
  ASSUME IInv, RestOK', NetSafe(net'), NEW e \in End,
         snd' = [snd EXCEPT ![e].clock = @ + 1],
         ctl' = [ctl EXCEPT ![e].timer = "future"],
         rcv' = rcv
  PROVE  IInv'
  <1> DEFINE s == [snd[e] EXCEPT !.clock = @ + 1]
             c == [ctl[e] EXCEPT !.timer = "future"]
  <1>1. SendSafe(e, s) /\ Outstanding(s) = Outstanding(snd[e])
    BY EndFacts, ClockOK, SameIsSafe DEF SameOutstanding
  <1>2. c \in Control /\ c.st = ctl[e].st
    BY EndFacts, TimerOK DEF Timers
  <1>3. snd' = [snd EXCEPT ![e] = s] /\ ctl' = [ctl EXCEPT ![e] = c]
    OBVIOUS
  <1>. HIDE DEF s, c
  <1>4. Fresh(c, s, rcv[e])
    BY <1>1, <1>2, EndFacts DEF Fresh
  <1>. QED  BY <1>1, <1>2, <1>3, <1>4, EndFacts, UpdateStep

(* SendSyn keeps the invariant.                                            *)
LEMMA SendSynOK == ASSUME IInv, NEW e \in End, SendSyn(e) PROVE IInv'
  <1> DEFINE p == [type |-> "SYN", src |-> e, stamp |-> snd[e].clock, seq |-> StartSeq[e],
                   maxSend |-> opt[e].maxSend, maxRecv |-> opt[e].maxRecv,
                   nonce |-> ~opt[e].replayOff]
  <1>1. net' = net \cup {p}
    BY Zenon DEF SendSyn
  <1>2. snd[e].clock \in Nat /\ StartSeq[e] \in Nat
    BY EndFacts, PairAssumption DEF SendOK, SendHalf
  <1>3. opt[e].maxSend \in Nat \ {0} /\ opt[e].maxRecv \in Nat \ {0}
    BY EndFacts DEF RestOK, Options
  <1>4. (~opt[e].replayOff) \in BOOLEAN
    OBVIOUS
  <1>5. p \in SynPackets
    BY <1>2, <1>3, <1>4, Zenon DEF SynPackets
  <1>6. p.type = "SYN"
    OBVIOUS
  <1>. HIDE DEF p
  <1>7. NetSafe(net')
    BY <1>1, <1>5, <1>6, EndFacts, NetGrows DEF Packets, CarriesAck
  <1>8. RestOK'
    BY EndFacts DEF SendSyn, RestOK
  <1>. QED  BY <1>7, <1>8, StampedPacket DEF SendSyn

(* SendSynAck keeps the invariant.                                         *)
LEMMA SendSynAckOK == ASSUME IInv, NEW e \in End, SendSynAck(e) PROVE IInv'
  <1> DEFINE p == [type |-> "SYN_ACK", src |-> e, stamp |-> snd[e].clock, seq |-> StartSeq[e],
                   maxSend |-> opt[e].maxSend, maxRecv |-> opt[e].maxRecv,
                   nonce |-> ~opt[e].replayOff, ack |-> AckExtension(rcv[e])]
  <1>1. net' = net \cup {p}
    BY Zenon DEF SendSynAck
  <1>2. snd[e].clock \in Nat /\ StartSeq[e] \in Nat
    BY EndFacts, PairAssumption DEF SendOK, SendHalf
  <1>3. opt[e].maxSend \in Nat \ {0} /\ opt[e].maxRecv \in Nat \ {0}
    BY EndFacts DEF RestOK, Options
  <1>4. (~opt[e].replayOff) \in BOOLEAN
    OBVIOUS
  <1>5. AckExtension(rcv[e]) \in Ack /\ HonestAck(rcv[e], AckExtension(rcv[e]))
    BY EndFacts, AckExtensionOK
  <1>6. p \in SynAckPackets
    BY <1>2, <1>3, <1>4, <1>5, Zenon DEF SynAckPackets
  <1>7. p.src = e /\ p.ack = AckExtension(rcv[e])
    OBVIOUS
  <1>. HIDE DEF p
  <1>8. NetSafe(net')
    BY <1>1, <1>5, <1>6, <1>7, EndFacts, NetGrows DEF Packets
  <1>9. RestOK'
    BY EndFacts DEF SendSynAck, RestOK
  <1>. QED  BY <1>8, <1>9, StampedPacket DEF SendSynAck

(* The packet of create_ack_packet acknowledges only what its sender has   *)
(* received.                                                               *)
LEMMA AckPacketOK ==
  ASSUME IInv, NEW e \in End, NEW out, out \subseteq Sendable(snd[e])
  PROVE  NetSafe(net \cup {AckPacket(e, out)})
  <1> DEFINE p == AckPacket(e, out)
             s == snd[e]
             data == out \ {s.fin}
             fin == IF s.fin \in out THEN s.fin ELSE NoFin
  <1>1. p = [type |-> "ACK", src |-> e, stamp |-> s.clock, nonce |-> opt[e].sendNonce,
             ack |-> AckExtension(rcv[e]), data |-> data, size |-> opt[e].maxSend, fin |-> fin]
    BY DEF AckPacket
  <1>2. /\ s.clock \in Nat /\ s.fin \in Nat /\ s.unacked \subseteq Nat /\ s.sendq \in SUBSET Nat
        /\ s.resend \subseteq s.unacked
    BY EndFacts DEF SendOK, SendHalf
  <1>3. data \in SUBSET Nat /\ fin \in Nat
    BY <1>2 DEF Sendable, NoFin
  <1>4. opt[e].maxSend \in Nat /\ opt[e].sendNonce \in BOOLEAN
    BY EndFacts DEF RestOK, Options
  <1>5. AckExtension(rcv[e]) \in Ack /\ HonestAck(rcv[e], AckExtension(rcv[e]))
    BY EndFacts, AckExtensionOK
  <1>. HIDE DEF p, data, fin, s
  <1>6. p \in AckPackets
    BY <1>1, <1>2, <1>3, <1>4, <1>5, Zenon DEF AckPackets
  <1>7. p.src = e /\ p.ack = AckExtension(rcv[e])
    BY <1>1
  <1>. QED  BY <1>5, <1>6, <1>7, EndFacts, NetGrows DEF Packets, p

(* What create_ack_packet leaves behind. *)
LEMMA SentNonceOK ==
  ASSUME RestOK, NEW e \in End, opt' = [opt EXCEPT ![e].sendNonce = FALSE],
         UNCHANGED <<inbox, app, env>>
  PROVE  RestOK'
  BY DEF RestOK, Options

(* SendData keeps the invariant.                                           *)
LEMMA SendDataOK == ASSUME IInv, NEW e \in End, SendData(e) PROVE IInv'
  <1>1. PICK out \in Fills(e) :
          /\ net' = net \cup {AckPacket(e, out)}
          /\ snd' = [snd EXCEPT ![e] = [WriteDataToPacket(@, out) EXCEPT !.probed = TRUE]]
    BY DEF SendData
  <1> DEFINE w == WriteDataToPacket(snd[e], out)
             s == [w EXCEPT !.probed = TRUE]
             r == [rcv[e] EXCEPT !.ackNow = FALSE]
             c == [ctl[e] EXCEPT !.timer = "future"]
  <1>2. out \subseteq Sendable(snd[e])
    BY DEF Fills
  <1>3. SendSafe(e, w) /\ Outstanding(w) = Outstanding(snd[e])
    BY <1>2, EndFacts, WriteDataToPacketOK, SameIsSafe DEF SameOutstanding
  <1>4. SendSafe(e, s) /\ Outstanding(s) = Outstanding(snd[e])
    BY <1>3, ProbedOK, SameIsSafe DEF SameOutstanding, SendSafe
  <1>5. RecvOK(r) /\ Extends(rcv[e], r) /\ r.max = rcv[e].max
    BY EndFacts, AckNowOK
  <1>6. c \in Control /\ c.st = ctl[e].st
    BY EndFacts, TimerOK DEF Timers
  <1>7. /\ snd' = [snd EXCEPT ![e] = s] /\ rcv' = [rcv EXCEPT ![e] = r]
        /\ ctl' = [ctl EXCEPT ![e] = c]
    BY <1>1 DEF SendData
  <1>8. NetSafe(net')
    BY <1>1, <1>2, AckPacketOK
  <1>9. RestOK'
    BY EndFacts, SentNonceOK DEF SendData
  <1>. HIDE DEF s, r, c
  <1>10. Fresh(c, s, r)
    BY <1>4, <1>5, <1>6, EndFacts DEF Fresh
  <1>. QED  BY <1>4, <1>5, <1>6, <1>7, <1>8, <1>9, <1>10, UpdateStep

(* SendAck keeps the invariant.                                            *)
LEMMA SendAckOK == ASSUME IInv, NEW e \in End, SendAck(e) PROVE IInv'
  <1>1. PICK out \in Fills(e) :
          /\ net' = net \cup {AckPacket(e, out)}
          /\ snd' = [snd EXCEPT ![e] = WriteDataToPacket(@, out)]
    BY DEF SendAck
  <1> DEFINE s == WriteDataToPacket(snd[e], out)
             r == [rcv[e] EXCEPT !.ackNow = FALSE]
  <1>2. out \subseteq Sendable(snd[e])
    BY DEF Fills
  <1>3. SendSafe(e, s) /\ Outstanding(s) = Outstanding(snd[e])
    BY <1>2, EndFacts, WriteDataToPacketOK, SameIsSafe DEF SameOutstanding
  <1>4. RecvOK(r) /\ Extends(rcv[e], r) /\ r.max = rcv[e].max
    BY EndFacts, AckNowOK
  <1>5. snd' = [snd EXCEPT ![e] = s] /\ rcv' = [rcv EXCEPT ![e] = r] /\ ctl' = ctl
    BY <1>1 DEF SendAck
  <1>6. NetSafe(net')
    BY <1>1, <1>2, AckPacketOK
  <1>7. RestOK'
    BY EndFacts, SentNonceOK DEF SendAck
  <1>. HIDE DEF s, r
  <1>8. Fresh(ctl[e], s, r)
    BY <1>3, <1>4, EndFacts DEF Fresh
  <1>. QED  BY <1>3, <1>4, <1>5, <1>6, <1>7, <1>8, EndFacts, UpdateStep

(* Timeout keeps the invariant.                                            *)
LEMMA TimeoutOK == ASSUME IInv, NEW e \in End, Timeout(e) PROVE IInv'
  <1> DEFINE s == HandleTimeout(snd[e])
             c == [ctl[e] EXCEPT !.timer = "future"]
  <1>1. SendSafe(e, s) /\ Outstanding(s) = Outstanding(snd[e])
    BY EndFacts, HandleTimeoutOK, SameIsSafe DEF SameOutstanding
  <1>2. c \in Control /\ c.st = ctl[e].st
    BY EndFacts, TimerOK DEF Timers
  <1>3. snd' = [snd EXCEPT ![e] = s] /\ ctl' = [ctl EXCEPT ![e] = c] /\ rcv' = rcv
    BY DEF Timeout
  <1>4. RestOK' /\ NetSafe(net')
    BY EndFacts DEF Timeout, RestOK
  <1>. HIDE DEF s, c
  <1>5. Fresh(c, s, rcv[e])
    BY <1>1, <1>2, EndFacts DEF Fresh
  <1>. QED  BY <1>1, <1>2, <1>3, <1>4, <1>5, EndFacts, UpdateStep

(* SendRst keeps the invariant.                                            *)
LEMMA SendRstOK == ASSUME IInv, NEW e \in End, SendRst(e) PROVE IInv'
  <1> DEFINE c == Transition(ctl[e], "ABORTED_RST")
  <1>1. c \in Control /\ c.st = "ABORTED_RST"
    BY EndFacts, TransitionOK DEF StreamStates, ClosedStates
  <1>2. ctl' = [ctl EXCEPT ![e] = c] /\ UNCHANGED <<snd, rcv>>
    BY DEF SendRst
  <1>3. RestOK' /\ NetSafe(net')
    BY EndFacts, RstPacketOK, NetGrows DEF SendRst, RestOK
  <1>. HIDE DEF c
  <1>. QED  BY <1>1, <1>2, <1>3, ControlStep DEF Unopened, Unanchored

(* DispatchEvent keeps the invariant.                                      *)
LEMMA DispatchEventOK == ASSUME IInv, NEW e \in End, DispatchEvent(e) PROVE IInv'
  <1> DEFINE c == [ctl[e] EXCEPT !.ev = @ \ {FirstEvent(@)}]
  <1>1. c \in Control /\ c.st = ctl[e].st
    BY EndFacts DEF Control
  <1>2. ctl' = [ctl EXCEPT ![e] = c] /\ UNCHANGED <<snd, rcv>>
    BY DEF DispatchEvent
  <1>3. RestOK' /\ NetSafe(net')
    BY EndFacts DEF DispatchEvent, RestOK
  <1>. HIDE DEF c
  <1>. QED  BY <1>1, <1>2, <1>3, ControlStep

(* TimeWait keeps the invariant.                                           *)
LEMMA TimeWaitOK == ASSUME IInv, NEW e \in End, TimeWait(e) PROVE IInv'
  <1> DEFINE c == Transition(ctl[e], "CLOSED")
  <1>1. c \in Control /\ c.st = "CLOSED"
    BY EndFacts, TransitionOK DEF StreamStates, ClosedStates
  <1>2. ctl' = [ctl EXCEPT ![e] = c] /\ UNCHANGED <<snd, rcv>>
    BY DEF TimeWait
  <1>3. RestOK' /\ NetSafe(net')
    BY EndFacts DEF TimeWait, RestOK
  <1>. HIDE DEF c
  <1>. QED  BY <1>1, <1>2, <1>3, ControlStep DEF Unopened, Unanchored
-----------------------------------------------------------------------------
(* Packets from the peer.                                                  *)

LEMMA NegotiateOK ==
  ASSUME NEW o \in Options, NEW p, p.maxSend \in Nat \ {0}, p.maxRecv \in Nat \ {0}
  PROVE  Negotiate(o, p) \in Options
  BY DEF Negotiate, SmallerOf, Options

(* RecvSyn keeps the invariant.                                            *)
LEMMA RecvSynOK == ASSUME IInv, NEW e \in End, NEW p \in net, RecvSyn(e, p) PROVE IInv'
  <1>1. NetSafe(net') /\ env' \in EnvType /\ p \in Packets /\ p.type = "SYN"
    BY ArrivesOK DEF RecvSyn
  <1>2. /\ p.stamp \in Nat /\ p.seq \in Nat /\ p.maxSend \in Nat \ {0} /\ p.maxRecv \in Nat \ {0}
    BY <1>1 DEF Packets, SynPackets, SynAckPackets, AckPackets, RstPackets
  <1>3. snd' = snd /\ inbox' = inbox /\ app' = app
    BY DEF RecvSyn
  <1>4. CASE ctl[e].st = "IDLE"
    <2> DEFINE c == Transition(ctl[e], "ACCEPT")
               r == AnchorRecv(rcv[e], p.seq, p.stamp)
               n == Negotiate(opt[e], p)
               off == n.replayOff \/ ~p.nonce
               o == [n EXCEPT !.replayOff = off]
    <2>1. /\ ctl' = [ctl EXCEPT ![e] = c] /\ rcv' = [rcv EXCEPT ![e] = r]
          /\ opt' = [opt EXCEPT ![e] = o]
      BY <1>4, Zenon DEF RecvSyn
    <2>2. c \in Control /\ c.st = "ACCEPT"
      BY EndFacts, TransitionOK DEF StreamStates, OpeningStates
    <2>3. rcv[e].max = 0 /\ Outstanding(snd[e]) = {}
      BY <1>4, EndFacts DEF Fresh, Unopened, Unanchored
    <2>4. RecvOK(r) /\ Extends(rcv[e], r)
      BY <1>2, <2>3, EndFacts, AnchorRecvOK
    <2>5. n \in Options
      BY <1>2, EndFacts, NegotiateOK DEF RestOK
    <2>6. off \in BOOLEAN
      OBVIOUS
    <2>. HIDE DEF c, r, n, off
    <2>7. o \in Options
      BY <2>5, <2>6 DEF Options
    <2>. HIDE DEF o
    <2>8. RestOK'
      BY <1>1, <1>3, <2>1, <2>7, EndFacts DEF RestOK
    <2>9. Fresh(c, snd[e], r)
      BY <2>2, <2>3 DEF Fresh, Unanchored
    <2>. QED  BY <1>1, <1>3, <2>1, <2>2, <2>4, <2>8, <2>9, EndFacts, UpdateStep
  <1>5. CASE ctl[e].st # "IDLE"
    <2> DEFINE c == IF ctl[e].st = "SYN_RCVD" THEN [ctl[e] EXCEPT !.timer = "now"] ELSE ctl[e]
               r == NoteStamp(rcv[e], p.stamp)
    <2>1. /\ rcv' = [rcv EXCEPT ![e] = r] /\ opt' = opt
          /\ (ctl' = ctl /\ c = ctl[e]) \/ ctl' = [ctl EXCEPT ![e] = c]
      BY <1>5 DEF RecvSyn
    <2>2. c \in Control /\ c.st = ctl[e].st
      BY EndFacts, TimerOK DEF Timers
    <2>3. RecvOK(r) /\ Extends(rcv[e], r) /\ r.max = rcv[e].max
      BY <1>2, EndFacts, NoteStampOK
    <2>4. RestOK'
      BY <1>1, <1>3, <2>1, EndFacts DEF RestOK
    <2>. HIDE DEF c, r
    <2>5. Fresh(c, snd[e], r)
      BY <2>2, <2>3, EndFacts DEF Fresh
    <2>. QED  BY <1>1, <1>3, <2>1, <2>2, <2>3, <2>4, <2>5, EndFacts, UpdateStep
  <1>. QED  BY <1>4, <1>5

(* An honest ack loses nothing and opens no window that was not given. *)
LEMMA WindowedOK ==
  ASSUME NEW e \in End, NEW s, SendSafe(e, s), NEW ack \in Ack,
         HonestAck(rcv[Peer(e)], ack), NEW newest
  PROVE  /\ SendSafe(e, Windowed(s, ack, newest))
         /\ Windowed(s, ack, newest).xmit = s.xmit
         /\ Outstanding(Windowed(s, ack, newest)) = Outstanding(s)
  <1>1. /\ SendOK(UpdateWindow(s, ack)) /\ UpdateWindow(s, ack).xmit = s.xmit
        /\ UpdateWindow(s, ack).adv = ack.max + ack.win
        /\ Outstanding(UpdateWindow(s, ack)) = Outstanding(s)
    BY UpdateWindowOK DEF SendSafe
  <1>2. SendSafe(e, UpdateWindow(s, ack))
    BY <1>1 DEF SendSafe, HonestAck
  <1>. QED  BY <1>1, <1>2 DEF Windowed

(* Handling an honest ack frees only segments that the peer has received.  *)
LEMMA SendAfterAckOK ==
  ASSUME NEW e \in End, NEW s, SendSafe(e, s), NEW ack \in Ack,
         HonestAck(rcv[Peer(e)], ack), NEW newest, NEW c
  PROVE  /\ SendSafe(e, SendAfterAck(c, s, ack, newest))
         /\ c.st \in Unopened => Outstanding(SendAfterAck(c, s, ack, newest)) \subseteq Outstanding(s)
  <1> DEFINE w == Windowed(s, ack, newest)
             h == HandleAcks(w, ack)
             a == SendAfterAck(c, s, ack, newest)
  <1>1. SendSafe(e, w) /\ w.xmit = s.xmit /\ Outstanding(w) = Outstanding(s)
    BY WindowedOK
  <1>2. a = IF FinDue(c, s, ack, newest) THEN AddFinSegment(h) ELSE h
    BY DEF SendAfterAck
  <1>. HIDE DEF w
  <1>3. /\ SendOK(h) /\ h.xmit = w.xmit /\ h.adv = w.adv
        /\ Outstanding(w) \subseteq Outstanding(h) \cup Acked(w, ack)
        /\ Outstanding(h) \subseteq Outstanding(w)
    BY <1>1, HandleAcksOK DEF SendSafe
  <1>. HIDE DEF h, a
  <1>4. \A q \in Acked(w, ack) : Received(rcv[Peer(e)], q)
    <2>1. w.unacked \in SUBSET Nat
      BY <1>1 DEF SendSafe, SendOK
    <2>2. ack.max \in Nat
      BY DEF Ack
    <2>. QED  BY <2>1, <2>2 DEF Acked, HonestAck
  <1>5. SendSafe(e, h)
    BY <1>1, <1>3, <1>4 DEF SendSafe
  <1>6. SendSafe(e, AddFinSegment(h))
    <2>1. /\ SendOK(AddFinSegment(h)) /\ AddFinSegment(h).xmit = h.xmit + 1
          /\ AddFinSegment(h).adv = h.adv
          /\ Outstanding(AddFinSegment(h)) = Outstanding(h) \cup {h.xmit + 1}
      BY <1>3, AddFinSegmentOK
    <2>2. h.xmit \in Nat /\ StartSeq[e] \in Nat
      BY <1>3, PairAssumption DEF SendOK, SendHalf
    <2>. QED  BY <1>5, <2>1, <2>2 DEF SendSafe
  <1>7. c.st \in Unopened => ~FinDue(c, s, ack, newest)
    BY DEF Unopened, FinDue
  <1>. QED  BY <1>1, <1>2, <1>3, <1>5, <1>6, <1>7 DEF a

(* handle_ack_on_fin keeps the control record typed.                       *)
LEMMA AckOnFinOK ==
  ASSUME NEW c \in Control
  PROVE  AckOnFin(c) \in Control /\ AckOnFin(c).st \in {c.st, "FIN_WAIT_2", "TIME_WAIT", "CLOSED"}
  <1>1. \A new \in {"FIN_WAIT_2", "TIME_WAIT", "CLOSED"} :
           Transition(c, new) \in Control /\ Transition(c, new).st = new
    BY TransitionOK DEF StreamStates, OpenStates, ClosedStates
  <1>. QED  BY <1>1 DEF AckOnFin

(* Handling an ack keeps the control record typed.                         *)
LEMMA CtlAfterAckOK ==
  ASSUME NEW c \in Control, NEW s, NEW ack, NEW newest
  PROVE  /\ CtlAfterAck(c, s, ack, newest) \in Control
         /\ CtlAfterAck(c, s, ack, newest).st \in {c.st, "FIN_WAIT_2", "TIME_WAIT", "CLOSED"}
  <1> DEFINE f == CtlAfterFinAck(c, s, ack, newest)
             t == IF Drained(s, ack, newest) /\ ~FinDue(c, s, ack, newest)
                  THEN [f EXCEPT !.timer = "inf"] ELSE f
  <1>1. f \in Control /\ f.st \in {c.st, "FIN_WAIT_2", "TIME_WAIT", "CLOSED"}
    BY AckOnFinOK DEF CtlAfterFinAck
  <1>2. CtlAfterAck(c, s, ack, newest) =
          IF AckedSegments(s, ack, newest) # {} THEN Raise(t, {"dataWrite"}) ELSE t
    BY DEF CtlAfterAck
  <1>. HIDE DEF f
  <1>3. t \in Control /\ t.st = f.st
    BY <1>1, TimerOK DEF Timers
  <1>. HIDE DEF t
  <1>. QED  BY <1>1, <1>2, <1>3, RaiseOK

(* An ack moves the state only when it acknowledges the fin. *)
LEMMA CtlAfterAckState ==
  ASSUME NEW c \in Control, NEW s, NEW ack, NEW newest
  PROVE  CtlAfterAck(c, s, ack, newest).st =
           IF s.fin \in AckedSegments(s, ack, newest) THEN AckOnFin(c).st ELSE c.st
  <1> DEFINE f == CtlAfterFinAck(c, s, ack, newest)
             t == IF Drained(s, ack, newest) /\ ~FinDue(c, s, ack, newest)
                  THEN [f EXCEPT !.timer = "inf"] ELSE f
  <1>1. /\ f \in Control
        /\ f.st = IF s.fin \in AckedSegments(s, ack, newest) THEN AckOnFin(c).st ELSE c.st
    BY AckOnFinOK DEF CtlAfterFinAck
  <1>2. CtlAfterAck(c, s, ack, newest) =
          IF AckedSegments(s, ack, newest) # {} THEN Raise(t, {"dataWrite"}) ELSE t
    BY DEF CtlAfterAck
  <1>. HIDE DEF f
  <1>3. t \in Control /\ t.st = f.st
    BY <1>1, TimerOK DEF Timers
  <1>. HIDE DEF t
  <1>. QED  BY <1>1, <1>2, <1>3, RaiseOK

(* An acknowledged fin moves on from the three states that wait for it. *)
LEMMA AckOnFinState ==
  ASSUME NEW c \in Control
  PROVE  \/ AckOnFin(c).st = c.st
         \/ /\ c.st \in {"FIN_WAIT_1", "CLOSING", "LAST_ACK"}
            /\ AckOnFin(c).st \in {"FIN_WAIT_2", "TIME_WAIT", "CLOSED"}
  <1>1. \A new \in {"FIN_WAIT_2", "TIME_WAIT", "CLOSED"} : Transition(c, new).st = new
    BY TransitionOK DEF StreamStates, OpenStates, ClosedStates
  <1>. QED  BY <1>1 DEF AckOnFin

(* The parts of a step that handles an ack extension. *)
LEMMA AckStep ==
  ASSUME IInv, RestOK', NetSafe(net'), NEW e \in End,
         NEW c \in Control, NEW s, NEW r, NEW ack \in Ack, NEW newest,
         HonestAck(rcv[Peer(e)], ack),
         SendSafe(e, s), RecvOK(r), Extends(rcv[e], r), Fresh(c, s, r),
         ctl' = [ctl EXCEPT ![e] = CtlAfterAck(c, s, ack, newest)],
         snd' = [snd EXCEPT ![e] = SendAfterAck(c, s, ack, newest)],
         rcv' = [rcv EXCEPT ![e] = r]
  PROVE  IInv'
  <1> DEFINE d == CtlAfterAck(c, s, ack, newest)
             a == SendAfterAck(c, s, ack, newest)
  <1>1. d \in Control /\ d.st \in {c.st, "FIN_WAIT_2", "TIME_WAIT", "CLOSED"}
    BY CtlAfterAckOK
  <1>2. SendSafe(e, a) /\ (c.st \in Unopened => Outstanding(a) \subseteq Outstanding(s))
    BY SendAfterAckOK
  <1>3. ctl' = [ctl EXCEPT ![e] = d] /\ snd' = [snd EXCEPT ![e] = a]
    OBVIOUS
  <1>. HIDE DEF d, a
  <1>4. Fresh(d, a, r)
    BY <1>1, <1>2 DEF Fresh, Unopened, Unanchored
  <1>. QED  BY <1>1, <1>2, <1>3, <1>4, UpdateStep

(* A packet that carries an ack is a syn ack or an ack, and typed as one.  *)
LEMMA AckingPacket ==
  ASSUME NEW p \in Packets, CarriesAck(p)
  PROVE  /\ p.ack \in Ack /\ p.stamp \in Nat
         /\ p.type = "SYN_ACK" => p \in SynAckPackets
         /\ p.type = "ACK" => p \in AckPackets
  BY DEF CarriesAck, Packets, SynPackets, SynAckPackets, AckPackets, RstPackets

(* RecvSynAck keeps the invariant.                                         *)
LEMMA RecvSynAckOK == ASSUME IInv, NEW e \in End, NEW p \in net, RecvSynAck(e, p) PROVE IInv'
  <1> DEFINE opening == ctl[e].st = "SYN_SENT"
             c == IF opening THEN Transition(ctl[e], "ESTABLISHED") ELSE ctl[e]
             s == IF opening THEN AllocateNextSendSegment(snd[e]) ELSE snd[e]
             o == IF opt[e].replayOff \/ p.nonce
                  THEN [opt[e] EXCEPT !.sendNonce = @ \/ ~opt[e].replayOff]
                  ELSE [opt[e] EXCEPT !.replayOff = TRUE]
             noted == NoteStamp(rcv[e], p.stamp)
             anchored == AnchorRecv(noted, p.seq, p.stamp)
             now == noted.ackNow \/ ctl[e].st = "ESTABLISHED"
             r == IF opening
                  THEN AllocateNextRecvSegment([anchored EXCEPT !.ackNow = TRUE])
                  ELSE [noted EXCEPT !.ackNow = now]
             newest == r.echo <= p.stamp
             n == IF opening THEN Negotiate(o, p) ELSE o
  <1>1. Arrives(e, p, "SYN_ACK")
    BY DEF RecvSynAck
  <1>2. /\ NetSafe(net') /\ env' \in EnvType /\ p \in Packets /\ p.type = "SYN_ACK"
        /\ HonestAck(rcv[Peer(e)], p.ack)
    BY <1>1, ArrivesOK DEF CarriesAck
  <1>3. /\ p.ack \in Ack /\ p.stamp \in Nat /\ p.seq \in Nat
        /\ p.maxSend \in Nat \ {0} /\ p.maxRecv \in Nat \ {0} /\ p.nonce \in BOOLEAN
    BY <1>2, AckingPacket DEF CarriesAck, SynAckPackets
  <1>4. /\ ctl[e].st # "IDLE"
        /\ opt' = [opt EXCEPT ![e] = n]
        /\ rcv' = [rcv EXCEPT ![e] = r]
        /\ ctl' = [ctl EXCEPT ![e] = CtlAfterAck(c, s, p.ack, newest)]
        /\ snd' = [snd EXCEPT ![e] = SendAfterAck(c, s, p.ack, newest)]
        /\ inbox' = inbox /\ app' = app
    BY Zenon DEF RecvSynAck
  <1>5. c \in Control /\ (c.st = "ESTABLISHED" \/ (c.st = ctl[e].st /\ ~opening))
    BY EndFacts, TransitionOK DEF StreamStates, OpenStates
  <1>6. SendSafe(e, s) /\ Outstanding(s) = Outstanding(snd[e])
    BY EndFacts, AllocateNextSendSegmentOK, SameIsSafe DEF SameOutstanding
  <1>7. RecvOK(noted) /\ Extends(rcv[e], noted) /\ noted.max = rcv[e].max
    BY <1>3, EndFacts, NoteStampOK
  <1>8. RecvOK(r) /\ Extends(rcv[e], r)
    <2>. HIDE DEF noted, now
    <2>1. CASE opening
      <3> DEFINE u == [anchored EXCEPT !.ackNow = TRUE]
      <3>1. noted.max = 0
        BY <1>7, <2>1, EndFacts DEF Fresh, Unanchored
      <3>2. RecvOK(anchored) /\ Extends(noted, anchored)
        BY <1>3, <1>7, <3>1, AnchorRecvOK
      <3>3. RecvOK(u) /\ Extends(anchored, u)
        BY <3>2, AckNowOK
      <3>4. RecvOK(AllocateNextRecvSegment(u)) /\ Extends(u, AllocateNextRecvSegment(u))
        BY <3>3, AllocateNextRecvSegmentOK
      <3>5. r = AllocateNextRecvSegment(u)
        BY <2>1
      <3>. HIDE DEF u, anchored, r
      <3>. QED  BY <1>7, <3>2, <3>3, <3>4, <3>5, EndFacts, ExtendsTransitive DEF RecvOK
    <2>2. CASE ~opening
      <3>1. r = [noted EXCEPT !.ackNow = now]
        BY <2>2
      <3>2. now \in BOOLEAN
        BY DEF now
      <3>3. RecvOK(r) /\ Extends(noted, r)
        BY <1>7, <3>1, <3>2, AckNowOK
      <3>. HIDE DEF r
      <3>. QED  BY <1>7, <3>3, EndFacts, ExtendsTransitive DEF RecvOK
    <2>. QED  BY <2>1, <2>2
  <1>9. n \in Options
    <2>1. opt[e] \in Options
      BY EndFacts DEF RestOK
    <2>2. o \in Options
      <3> DEFINE nonce == opt[e].sendNonce \/ ~opt[e].replayOff
      <3>1. nonce \in BOOLEAN
        OBVIOUS
      <3>2. o = [opt[e] EXCEPT !.sendNonce = nonce] \/ o = [opt[e] EXCEPT !.replayOff = TRUE]
        BY Zenon
      <3>. HIDE DEF nonce, o
      <3>. QED  BY <2>1, <3>1, <3>2 DEF Options
    <2>. HIDE DEF o
    <2>. QED  BY <1>3, <2>2, NegotiateOK
  <1>. HIDE DEF c, s, r, newest, n, noted, now, anchored, o
  <1>10. RestOK'
    BY <1>2, <1>4, <1>9, EndFacts DEF RestOK
  <1>11. Fresh(c, s, r)
    BY <1>4, <1>5, <1>6, EndFacts DEF Fresh, Unopened, Unanchored
  <1>. QED  BY <1>2, <1>3, <1>4, <1>5, <1>6, <1>8, <1>10, <1>11, AckStep

(* RecvAck keeps the invariant.                                            *)
LEMMA RecvAckOK == ASSUME IInv, NEW e \in End, NEW p \in net, RecvAck(e, p) PROVE IInv'
  <1> DEFINE c == IF ctl[e].st = "SYN_RCVD" THEN Transition(ctl[e], "ESTABLISHED") ELSE ctl[e]
             r == NoteStamp(rcv[e], p.stamp)
             newest == r.echo <= p.stamp
             validated == opt[e].nonceValidated \/ (~opt[e].replayOff /\ p.nonce)
             o == [opt[e] EXCEPT !.nonceValidated = validated]
             size == IF p.data = {} THEN 0 ELSE p.size
             i == [data |-> p.data, fin |-> p.fin, size |-> size]
  <1>1. Arrives(e, p, "ACK")
    BY DEF RecvAck
  <1>2. /\ NetSafe(net') /\ env' \in EnvType /\ p \in Packets /\ p.type = "ACK"
        /\ HonestAck(rcv[Peer(e)], p.ack)
    BY <1>1, ArrivesOK DEF CarriesAck
  <1>3. /\ p.ack \in Ack /\ p.stamp \in Nat
        /\ p.data \in SUBSET Nat /\ p.fin \in Nat /\ p.size \in Nat
    BY <1>2, AckingPacket DEF CarriesAck, AckPackets
  <1>4. /\ ctl[e].st # "IDLE"
        /\ rcv' = [rcv EXCEPT ![e] = r]
        /\ ctl' = [ctl EXCEPT ![e] = CtlAfterAck(c, snd[e], p.ack, newest)]
        /\ snd' = [snd EXCEPT ![e] = SendAfterAck(c, snd[e], p.ack, newest)]
        /\ app' = app
    BY Zenon DEF RecvAck
  <1>5. opt' = [opt EXCEPT ![e] = o]
    BY DEF RecvAck
  <1>6. inbox' = [inbox EXCEPT ![e] = i]
    BY DEF RecvAck
  <1>7. c \in Control /\ (c.st = "ESTABLISHED" \/ c.st = ctl[e].st)
    BY EndFacts, TransitionOK DEF StreamStates, OpenStates
  <1>8. RecvOK(r) /\ Extends(rcv[e], r) /\ r.max = rcv[e].max
    BY <1>3, EndFacts, NoteStampOK
  <1>9. validated \in BOOLEAN
    OBVIOUS
  <1>10. size \in Nat
    BY <1>3
  <1>. HIDE DEF c, r, newest, validated, size
  <1>11. o \in Options
    BY <1>9, EndFacts DEF RestOK, Options
  <1>12. i \in Inbox
    BY <1>3, <1>10, Zenon DEF Inbox
  <1>. HIDE DEF o, i
  <1>13. RestOK'
    BY <1>2, <1>4, <1>5, <1>6, <1>11, <1>12, EndFacts DEF RestOK
  <1>14. Fresh(c, snd[e], r)
    BY <1>7, <1>8, EndFacts DEF Fresh, Unopened, Unanchored
  <1>. QED  BY <1>2, <1>3, <1>4, <1>7, <1>8, <1>13, <1>14, EndFacts, AckStep

(* RecvAckWithoutNonce keeps the invariant.                                *)
LEMMA RecvAckWithoutNonceOK ==
  ASSUME IInv, NEW e \in End, NEW p \in net, RecvAckWithoutNonce(e, p) PROVE IInv'
  <1> DEFINE r == NoteStamp(rcv[e], p.stamp)
  <1>1. Arrives(e, p, "ACK")
    BY DEF RecvAckWithoutNonce
  <1>2. NetSafe(net') /\ env' \in EnvType /\ p \in Packets /\ p.type = "ACK"
    BY <1>1, ArrivesOK
  <1>3. p.stamp \in Nat
    BY <1>2, AckingPacket DEF CarriesAck
  <1>4. RecvOK(r) /\ Extends(rcv[e], r) /\ r.max = rcv[e].max
    BY <1>3, EndFacts, NoteStampOK
  <1>5. rcv' = [rcv EXCEPT ![e] = r] /\ UNCHANGED <<ctl, snd, opt, inbox, app>>
    BY DEF RecvAckWithoutNonce
  <1>. HIDE DEF r
  <1>6. RestOK'
    BY <1>2, <1>5, EndFacts DEF RestOK
  <1>7. Fresh(ctl[e], snd[e], r)
    BY <1>4, EndFacts DEF Fresh
  <1>. QED  BY <1>2, <1>4, <1>5, <1>6, <1>7, EndFacts, UpdateStep

(* The segments of a packet are handled one by one. *)
LEMMA ParseDataOK == ASSUME IInv, NEW e \in End, ParseData(e) PROVE IInv'
  <1> DEFINE q == CHOOSE x \in inbox[e].data : \A y \in inbox[e].data : x <= y
             rest == inbox[e].data \ {q}
             takes == /\ inbox[e].size <= opt[e].maxRecv
                      /\ ctl[e].st \in {"ESTABLISHED", "CLOSE_WAIT", "FIN_WAIT_1", "FIN_WAIT_2"}
             r == IF takes THEN HandleData(rcv[e], q) ELSE rcv[e]
             c == IF r.top # rcv[e].top THEN Raise(ctl[e], {"dataReady"}) ELSE ctl[e]
             size == IF rest = {} THEN 0 ELSE inbox[e].size
             i == [inbox[e] EXCEPT !.data = rest, !.size = size]
  <1>1. /\ inbox[e].data # {}
        /\ rcv' = [rcv EXCEPT ![e] = r]
        /\ ctl' = [ctl EXCEPT ![e] = IF rcv'[e].top # rcv[e].top
                                     THEN Raise(ctl[e], {"dataReady"}) ELSE ctl[e]]
        /\ UNCHANGED <<snd, opt, app, net, env>>
    BY Zenon DEF ParseData
  <1>2. inbox' = [inbox EXCEPT ![e] = i]
    BY DEF ParseData
  <1>3. /\ inbox[e] \in Inbox /\ inbox[e].data \in SUBSET Nat /\ inbox[e].size \in Nat
        /\ inbox \in [End -> Inbox]
    BY EndFacts DEF RestOK, Inbox
  <1>4. \E x \in inbox[e].data : \A y \in inbox[e].data : x <= y
    BY <1>1, <1>3, LeastElement
  <1>5. q \in Nat
    BY <1>3, <1>4
  <1>. HIDE DEF q
  <1>6. rest \in SUBSET Nat /\ size \in Nat
    BY <1>3
  <1>. HIDE DEF rest, size
  <1>7. i \in Inbox
    BY <1>3, <1>6, Zenon DEF Inbox
  <1>. HIDE DEF i
  <1>8. RestOK' /\ NetSafe(net')
    BY <1>1, <1>2, <1>3, <1>7, EndFacts DEF RestOK
  <1>9. /\ RecvOK(r) /\ Extends(rcv[e], r)
        /\ ctl[e].st \in Unanchored => r = rcv[e]
    BY <1>5, EndFacts, HandleDataOK DEF Unanchored
  <1>. HIDE DEF r, takes
  <1>10. ctl' = [ctl EXCEPT ![e] = c]
    <2>1. rcv'[e] = r
      BY <1>1, EndFacts
    <2>. QED  BY <1>1, <2>1
  <1>11. c \in Control /\ c.st = ctl[e].st
    BY EndFacts, RaiseOK
  <1>. HIDE DEF c
  <1>12. Fresh(c, snd[e], r)
    BY <1>9, <1>11, EndFacts DEF Fresh
  <1>. QED  BY <1>1, <1>8, <1>9, <1>10, <1>11, <1>12, EndFacts, UpdateStep

(* ParseFin keeps the invariant.                                           *)
LEMMA ParseFinOK == ASSUME IInv, NEW e \in End, ParseFin(e) PROVE IInv'
  <1>1. inbox' = [inbox EXCEPT ![e] = EmptyInbox] /\ UNCHANGED <<snd, opt, app, net, env>>
    BY DEF ParseFin
  <1>2. EmptyInbox \in Inbox /\ inbox[e].fin \in Nat
    BY EndFacts DEF EmptyInbox, Inbox, NoFin, RestOK
  <1>3. RestOK' /\ NetSafe(net')
    BY <1>1, <1>2, EndFacts DEF RestOK
  <1>4. CASE ctl[e].st \in {"ESTABLISHED", "FIN_WAIT_1", "FIN_WAIT_2"}
    <2> DEFINE r == HandleFin(rcv[e], inbox[e].fin)
               b == IF r.top # rcv[e].top THEN Raise(ctl[e], {"dataReady"}) ELSE ctl[e]
               c == IF BufferFound(rcv[e], inbox[e].fin)
                    THEN Transition(b, StateAfterFin(ctl[e].st)) ELSE ctl[e]
    <2>1. /\ rcv' = [rcv EXCEPT ![e] = r]
          /\ ctl' = [ctl EXCEPT ![e] =
                       IF BufferFound(rcv[e], inbox[e].fin)
                       THEN Transition(IF rcv'[e].top # rcv[e].top
                                       THEN Raise(ctl[e], {"dataReady"}) ELSE ctl[e],
                                       StateAfterFin(ctl[e].st))
                       ELSE ctl[e]]
      BY <1>4, Zenon DEF ParseFin
    <2>2. RecvOK(r) /\ Extends(rcv[e], r)
      BY <1>2, EndFacts, HandleFinOK
    <2>3. StateAfterFin(ctl[e].st) \in {"CLOSE_WAIT", "CLOSING", "TIME_WAIT"}
      BY <1>4 DEF StateAfterFin
    <2>. HIDE DEF r
    <2>4. ctl' = [ctl EXCEPT ![e] = c]
      <3>1. rcv'[e] = r
        BY <2>1, EndFacts
      <3>. QED  BY <2>1, <3>1
    <2>5. b \in Control
      BY EndFacts, RaiseOK
    <2>. HIDE DEF b
    <2>6. /\ c \in Control
          /\ c.st \in {"CLOSE_WAIT", "CLOSING", "TIME_WAIT", "ESTABLISHED", "FIN_WAIT_1", "FIN_WAIT_2"}
      BY <1>4, <2>3, <2>5, EndFacts, TransitionOK DEF StreamStates, OpenStates
    <2>. HIDE DEF c
    <2>7. Fresh(c, snd[e], r)
      BY <2>6 DEF Fresh, Unopened, Unanchored
    <2>. QED  BY <1>1, <1>3, <2>1, <2>2, <2>4, <2>6, <2>7, EndFacts, UpdateStep
  <1>5. CASE ctl[e].st \notin {"ESTABLISHED", "FIN_WAIT_1", "FIN_WAIT_2"}
    <2> DEFINE r == [rcv[e] EXCEPT !.ackNow = TRUE]
    <2>1. rcv' = [rcv EXCEPT ![e] = r] /\ ctl' = ctl
      BY <1>5 DEF ParseFin
    <2>2. RecvOK(r) /\ Extends(rcv[e], r) /\ r.max = rcv[e].max
      BY EndFacts, AckNowOK
    <2>. HIDE DEF r
    <2>3. Fresh(ctl[e], snd[e], r)
      BY <2>2, EndFacts DEF Fresh
    <2>. QED  BY <1>1, <1>3, <2>1, <2>2, <2>3, EndFacts, UpdateStep
  <1>. QED  BY <1>4, <1>5

(* RecvRst keeps the invariant.                                            *)
LEMMA RecvRstOK == ASSUME IInv, NEW e \in End, NEW p \in net, RecvRst(e, p) PROVE IInv'
  <1>1. Arrives(e, p, "RST")
    BY DEF RecvRst
  <1>2. NetSafe(net') /\ env' \in EnvType
    BY <1>1, ArrivesOK
  <1>3. UNCHANGED <<snd, rcv, opt, inbox, app>>
    BY DEF RecvRst
  <1>4. RestOK'
    BY <1>2, <1>3, EndFacts DEF RestOK
  <1>5. PICK c \in {ctl[e], Transition(ctl[e], "CLOSED"), Transition(ctl[e], "ABORTED_RST")} :
          ctl' = [ctl EXCEPT ![e] = c]
    BY DEF RecvRst
  <1>6. c \in Control /\ c.st \in {ctl[e].st, "CLOSED", "ABORTED_RST"}
    BY <1>5, EndFacts, TransitionOK DEF StreamStates, ClosedStates
  <1>. QED  BY <1>2, <1>3, <1>4, <1>5, <1>6, ControlStep DEF Unopened, Unanchored

(* AnswerRst keeps the invariant.                                          *)
LEMMA AnswerRstOK == ASSUME IInv, NEW e \in End, NEW p \in net, AnswerRst(e, p) PROVE IInv'
  <1>1. NetSafe(net \ {p})
    BY EndFacts, NetShrinks
  <1>2. NetSafe((net \ {p}) \cup {RstPacket(e)})
    BY <1>1, RstPacketOK, NetGrows
  <1>3. NetSafe((net \ {p}) \cup {})
    BY <1>1, NetShrinks
  <1>4. NetSafe(net')
    BY <1>2, <1>3 DEF AnswerRst
  <1>5. RestOK'
    BY EndFacts DEF AnswerRst, RestOK
  <1>. QED  BY <1>4, <1>5, NetStep DEF AnswerRst
-----------------------------------------------------------------------------
(* The application.                                                        *)

LEMMA OpenOK == ASSUME IInv, NEW e \in End, Open(e) PROVE IInv'
  <1> DEFINE c == Transition(ctl[e], "SYN_SENT")
             s == [snd[e] EXCEPT !.xmit = StartSeq[e]]
  <1>1. ctl[e].st = "IDLE"
    BY DEF Open
  <1>2. Outstanding(snd[e]) = {} /\ rcv[e].max = 0
    BY <1>1, EndFacts DEF Fresh, Unopened, Unanchored
  <1>3. StartSeq[e] \in Nat
    BY PairAssumption
  <1>4. SendOK(s) /\ s.xmit = StartSeq[e] /\ s.adv = snd[e].adv
    BY <1>2, <1>3, EndFacts, StartOK
  <1>5. c \in Control /\ c.st = "SYN_SENT"
    BY EndFacts, TransitionOK DEF StreamStates, OpeningStates
  <1>6. ctl' = [ctl EXCEPT ![e] = c] /\ snd' = [snd EXCEPT ![e] = s] /\ rcv' = rcv
    BY DEF Open
  <1>7. RestOK' /\ NetSafe(net')
    BY EndFacts DEF Open, RestOK
  <1>. HIDE DEF c, s
  <1>8. SendSafe(e, s)
    BY <1>3, <1>4, EndFacts DEF SendSafe
  <1>9. Fresh(c, s, rcv[e])
    BY <1>2, <1>5 DEF Fresh, Unopened
  <1>. QED  BY <1>5, <1>6, <1>7, <1>8, <1>9, EndFacts, UpdateStep

(* Accept keeps the invariant.                                             *)
LEMMA AcceptOK == ASSUME IInv, NEW e \in End, Accept(e) PROVE IInv'
  <1> DEFINE c == Transition(ctl[e], "SYN_RCVD")
             n == [snd[e] EXCEPT !.xmit = StartSeq[e]]
             s == AllocateNextSendSegment(n)
             r == AllocateNextRecvSegment(rcv[e])
  <1>1. Outstanding(snd[e]) = {}
    BY EndFacts DEF Accept, Fresh, Unopened
  <1>2. StartSeq[e] \in Nat
    BY PairAssumption
  <1>3. SendOK(n) /\ n.xmit = StartSeq[e] /\ n.adv = snd[e].adv
    BY <1>1, <1>2, EndFacts, StartOK
  <1>4. c \in Control /\ c.st = "SYN_RCVD"
    BY EndFacts, TransitionOK DEF StreamStates, OpeningStates
  <1>5. /\ ctl' = [ctl EXCEPT ![e] = c] /\ snd' = [snd EXCEPT ![e] = s]
        /\ rcv' = [rcv EXCEPT ![e] = r]
    BY DEF Accept
  <1>6. RestOK' /\ NetSafe(net')
    BY EndFacts DEF Accept, RestOK
  <1>7. RecvOK(r) /\ Extends(rcv[e], r)
    BY EndFacts, AllocateNextRecvSegmentOK
  <1>. HIDE DEF c, n, r
  <1>8. SendSafe(e, n)
    BY <1>2, <1>3, EndFacts DEF SendSafe
  <1>9. SendSafe(e, s)
    BY <1>3, <1>8, AllocateNextSendSegmentOK, SameIsSafe
  <1>. HIDE DEF s
  <1>10. Fresh(c, s, r)
    BY <1>4 DEF Fresh, Unopened, Unanchored
  <1>. QED  BY <1>4, <1>5, <1>6, <1>7, <1>9, <1>10, UpdateStep

(* Write keeps the invariant.                                              *)
LEMMA WriteOK == ASSUME IInv, NEW e \in End, NEW n \in 1..MaxSegsPerWrite, Write(e, n) PROVE IInv'
  <1> DEFINE s == WriteSegments(snd[e], n)
             timer == IF ctl[e].timer = "inf" THEN "future" ELSE ctl[e].timer
             c == [ctl[e] EXCEPT !.timer = timer]
  <1>1. n \in Nat /\ StartSeq[e] \in Nat
    BY PairAssumption
  <1>2. /\ SendOK(s) /\ s.xmit = snd[e].xmit + n /\ s.adv = snd[e].adv
        /\ Outstanding(s) = Outstanding(snd[e]) \cup ((snd[e].xmit + 1) .. (snd[e].xmit + n))
    BY <1>1, EndFacts, WriteSegmentsOK
  <1>3. /\ ctl' = [ctl EXCEPT ![e] = c] /\ snd' = [snd EXCEPT ![e] = s] /\ rcv' = rcv
        /\ ctl[e].st \in WritableStates
    BY DEF Write
  <1>4. timer \in Timers
    BY EndFacts DEF Control, Timers
  <1>. HIDE DEF s, timer
  <1>5. c \in Control /\ c.st = ctl[e].st
    BY <1>4, EndFacts, TimerOK
  <1>6. RestOK' /\ NetSafe(net')
    BY EndFacts DEF Write, RestOK
  <1>7. snd[e].xmit \in Nat
    BY EndFacts DEF SendOK, SendHalf
  <1>8. SendSafe(e, s)
    BY <1>1, <1>2, <1>7, EndFacts DEF SendSafe
  <1>. HIDE DEF c
  <1>9. Fresh(c, s, rcv[e])
    BY <1>3, <1>5 DEF Fresh, Unopened, Unanchored, WritableStates
  <1>. QED  BY <1>3, <1>5, <1>6, <1>8, <1>9, EndFacts, UpdateStep

(* Read keeps the invariant.                                               *)
LEMMA ReadOK == ASSUME IInv, NEW e \in End, Read(e) PROVE IInv'
  <1> DEFINE r == ReadSegment(rcv[e])
             g == Append(app[e].got, Head(rcv[e].readq))
             a == [app[e] EXCEPT !.got = g]
  <1>1. rcv[e].readq # <<>>
    BY DEF Read, CanRead, HasData
  <1>2. RecvOK(r) /\ Extends(rcv[e], r) /\ r.max = rcv[e].max /\ Head(rcv[e].readq) \in Nat
    BY <1>1, EndFacts, ReadSegmentOK
  <1>3. rcv' = [rcv EXCEPT ![e] = r] /\ app' = [app EXCEPT ![e] = a]
    BY DEF Read
  <1>4. UNCHANGED <<ctl, snd, opt, inbox, net, env>>
    BY DEF Read
  <1>5. app \in [End -> [got : Seq(Nat), eof : BOOLEAN, closed : BOOLEAN]]
    BY EndFacts DEF RestOK
  <1>6. g \in Seq(Nat)
    BY <1>2, <1>5, AppendProperties
  <1>. HIDE DEF r, g
  <1>7. a \in [got : Seq(Nat), eof : BOOLEAN, closed : BOOLEAN]
    BY <1>5, <1>6
  <1>. HIDE DEF a
  <1>8. RestOK' /\ NetSafe(net')
    BY <1>3, <1>4, <1>5, <1>7, EndFacts DEF RestOK
  <1>9. Fresh(ctl[e], snd[e], r)
    BY <1>2, EndFacts DEF Fresh
  <1>. QED  BY <1>2, <1>3, <1>4, <1>8, <1>9, EndFacts, UpdateStep

(* ReadEof keeps the invariant.                                            *)
LEMMA ReadEofOK == ASSUME IInv, NEW e \in End, ReadEof(e) PROVE IInv'
  <1>1. app' = [app EXCEPT ![e].eof = TRUE] /\ UNCHANGED <<ctl, snd, rcv, opt, inbox, net, env>>
    BY DEF ReadEof
  <1>2. RestOK' /\ NetSafe(net')
    BY <1>1, EndFacts DEF RestOK
  <1>. QED  BY <1>1, <1>2, NetStep

(* Close keeps the invariant.                                              *)
LEMMA CloseOK == ASSUME IInv, NEW e \in End, Close(e) PROVE IInv'
  <1>1. app' = [app EXCEPT ![e].closed = TRUE] /\ UNCHANGED <<rcv, opt, inbox, net>>
    BY DEF Close
  <1>2. NetSafe(net')
    BY <1>1, EndFacts
  <1>3. CASE ctl[e].st \in {"ESTABLISHED", "CLOSE_WAIT"}
    <2> DEFINE s == FinOnClose(snd[e])
               c == Transition(ctl[e], IF ctl[e].st = "ESTABLISHED" THEN "FIN_WAIT_1" ELSE "LAST_ACK")
    <2>1. /\ snd' = [snd EXCEPT ![e] = s] /\ ctl' = [ctl EXCEPT ![e] = c] /\ env' = env
      BY <1>3 DEF Close, OpeningStates
    <2>2. c \in Control /\ c.st \in {"FIN_WAIT_1", "LAST_ACK"}
      BY EndFacts, TransitionOK DEF StreamStates, OpenStates
    <2>3. SendSafe(e, AddFinSegment(snd[e]))
      <3>1. snd[e].xmit \in Nat /\ StartSeq[e] \in Nat
        BY EndFacts, PairAssumption DEF SendOK, SendHalf
      <3>2. /\ SendOK(AddFinSegment(snd[e])) /\ AddFinSegment(snd[e]).xmit = snd[e].xmit + 1
            /\ AddFinSegment(snd[e]).adv = snd[e].adv
            /\ Outstanding(AddFinSegment(snd[e])) = Outstanding(snd[e]) \cup {snd[e].xmit + 1}
        BY EndFacts, AddFinSegmentOK
      <3>3. SendSafe(e, snd[e])
        BY EndFacts
      <3>. QED  BY <3>1, <3>2, <3>3 DEF SendSafe
    <2>4. SendSafe(e, s)
      BY <2>3, EndFacts DEF FinOnClose
    <2>5. RestOK'
      BY <1>1, <2>1, EndFacts DEF RestOK
    <2>. HIDE DEF s, c
    <2>6. Fresh(c, s, rcv[e])
      BY <2>2 DEF Fresh, Unopened, Unanchored
    <2>. QED  BY <1>1, <1>2, <2>1, <2>2, <2>4, <2>5, <2>6, EndFacts, UpdateStep
  <1>4. CASE ctl[e].st \notin {"ESTABLISHED", "CLOSE_WAIT"}
    <2> DEFINE c == Transition(ctl[e], "ABORTED")
    <2>1. /\ ctl' = [ctl EXCEPT ![e] = c] /\ snd' = snd
          /\ env.aborts > 0 /\ env' = [env EXCEPT !.aborts = @ - 1]
      BY <1>4 DEF Close
    <2>2. c \in Control /\ c.st = "ABORTED"
      BY EndFacts, TransitionOK DEF StreamStates, ClosedStates
    <2>3. env' \in EnvType
      BY <2>1, EndFacts, SpendOK DEF RestOK
    <2>4. RestOK'
      BY <1>1, <2>3, EndFacts DEF RestOK
    <2>. HIDE DEF c
    <2>. QED  BY <1>1, <1>2, <2>1, <2>2, <2>4, ControlStep DEF Unopened, Unanchored
  <1>. QED  BY <1>3, <1>4
-----------------------------------------------------------------------------
(* The integrator and the network.                                         *)

LEMMA ReleaseOK == ASSUME IInv, NEW e \in End, Release(e) PROVE IInv'
  <1> DEFINE c == [st |-> "RELEASED", timer |-> "inf", ev |-> {}]
  <1>1. c \in Control /\ c.st = "RELEASED"
    BY DEF Control, StreamStates, Timers
  <1>2. ctl' = [ctl EXCEPT ![e] = c] /\ UNCHANGED <<snd, rcv, opt, inbox, app>>
    BY DEF Release
  <1>3. env' \in EnvType
    BY EndFacts, SpendOK DEF Release, RestOK
  <1>4. NetSafe(net \cup {RstPacket(e)})
    BY EndFacts, RstPacketOK, NetGrows
  <1>5. NetSafe(net')
    BY <1>4, EndFacts DEF Release
  <1>6. RestOK'
    BY <1>2, <1>3, EndFacts DEF RestOK
  <1>. HIDE DEF c
  <1>. QED  BY <1>1, <1>2, <1>5, <1>6, ControlStep DEF Unopened, Unanchored

(* ConnectionDied keeps the invariant.                                     *)
LEMMA ConnectionDiedOK == ASSUME IInv, NEW e \in End, ConnectionDied(e) PROVE IInv'
  <1> DEFINE c == Transition(ctl[e], IF ctl[e].st = "LAST_ACK" THEN "CLOSED" ELSE "ABORTED_RST")
  <1>1. c \in Control /\ c.st \in {"CLOSED", "ABORTED_RST"}
    BY EndFacts, TransitionOK DEF StreamStates, ClosedStates
  <1>2. ctl' = [ctl EXCEPT ![e] = c] /\ UNCHANGED <<snd, rcv, opt, inbox, app, net>>
    BY DEF ConnectionDied
  <1>3. env' \in EnvType
    BY EndFacts, SpendOK DEF ConnectionDied, RestOK
  <1>4. RestOK' /\ NetSafe(net')
    BY <1>2, <1>3, EndFacts DEF RestOK
  <1>. HIDE DEF c
  <1>. QED  BY <1>1, <1>2, <1>4, ControlStep DEF Unopened, Unanchored

(* SegmentAvailable keeps the invariant.                                   *)
LEMMA SegmentAvailableOK == ASSUME IInv, NEW e \in End, SegmentAvailable(e) PROVE IInv'
  <1>1. UNCHANGED <<opt, inbox, app, net>>
    BY DEF SegmentAvailable
  <1>2. env' \in EnvType
    BY EndFacts, SpendOK DEF SegmentAvailable, RestOK
  <1>3. RestOK' /\ NetSafe(net')
    BY <1>1, <1>2, EndFacts DEF RestOK
  <1>4. CASE /\ rcv' = [rcv EXCEPT ![e] = AllocateNextRecvSegment(rcv[e])]
             /\ UNCHANGED <<ctl, snd>>
    <2> DEFINE r == AllocateNextRecvSegment(rcv[e])
    <2>1. RecvOK(r) /\ Extends(rcv[e], r) /\ r.max = rcv[e].max
      BY EndFacts, AllocateNextRecvSegmentOK
    <2>2. rcv' = [rcv EXCEPT ![e] = r] /\ UNCHANGED <<ctl, snd>>
      BY <1>4
    <2>. HIDE DEF r
    <2>3. Fresh(ctl[e], snd[e], r)
      BY <2>1, EndFacts DEF Fresh
    <2>. QED  BY <1>3, <2>1, <2>2, <2>3, EndFacts, UpdateStep
  <1>5. CASE /\ snd' = [snd EXCEPT ![e] = AllocateNextSendSegment(snd[e])]
             /\ ctl' = [ctl EXCEPT ![e] = IF snd[e].segWait THEN Raise(ctl[e], {"dataWrite"}) ELSE ctl[e]]
             /\ rcv' = rcv
    <2> DEFINE s == AllocateNextSendSegment(snd[e])
               c == IF snd[e].segWait THEN Raise(ctl[e], {"dataWrite"}) ELSE ctl[e]
    <2>1. SendSafe(e, s) /\ Outstanding(s) = Outstanding(snd[e])
      BY EndFacts, AllocateNextSendSegmentOK, SameIsSafe DEF SameOutstanding
    <2>2. c \in Control /\ c.st = ctl[e].st
      BY EndFacts, RaiseOK
    <2>3. snd' = [snd EXCEPT ![e] = s] /\ ctl' = [ctl EXCEPT ![e] = c] /\ rcv' = rcv
      BY <1>5
    <2>. HIDE DEF s, c
    <2>4. Fresh(c, s, rcv[e])
      BY <2>1, <2>2, EndFacts DEF Fresh
    <2>. QED  BY <1>3, <2>1, <2>2, <2>3, <2>4, EndFacts, UpdateStep
  <1>. QED  BY <1>4, <1>5 DEF SegmentAvailable

(* EarlyTimer keeps the invariant.                                         *)
LEMMA EarlyTimerOK == ASSUME IInv, NEW e \in End, EarlyTimer(e) PROVE IInv'
  <1> DEFINE c == [ctl[e] EXCEPT !.timer = "now"]
  <1>1. c \in Control /\ c.st = ctl[e].st
    BY EndFacts, TimerOK DEF Timers
  <1>2. ctl' = [ctl EXCEPT ![e] = c] /\ UNCHANGED <<snd, rcv, opt, inbox, app, net>>
    BY DEF EarlyTimer
  <1>3. env' \in EnvType
    BY EndFacts, SpendOK DEF EarlyTimer, RestOK
  <1>4. RestOK' /\ NetSafe(net')
    BY <1>2, <1>3, EndFacts DEF RestOK
  <1>. HIDE DEF c
  <1>. QED  BY <1>1, <1>2, <1>4, ControlStep

(* Lose keeps the invariant.                                               *)
LEMMA LoseOK == ASSUME IInv, NEW p \in net, Lose(p) PROVE IInv'
  <1>1. RestOK /\ NetSafe(net)
    BY DEF IInv
  <1>2. NetSafe(net')
    BY <1>1, NetShrinks DEF Lose
  <1>3. env' \in EnvType
    BY <1>1, SpendOK DEF Lose, RestOK
  <1>4. RestOK'
    BY <1>1, <1>3 DEF Lose, RestOK
  <1>. QED  BY <1>2, <1>4, NetStep DEF Lose

(* Silence keeps the invariant.                                            *)
LEMMA SilenceOK == ASSUME IInv, Silence PROVE IInv'
  <1>1. UNCHANGED <<snd, rcv, opt, inbox, app, net, env>>
    BY DEF Silence
  <1>2. ctl' = [e \in End |-> IF ctl[e].timer = "future" THEN [ctl[e] EXCEPT !.timer = "now"] ELSE ctl[e]]
    BY DEF Silence
  <1>3. ASSUME NEW e \in End PROVE ctl'[e] \in Control /\ ctl'[e].st = ctl[e].st
    BY <1>2, EndFacts, TimerOK DEF Timers
  <1>4. ctl' \in [End -> Control]
    BY <1>2, <1>3
  <1>5. RestOK' /\ NetSafe(net')
    BY <1>1 DEF IInv, RestOK
  <1>6. ASSUME NEW f \in End
        PROVE  /\ SendSafe(f, snd'[f])
               /\ RecvOK(rcv'[f]) /\ Extends(rcv[f], rcv'[f])
               /\ Fresh(ctl'[f], snd'[f], rcv'[f])
    BY <1>1, <1>3, EndFacts DEF Fresh
  <1>7. DOMAIN snd' = End /\ rcv' \in [End -> RecvHalf]
    BY <1>1 DEF IInv, EndsOK
  <1>. QED  BY <1>4, <1>5, <1>6, <1>7, StepOK
-----------------------------------------------------------------------------
(* The invariant holds before anything is sent.                            *)
LEMMA InitOK == ASSUME Init PROVE IInv
  <1>1. PICK send \in [End -> SegmentSizes], recv \in [End -> SegmentSizes], protected \in ReplayChoices :
          opt = [e \in End |-> [maxSend |-> send[e], maxRecv |-> recv[e],
                                replayOff |-> e \notin protected,
                                nonceValidated |-> e = Initiator, sendNonce |-> FALSE]]
    BY DEF Init
  <1>2. opt \in [End -> Options]
    <2>1. ASSUME NEW e \in End, NEW a \in BOOLEAN, NEW b \in BOOLEAN
          PROVE  [maxSend |-> send[e], maxRecv |-> recv[e], replayOff |-> a,
                  nonceValidated |-> b, sendNonce |-> FALSE] \in Options
      BY PairAssumption DEF Options
    <2>2. ASSUME NEW e \in End
          PROVE  [maxSend |-> send[e], maxRecv |-> recv[e], replayOff |-> e \notin protected,
                  nonceValidated |-> e = Initiator, sendNonce |-> FALSE] \in Options
      BY <2>1, Zenon
    <2>. QED  BY <1>1, <2>2, Zenon
  <1>3. /\ ctl \in [End -> Control] /\ \A e \in End : ctl[e].st = "IDLE"
    BY DEF Init, Control, StreamStates, Timers
  <1>4. /\ snd = [e \in End |-> InitSend] /\ rcv = [e \in End |-> InitRecv]
    BY DEF Init
  <1>5. InitRecv \in RecvHalf /\ InitRecv.max = 0 /\ InitRecv.top = 0 /\ RecvOK(InitRecv)
    <2>1. InitRecv \in RecvHalf
      BY EmptySeq DEF InitRecv, RecvHalf, NoFin
    <2>2. /\ InitRecv.top = 0 /\ InitRecv.max = 0 /\ InitRecv.alloc = 0
          /\ InitRecv.filled = {} /\ InitRecv.readq = <<>>
      BY DEF InitRecv
    <2>3. MaxRecvSegments \in Nat /\ RecvPool \in Nat
      BY ReceiverAssumption
    <2>4. Len(InitRecv.readq) = 0
      BY <2>2, EmptySeq
    <2>5. RecvSegmentsFree(InitRecv) >= 0
      BY <2>2, <2>3, <2>4 DEF RecvSegmentsFree
    <2>6. WindowOK(InitRecv)
      BY <2>2, <2>3 DEF WindowOK
    <2>. QED  BY <2>1, <2>2, <2>5, <2>6 DEF RecvOK
  <1>6. SendOK(InitSend) /\ Outstanding(InitSend) = {} /\ InitSend.xmit = 0 /\ InitSend.adv = 0
    BY InitSendOK DEF InitSend
  <1>7. ASSUME NEW e \in End PROVE SendSafe(e, snd[e]) /\ RecvOK(rcv[e]) /\ Fresh(ctl[e], snd[e], rcv[e])
    <2>1. snd[e] = InitSend /\ rcv[e] = InitRecv /\ rcv[Peer(e)] = InitRecv
      BY <1>4, PeerFacts
    <2>2. StartSeq[e] \in Nat /\ MaxRecvSegments \in Nat
      BY PairAssumption, ReceiverAssumption
    <2>3. SendSafe(e, snd[e])
      BY <1>5, <1>6, <2>1, <2>2 DEF SendSafe
    <2>. QED  BY <1>5, <1>6, <2>1, <2>3 DEF Fresh
  <1>8. EndsOK
    BY <1>3, <1>4, <1>5, <1>7 DEF EndsOK
  <1>9. NetSafe(net)
    BY FS_EmptySet DEF Init, NetSafe
  <1>10. inbox \in [End -> Inbox]
    BY DEF Init, EmptyInbox, Inbox, NoFin
  <1>11. app \in [End -> [got : Seq(Nat), eof : BOOLEAN, closed : BOOLEAN]]
    BY EmptySeq DEF Init
  <1>12. env \in EnvType
    BY PairAssumption DEF Init, EnvType
  <1>. QED  BY <1>2, <1>8, <1>9, <1>10, <1>11, <1>12 DEF IInv, RestOK

(* Every step of either end, of the network and of time keeps the          *)
(* invariant.                                                              *)
LEMMA NextOK == ASSUME IInv, [Next]_vars PROVE IInv'
  <1>1. ASSUME NEW e \in End, Loop(e) PROVE IInv'
    BY <1>1, PollOK, QueueAcceptOK, SendSynOK, SendSynAckOK, SendDataOK, SendAckOK,
       TimeoutOK, SendRstOK, DispatchEventOK, TimeWaitOK, Zenon DEF Loop
  <1>2. ASSUME NEW e \in End, Parse(e) PROVE IInv'
    BY <1>2, ParseDataOK, ParseFinOK, Zenon DEF Parse
  <1>3. ASSUME NEW e \in End, Application(e) PROVE IInv'
    BY <1>3, OpenOK, AcceptOK, ReadOK, ReadEofOK, CloseOK, WriteOK, Zenon DEF Application
  <1>4. ASSUME NEW e \in End, Integrator(e) PROVE IInv'
    BY <1>4, ReleaseOK, ConnectionDiedOK, SegmentAvailableOK, EarlyTimerOK, Zenon DEF Integrator
  <1>5. ASSUME NEW e \in End, NEW p \in net, Receive(e, p) PROVE IInv'
    BY <1>5, RecvSynOK, RecvSynAckOK, RecvAckOK, RecvAckWithoutNonceOK, RecvRstOK,
       AnswerRstOK, Zenon DEF Receive
  <1>6. CASE UNCHANGED vars
    <2>1. RestOK' /\ NetSafe(net') /\ UNCHANGED <<ctl, snd, rcv>>
      BY <1>6 DEF vars, IInv, RestOK
    <2>. QED  BY <2>1, NetStep
  <1>. QED  BY <1>1, <1>2, <1>3, <1>4, <1>5, <1>6, LoseOK, SilenceOK, Zenon DEF Next
-----------------------------------------------------------------------------
(* The inductive invariant holds in every reachable state. *)
THEOREM Invariance == Spec => []IInv
  <1>1. Init => IInv
    BY InitOK
  <1>2. IInv /\ [Next]_vars => IInv'
    BY NextOK
  <1>. QED  BY <1>1, <1>2, PTL DEF Spec

(* Every part of both streams keeps its type: counters of segments stay    *)
(* natural numbers, what CHOOSE picks exists, and packets are well formed. *)
THEOREM TypeCorrect == Spec => []TypeOK
  <1>1. IInv => TypeOK
    BY DEF IInv, EndsOK, RestOK, EnvType, NetSafe, SendSafe, SendOK, TypeOK
  <1>. QED  BY <1>1, Invariance, PTL

(* The receive window of nabto_stream_find_recv_buffer and                 *)
(* move_segments_from_recv_window_to_recv_read is always well formed.      *)
THEOREM WindowWellFormed == Spec => []RecvWindowOK
  <1>1. IInv => RecvWindowOK
    BY DEF IInv, EndsOK, RecvOK, WindowOK, RecvWindowOK
  <1>. QED  BY <1>1, Invariance, PTL

(* A segment that segment_has_been_acked frees has reached the peer,       *)
(* whatever is lost, repeated, overtaken or late.                          *)
THEOREM NothingLost == Spec => []NoDataLoss
  <1>1. IInv => NoDataLoss
    BY DEF IInv, EndsOK, SendSafe, NoDataLoss
  <1>. QED  BY <1>1, Invariance, PTL

(* No stale or reordered ack makes maxAdvertisedWindow larger than what    *)
(* the receiver can take.                                                  *)
THEOREM WindowNeverOverstated == Spec => []WindowHonest
  <1>1. IInv => WindowHonest
    BY DEF IInv, EndsOK, SendSafe, WindowHonest
  <1>. QED  BY <1>1, Invariance, PTL
=============================================================================
