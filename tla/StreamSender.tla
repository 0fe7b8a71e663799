---------------------------- MODULE StreamSender ----------------------------
(***************************************************************************)
(* The sending half of a stream: the segments the application has written  *)
(* and the peer has not acknowledged, the advertised window, the           *)
(* congestion tokens and the fin segment.                                  *)
(*                                                                         *)
(* The code keeps segments on three intrusive lists, each sorted by        *)
(* sequence number; here a list is the set of its sequence numbers and its *)
(* head is the least of them.  Sequence numbers are the unwrapped          *)
(* integers: StreamSeq shows that the 32 bit serial comparison of the code *)
(* agrees with < on them.                                                  *)
(*                                                                         *)
(* A send half is a record with the fields                                 *)
(*   xmit     xmitMaxAllocated, the last sequence number given to a segment*)
(*   unacked  sent and not acknowledged                                    *)
(*   resend   the part of unacked that is to be sent again                 *)
(*   sendq    sendList, written and not sent                               *)
(*   stamp    logicalSentStamp of each segment of unacked                  *)
(*   late     ackedAfter of each segment of unacked                        *)
(*   fin      sequence number of finSegment, NoSeq while it is B_IDLE      *)
(*   adv      maxAdvertisedWindow                                          *)
(*   probed   segmentSentAfterTimeout                                      *)
(*   flight, cwnd, cwndMax, lost   flightSize, cwnd, cwndMax, and          *)
(*            lostSegmentSeq (NoSeq while lostSegment is false)            *)
(*   hasSeg   nextUnfilledSendSegment is not NULL                          *)
(*   segWait  sendSegmentAllocationStamp is in the future                  *)
(*   clock    logicalTimestamp, the stamp of the next packet               *)
(***************************************************************************)
EXTENDS Integers, FiniteSets

CONSTANTS
  CwndInitial,      \* NABTO_STREAM_CWND_INITIAL_VALUE
  SlowStartMin,     \* NABTO_STREAM_SLOW_START_MIN_VALUE
  MaxSendListSize,  \* NABTO_STREAM_MAX_SEND_LIST_SIZE
  MaxFlightSize,    \* NABTO_STREAM_MAX_FLIGHT_SIZE
  SendPool          \* segments the module's send segment allocator can give

ASSUME SenderAssumption ==
  /\ CwndInitial \in Nat \ {0}
  /\ SlowStartMin \in Nat \ {0, 1}
  /\ MaxSendListSize \in Nat
  /\ MaxFlightSize \in Nat
  /\ SendPool \in Nat
  /\ SendPool < SlowStartMin

(* A sequence number no segment has: segments are numbered from start + 1. *)
NoSeq == 0

(* handle_nack_iterator acts when ackedAfter reaches 2, so the counts above *)
(* 2 are one value.                                                        *)
LateCap == 3

(* A send half whose unacked segments are U. *)
SendHalf(U) ==
  [ xmit : Nat, unacked : {U}, resend : SUBSET Nat, sendq : SUBSET Nat,
    stamp : [U -> Nat], late : [U -> 0..LateCap],
    fin : Nat, adv : Nat, probed : BOOLEAN,
    flight : Int, cwnd : Int, cwndMax : Int, lost : Nat,
    hasSeg : BOOLEAN, segWait : BOOLEAN, clock : Nat ]

(* nabto_stream_init and nabto_stream_congestion_control_init. *)
InitSend ==
  [ xmit |-> 0, unacked |-> {}, resend |-> {}, sendq |-> {},
    stamp |-> [q \in {} |-> 0], late |-> [q \in {} |-> 0],
    fin |-> NoSeq, adv |-> 0, probed |-> FALSE,
    flight |-> 0, cwnd |-> CwndInitial, cwndMax |-> CwndInitial, lost |-> NoSeq,
    hasSeg |-> FALSE, segWait |-> FALSE, clock |-> 0 ]

Outstanding(s) == s.unacked \cup s.sendq

(* The application data among the segments numbered so far. *)
LastData(s) == IF s.fin = NoSeq THEN s.xmit ELSE s.xmit - 1

LargerOf(a, b) == IF a < b THEN b ELSE a

LargestOf(S) == CHOOSE m \in S : \A x \in S : x <= m
-----------------------------------------------------------------------------
(* Send segment allocation.  The finSegment is part of the stream and is   *)
(* not taken from the allocator.                                           *)

SendSegmentsFree(s) ==
  SendPool - Cardinality(Outstanding(s) \ {s.fin}) - (IF s.hasSeg THEN 1 ELSE 0)

AllocateNextSendSegment(s) ==
  IF s.hasSeg THEN s
  ELSE IF SendSegmentsFree(s) > 0
       THEN [s EXCEPT !.hasSeg = TRUE, !.segWait = FALSE]
       ELSE [s EXCEPT !.segWait = TRUE]
-----------------------------------------------------------------------------
(* Writing.                                                                *)

(* nabto_stream_congestion_control_accept_more_data. *)
AcceptMoreData(s) ==
  LET queued == Cardinality(s.sendq)
  IN  /\ queued <= s.cwnd
      /\ queued + s.flight <= s.cwndMax
      /\ queued <= MaxSendListSize
      /\ s.flight <= MaxFlightSize

(* nabto_stream_can_write. *)
CanWrite(s) == s.hasSeg /\ s.xmit <= s.adv /\ AcceptMoreData(s)

(* n turns of the loop of nabto_stream_write_buffer, each of which takes   *)
(* the unfilled segment and asks the allocator for the next one.           *)
WriteSegments(s, n) ==
  [s EXCEPT !.xmit = @ + n,
            !.sendq = @ \cup ((s.xmit + 1) .. (s.xmit + n)),
            !.hasSeg = n <= SendSegmentsFree(s),
            !.segWait = n > SendSegmentsFree(s)]

(* nabto_stream_add_fin_segment_to_send_lists. *)
AddFinSegment(s) ==
  [s EXCEPT !.xmit = @ + 1, !.fin = s.xmit + 1, !.sendq = @ \cup {s.xmit + 1}]
-----------------------------------------------------------------------------
(* Sending.                                                                *)

(* nabto_stream_flow_control_can_send. *)
FlowControlCanSend(s, q) == q <= s.adv \/ ~s.probed

Sendable(s) == {q \in s.resend \cup s.sendq : FlowControlCanSend(s, q)}

(* The two tests of next_event_to_handle that answer ET_DATA; the head of a *)
(* list is sendable if any segment on it is.                               *)
DataToSend(s) == s.cwnd > 0 /\ Sendable(s) # {}

(* nabto_stream_write_data_to_packet fills a packet from the head of the   *)
(* resend list, then from the head of the send list, until the window or   *)
(* the room in the packet ends; how many segments fit depends on their     *)
(* sizes.  `out` is the segments written, each by write_segment.           *)
PacketFill(s, out) ==
  /\ out \subseteq Sendable(s)
  /\ \A q \in out : \A p \in Sendable(s) : p < q => p \in out

(* Faulty variant: write_segment does not stamp the segment. *)
WriteDataWithoutStamp(s, out) ==
  [s EXCEPT !.unacked = @ \cup out, !.resend = @ \ out, !.sendq = @ \ out,
            !.late = [q \in s.unacked \cup out |-> IF q \in out THEN 0 ELSE s.late[q]],
            !.flight = @ + Cardinality(out \cap s.sendq),
            !.cwnd = @ - Cardinality(out),
            !.clock = @ + 1]

WriteDataToPacket(s, out) ==
  [s EXCEPT !.unacked = @ \cup out, !.resend = @ \ out, !.sendq = @ \ out,
            !.stamp = [q \in s.unacked \cup out |-> IF q \in out THEN s.clock ELSE s.stamp[q]],
            !.late = [q \in s.unacked \cup out |-> IF q \in out THEN 0 ELSE s.late[q]],
            !.flight = @ + Cardinality(out \cap s.sendq),
            !.cwnd = @ - Cardinality(out),
            !.clock = @ + 1]

(* Faulty variant: the unacked segments are not marked for retransmission. *)
TimeoutWithoutResend(s) ==
  [s EXCEPT !.probed = FALSE, !.cwnd = CwndInitial, !.cwndMax = CwndInitial]

(* nabto_stream_handle_timeout and nabto_stream_congestion_control_timeout. *)
HandleTimeout(s) ==
  [s EXCEPT !.resend = s.unacked, !.probed = FALSE,
            !.cwnd = CwndInitial, !.cwndMax = CwndInitial]
-----------------------------------------------------------------------------
(* Acknowledgements.  An ack extension carries max (maxAcked), win         *)
(* (windowSize), echo (tsEcr) and the segments its nack gap blocks cover,  *)
(* `holes`; every other segment up to max is acknowledged.                 *)
Ack == [max : Nat, win : Nat, echo : Nat, holes : SUBSET Nat]

(* The window update of parse_ack_extension, with                          *)
(* nabto_stream_flow_control_advertised_window_reduced.  The segments that *)
(* are put back lie above the new window.                                  *)
PutBack(s, ack) == {q \in s.unacked : q > ack.max + ack.win}

(* Faulty variant: the segments put back are still counted in the flight. *)
FlightKept(s, ack) == s.flight

FlightAfterPutBack(s, ack) == s.flight - Cardinality(PutBack(s, ack))

UpdateWindow(s, ack) ==
  IF ack.max + ack.win < s.adv
  THEN LET kept == s.unacked \ PutBack(s, ack)
       IN  [s EXCEPT !.adv = ack.max + ack.win,
                     !.unacked = kept,
                     !.resend = @ \ PutBack(s, ack),
                     !.sendq = @ \cup PutBack(s, ack),
                     !.stamp = [q \in kept |-> s.stamp[q]],
                     !.late = [q \in kept |-> s.late[q]],
                     !.flight = FlightAfterPutBack(s, ack)]
  ELSE [s EXCEPT !.adv = ack.max + ack.win]

Acked(s, ack) == {q \in s.unacked : q <= ack.max /\ q \notin ack.holes}

(* handle_nack_iterator counts a nack that the peer sent after it had seen *)
(* something newer than the segment's last transmission.                   *)
CountedNacks(s, ack) == {q \in s.unacked \cap ack.holes : q <= ack.max /\ s.stamp[q] < ack.echo}

FastRetransmits(s, ack) == {q \in CountedNacks(s, ack) : s.late[q] = 1}

(* Segments are visited from the highest downwards, so a fast retransmit   *)
(* starts a recovery unless one is open that a higher segment does not end.*)
StartsRecovery(s, ack) ==
  {q \in FastRetransmits(s, ack) :
      s.lost = NoSeq \/ (s.lost \in Acked(s, ack) /\ q < s.lost)}

(* The ack and nack iterators over the unacked list:                       *)
(* segment_has_been_acked,                                                 *)
(* congestion_control_handle_ack and adjust_ssthresh_after_triple_ack.  A  *)
(* flight is no larger than the pool, which is below SlowStartMin and so   *)
(* below ssThreshold: every ack finds slow start and gives two tokens.     *)
HandleAcks(s, ack) ==
  LET acked == Acked(s, ack)
      kept == s.unacked \ acked
      recovery == StartsRecovery(s, ack)
  IN  [s EXCEPT !.unacked = kept,
                !.resend = (@ \ acked) \cup FastRetransmits(s, ack),
                !.stamp = [q \in kept |-> s.stamp[q]],
                !.late = [q \in kept |-> IF q \in CountedNacks(s, ack) /\ s.late[q] < LateCap
                                         THEN s.late[q] + 1 ELSE s.late[q]],
                !.flight = @ - Cardinality(acked),
                !.cwnd = @ + 2 * Cardinality(acked),
                !.cwndMax = IF recovery # {} THEN 2 * SlowStartMin
                            ELSE IF acked # {} THEN LargerOf(2 * s.flight, @)
                            ELSE @,
                !.lost = IF recovery # {} THEN LargestOf(recovery)
                         ELSE IF @ \in acked THEN NoSeq
                         ELSE @]
=============================================================================
