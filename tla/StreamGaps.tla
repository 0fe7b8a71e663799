------------------------------ MODULE StreamGaps ------------------------------
(***************************************************************************)
(* The gap blocks of an ack extension.  The receiver describes its window  *)
(* from recvMax downwards by pairs (ackGap, nackGap) of run lengths; when  *)
(* the packet has room for fewer blocks than there are gaps it merges      *)
(* blocks.  The sender walks the blocks to learn which segments to free    *)
(* and which ones are missing.                                             *)
(*                                                                         *)
(* Segments are numbered from recvTop, so the window holds 1, 2, ... and 0 *)
(* is the list sentinel.  StreamPair carries the missing segments as a set *)
(* in its packets; this module is what that set stands for.                *)
(***************************************************************************)
EXTENDS Integers, Sequences, FiniteSets, FiniteSetsExt

CONSTANTS
  MaxWindow,     \* bound: recvMax - recvTop
  BlockLimits    \* numbers of gap blocks the packet may have room for

(* nabto_stream_add_ack_extension gives up below two blocks. *)
ASSUME GapsAssumption ==
  /\ MaxWindow \in Nat
  /\ BlockLimits \subseteq Nat \ {0, 1}

VARIABLES
  filled,    \* the segments of the window that have been received
  limit,     \* maxGapBlocks
  phase,     \* "encode", "decode" or "done"
  iterator,  \* the receiver's position in the window
  blocks,    \* gapBlocks
  next,      \* the sender's position in the blocks
  cum,       \* maxCumulativeAcked, the sender's position in the window
  acked,     \* segments handed to nabto_stream_handle_ack_iterator
  nacked     \* segments handed to nabto_stream_handle_nack_iterator

vars == <<filled, limit, phase, iterator, blocks, next, cum, acked, nacked>>

RecvMax == IF filled = {} THEN 0 ELSE Max(filled)

(* The windows that move_segments_from_recv_window_to_recv_read leaves: the *)
(* first segment is missing.                                               *)
Init ==
  /\ filled \in SUBSET (2 .. MaxWindow)
  /\ limit \in BlockLimits
  /\ phase = "encode"
  /\ iterator = RecvMax
  /\ blocks = <<>>
  /\ next = 1
  /\ cum = RecvMax
  /\ acked = {}
  /\ nacked = {}

(* The two inner loops: down to a missing segment, down to a received one. *)
Missing(x) == Max({0} \cup {y \in 1 .. x : y \notin filled})
ReceivedBelow(x) == Max({0} \cup {y \in 1 .. x : y \in filled})

(* Faulty variants: a gap of block 1 is forgotten, or block 0 loses its ack. *)
ConsolidateForgetsNack(bs) ==
  <<[ack |-> bs[1].ack, nack |-> bs[1].nack + bs[2].ack]>> \o SubSeq(bs, 3, Len(bs))
ConsolidateCountsTwice(bs) ==
  <<[ack |-> bs[1].ack, nack |-> bs[1].nack + 2 * bs[2].ack + bs[2].nack]>> \o SubSeq(bs, 3, Len(bs))
ConsolidateIntoNack(bs) ==
  <<[ack |-> 0, nack |-> bs[1].ack + bs[1].nack + bs[2].ack + bs[2].nack]>> \o SubSeq(bs, 3, Len(bs))

(* Fold block 1 into block 0 and move the others up. *)
Consolidate(bs) ==
  <<[ack |-> bs[1].ack, nack |-> bs[1].nack + bs[2].ack + bs[2].nack]>>
    \o SubSeq(bs, 3, Len(bs))

(* Faulty variants: merge one block too late or too early. *)
RoomTooLate(bs) == IF Len(bs) > limit THEN Consolidate(bs) ELSE bs
RoomTooEarly(bs) == IF Len(bs) >= 2 /\ Len(bs) >= limit - 1 THEN Consolidate(bs) ELSE bs

RoomForBlock(bs) == IF Len(bs) >= limit THEN Consolidate(bs) ELSE bs

(* One turn of the loop of nabto_stream_add_ack_extension. *)
EncodeBlock ==
  /\ phase = "encode"
  /\ iterator # 0
  /\ LET gap == Missing(iterator)
         below == ReceivedBelow(gap)
     IN  /\ blocks' = Append(RoomForBlock(blocks), [ack |-> iterator - gap, nack |-> gap - below])
         /\ iterator' = below
  /\ UNCHANGED <<filled, limit, phase, next, cum, acked, nacked>>

EncodeEnd ==
  /\ phase = "encode"
  /\ iterator = 0
  /\ phase' = "decode"
  /\ UNCHANGED <<filled, limit, iterator, blocks, next, cum, acked, nacked>>

(* One turn of the loop of nabto_stream_parse_ack_extension, with           *)
(* nabto_stream_ack_block and nabto_stream_nack_block.                     *)
DecodeBlock ==
  /\ phase = "decode"
  /\ next <= Len(blocks)
  /\ LET nackTop == cum - blocks[next].ack
         nackBottom == nackTop - blocks[next].nack
     IN  /\ acked' = acked \cup ((nackTop + 1) .. cum)
         /\ nacked' = nacked \cup ((nackBottom + 1) .. nackTop)
         /\ cum' = nackBottom
  /\ next' = next + 1
  /\ UNCHANGED <<filled, limit, phase, iterator, blocks>>

(* Everything below the last block is acknowledged. *)
DecodeEnd ==
  /\ phase = "decode"
  /\ next > Len(blocks)
  /\ acked' = acked \cup (1 .. cum)
  /\ phase' = "done"
  /\ UNCHANGED <<filled, limit, iterator, blocks, next, cum, nacked>>

Next == EncodeBlock \/ EncodeEnd \/ DecodeBlock \/ DecodeEnd

Spec == Init /\ [][Next]_vars
-----------------------------------------------------------------------------
(* An ack is definitively an ack: no missing segment is ever freed, however *)
(* few blocks the packet has room for.                                     *)
AckIsAck == acked \subseteq filled

(* The blocks never exceed the room in the packet. *)
FitsPacket == phase # "encode" => Len(blocks) <= limit

(* Once all blocks are read the sender has reached exactly recvTop, and     *)
(* knows of every missing segment.                                         *)
ReachesTop ==
  phase = "done" => cum = 0 /\ (1 .. RecvMax) \ filled \subseteq nacked

(* The runs of received segments, each followed by a gap. *)
Runs == Cardinality({q \in filled : q - 1 \notin filled})

(* With room for all gaps exactly the missing segments are nacked. *)
ExactWithRoom ==
  phase = "done" /\ Runs <= limit => nacked = (1 .. RecvMax) \ filled

(* Merging keeps the newest and the oldest received data acknowledged. *)
NewestAndOldest ==
  phase = "done" /\ filled # {} => {Max(filled), Min(filled)} \subseteq acked
=============================================================================
