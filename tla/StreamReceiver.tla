--------------------------- MODULE StreamReceiver ---------------------------
(***************************************************************************)
(* The receiving half of a stream: the receive window, the segments ready  *)
(* for the application and what the next ack will say.                     *)
(*                                                                         *)
(* recvWindow holds one segment for every sequence number from recvTop + 1 *)
(* to recvMaxAllocated, allocated in that order; recvRead holds, in the    *)
(* order they left the window, the segments the application has not read.  *)
(* The payload of a segment is identified with its sequence number, which  *)
(* write_buffer gives to a buffer once and for all.                        *)
(*                                                                         *)
(* A receive half is a record with the fields                              *)
(*   top      recvTop, all segments up to it have been received            *)
(*   max      recvMax, the highest segment received                        *)
(*   alloc    recvMaxAllocated                                             *)
(*   filled   the segments of recvWindow in state RB_DATA                  *)
(*   fin      the segment marked isFin, NoFin before there is one          *)
(*   readq    recvRead                                                     *)
(*   wait     recvSegmentAllocationStamp is in the future                  *)
(*   ackNow   imediateAck                                                  *)
(*   echo     timestampToEcho                                              *)
(***************************************************************************)
EXTENDS Integers, Sequences

CONSTANTS
  MaxRecvSegments,  \* NABTO_STREAM_MAX_RECV_SEGMENTS
  RecvPool          \* segments the module's recv segment allocator can give

ASSUME ReceiverAssumption ==
  /\ MaxRecvSegments \in Nat \ {0}
  /\ RecvPool \in Nat

NoFin == 0

RecvHalf ==
  [ top : Nat, max : Nat, alloc : Nat, filled : SUBSET Nat, fin : Nat,
    readq : Seq(Nat), wait : BOOLEAN, ackNow : BOOLEAN, echo : Nat ]

InitRecv ==
  [ top |-> 0, max |-> 0, alloc |-> 0, filled |-> {}, fin |-> NoFin,
    readq |-> <<>>, wait |-> FALSE, ackNow |-> FALSE, echo |-> 0 ]

(* The segment has reached this end. *)
Received(r, q) == q <= r.top \/ q \in r.filled

(* nabto_stream_handle_packet: remember the newest stamp of the peer. *)
NoteStamp(r, stamp) == [r EXCEPT !.echo = IF @ < stamp THEN stamp ELSE @]

(* The peer's first sequence number, from its syn or syn|ack. *)
AnchorRecv(r, seq, stamp) ==
  [r EXCEPT !.top = seq, !.max = seq, !.alloc = seq, !.echo = stamp]
-----------------------------------------------------------------------------
(* Receive segment allocation.                                             *)

RecvSegmentsFree(r) == RecvPool - (r.alloc - r.top) - Len(r.readq)

AllocateNextRecvSegment(r) ==
  IF RecvSegmentsFree(r) > 0
  THEN [r EXCEPT !.alloc = @ + 1, !.wait = FALSE, !.ackNow = @ \/ r.wait]
  ELSE [r EXCEPT !.wait = TRUE]

(* Faulty variant: the window is counted from recvMax, not from recvTop. *)
WindowFromRecvMax(r) == IF r.wait THEN 0 ELSE MaxRecvSegments

(* nabto_stream_get_recv_window_size. *)
RecvWindowSize(r) ==
  IF r.wait \/ r.max - r.top >= MaxRecvSegments
  THEN 0
  ELSE MaxRecvSegments - (r.max - r.top)

(* nabto_stream_find_recv_buffer.  InWindow is its first test; the loop    *)
(* then allocates up to q, or until the allocator has no more.             *)
InWindow(r, q) == q <= r.max + RecvWindowSize(r)

GrowTo(r, q) ==
  IF q <= r.alloc THEN r
  ELSE IF q - r.alloc <= RecvSegmentsFree(r)
       THEN [r EXCEPT !.alloc = q, !.wait = FALSE, !.ackNow = @ \/ r.wait]
       ELSE [r EXCEPT !.alloc = @ + RecvSegmentsFree(r), !.wait = TRUE,
                      !.ackNow = @ \/ (r.wait /\ RecvSegmentsFree(r) > 0)]

FindRecvBuffer(r, q) == IF InWindow(r, q) THEN GrowTo(r, q) ELSE r

BufferFound(r, q) ==
  InWindow(r, q) /\ q \in (GrowTo(r, q).top + 1) .. GrowTo(r, q).alloc
-----------------------------------------------------------------------------
(* nabto_stream_move_segments_from_recv_window_to_recv_read. *)
InOrderEnd(r) ==
  CHOOSE t \in r.top .. r.alloc :
     /\ (r.top + 1) .. t \subseteq r.filled
     /\ t + 1 \notin r.filled

(* Faulty variant: recvTop is not advanced. *)
MoveWithoutTop(r) ==
  LET end == InOrderEnd(r)
  IN  [r EXCEPT !.filled = {q \in @ : q > end},
                !.readq = @ \o [i \in 1 .. (end - r.top) |-> r.top + i]]

MoveToRead(r) ==
  LET end == InOrderEnd(r)
  IN  [r EXCEPT !.top = end,
                !.filled = {q \in @ : q > end},
                !.readq = @ \o [i \in 1 .. (end - r.top) |-> r.top + i]]

PlaceSegment(r, q) ==
  MoveToRead([r EXCEPT !.filled = @ \cup {q},
                       !.max = IF @ < q THEN q ELSE @,
                       !.ackNow = TRUE])

(* nabto_stream_handle_data in a state that takes data: segments from the  *)
(* past, outside the window or received already are only acknowledged.     *)
HandleData(r, q) ==
  LET f == FindRecvBuffer(r, q)
  IN  IF q <= r.top THEN [r EXCEPT !.ackNow = TRUE]
      ELSE IF BufferFound(r, q) /\ q \notin f.filled THEN PlaceSegment(f, q)
      ELSE [f EXCEPT !.ackNow = TRUE]

(* nabto_stream_handle_fin in a state that takes a fin; a fin without a    *)
(* buffer is not even acknowledged.                                        *)
HandleFin(r, q) ==
  IF BufferFound(r, q)
  THEN PlaceSegment([FindRecvBuffer(r, q) EXCEPT !.fin = q], q)
  ELSE FindRecvBuffer(r, q)
-----------------------------------------------------------------------------
(* Faulty variant: the gap blocks are missing. *)
AckWithoutGaps(r) ==
  [ max |-> r.max, win |-> RecvWindowSize(r), echo |-> r.echo, holes |-> {} ]

(* What nabto_stream_add_ack_extension reports.  StreamGaps models the gap *)
(* blocks that carry `holes`.                                              *)
AckExtension(r) ==
  [ max |-> r.max, win |-> RecvWindowSize(r), echo |-> r.echo,
    holes |-> ((r.top + 1) .. r.max) \ r.filled ]

(* nabto_stream_read_buffer_once when it empties the segment at the head of *)
(* recvRead: the segment goes back to the allocator.  The fin segment stays *)
(* there and every further read answers EOF.                               *)
AtEof(r) == r.readq # <<>> /\ Head(r.readq) = r.fin

HasData(r) == r.readq # <<>> /\ Head(r.readq) # r.fin

ReadSegment(r) == [r EXCEPT !.readq = Tail(@)]
=============================================================================
