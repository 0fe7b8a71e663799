-------------------------- MODULE StreamHalfProofs --------------------------
(***************************************************************************)
(* What the operations on a send half and on a receive half preserve, for  *)
(* every value of the constants.  StreamProofs builds on these lemmas.     *)
(***************************************************************************)
EXTENDS StreamSender, StreamReceiver,
        FiniteSetTheorems, SequenceTheorems, WellFoundedInduction, TLAPS

(* A set of numbers that is not empty has a least element. *)
LEMMA LeastElement ==
  ASSUME NEW S \in SUBSET Nat, S # {}
  PROVE  \E x \in S : \A y \in S : x <= y
  <1>1. \E x \in S : \A y \in S : ~(<<y, x>> \in OpToRel(<, Nat))
    BY NatLessThanWellFounded, WFMin, Zenon
  <1>2. PICK x \in S : \A y \in S : ~(<<y, x>> \in OpToRel(<, Nat))
    BY <1>1
  <1>3. ASSUME NEW y \in S PROVE x <= y
    <2>1. ~(y < x)
      BY <1>2 DEF OpToRel
    <2>. QED  BY <2>1
  <1>. QED  BY <1>3

(* One that is bounded has a greatest element. *)
LEMMA GreatestElement ==
  ASSUME NEW S \in SUBSET Nat, S # {}, NEW n \in Nat, \A x \in S : x <= n
  PROVE  \E x \in S : \A y \in S : y <= x
  <1> DEFINE B == {m \in Nat : \A x \in S : x <= m}
  <1>1. n \in B
    OBVIOUS
  <1>2. PICK b \in B : \A m \in B : b <= m
    BY <1>1, LeastElement
  <1>3. b \in S
    <2>1. SUFFICES ASSUME b \notin S PROVE FALSE
      OBVIOUS
    <2>2. \A x \in S : x < b
      BY <2>1
    <2>3. b # 0
      <3>1. PICK x \in S : x \in Nat
        OBVIOUS
      <3>. QED  BY <3>1, <2>2
    <2>4. b - 1 \in B
      BY <2>2, <2>3
    <2>. QED  BY <2>4, <1>2
  <1>. QED  BY <1>2, <1>3
-----------------------------------------------------------------------------
(* The receive half.                                                       *)

(* The window, as RecvWindowOK states it, and an allocator that is never   *)
(* asked for more than it has.                                             *)
WindowOK(r) ==
  /\ r.top <= r.max /\ r.max <= r.alloc
  /\ r.filled \subseteq (r.top + 2) .. r.max
  /\ r.max # r.top => r.max \in r.filled
  /\ r.max - r.top <= MaxRecvSegments

RecvOK(r) == r \in RecvHalf /\ WindowOK(r) /\ RecvSegmentsFree(r) >= 0

(* What has reached r has reached t. *)
Extends(r, t) == r.top <= t.top /\ \A q \in Nat : Received(r, q) => Received(t, q)

(* Extends is transitive.                                                   *)
LEMMA ExtendsTransitive ==
  ASSUME NEW r \in RecvHalf, NEW t \in RecvHalf, NEW u \in RecvHalf,
         Extends(r, t), Extends(t, u)
  PROVE  Extends(r, u)
  BY DEF Extends, RecvHalf

(* The segments that follow recvTop without a gap end somewhere. *)
LEMMA InOrderEndExists ==
  ASSUME NEW r \in RecvHalf, r.top <= r.alloc, r.filled \subseteq 0 .. r.alloc
  PROVE  /\ InOrderEnd(r) \in r.top .. r.alloc
         /\ (r.top + 1) .. InOrderEnd(r) \subseteq r.filled
         /\ InOrderEnd(r) + 1 \notin r.filled
  <1> DEFINE T == {t \in Nat : t >= r.top /\ t + 1 \notin r.filled}
  <1>1. r.top \in Nat /\ r.alloc \in Nat /\ r.filled \subseteq Nat
    BY DEF RecvHalf
  <1>2. r.alloc \in T
    BY <1>1
  <1>3. PICK t \in T : \A u \in T : t <= u
    BY <1>2, LeastElement
  <1>4. t \in r.top .. r.alloc
    BY <1>1, <1>2, <1>3
  <1>5. ASSUME NEW x \in (r.top + 1) .. t PROVE x \in r.filled
    <2>1. x - 1 \in Nat /\ x - 1 >= r.top /\ ~(t <= x - 1)
      BY <1>1, <1>3
    <2>2. x - 1 \notin T
      BY <2>1, <1>3
    <2>. QED  BY <2>1, <2>2
  <1>. QED  BY <1>3, <1>4, <1>5 DEF InOrderEnd

(* move_segments_from_recv_window_to_recv_read keeps the window well       *)
(* formed and forgets nothing received.                                    *)
LEMMA MoveToReadOK ==
  ASSUME NEW r \in RecvHalf,
         r.top <= r.max, r.max <= r.alloc,
         r.filled \subseteq (r.top + 1) .. r.max,
         r.max # r.top => r.max \in r.filled,
         r.max - r.top <= MaxRecvSegments,
         RecvSegmentsFree(r) >= 0
  PROVE  RecvOK(MoveToRead(r)) /\ Extends(r, MoveToRead(r))
  <1> DEFINE end == InOrderEnd(r)
             moved == [i \in 1 .. (end - r.top) |-> r.top + i]
             m == MoveToRead(r)
  <1>1. /\ r.top \in Nat /\ r.max \in Nat /\ r.alloc \in Nat
        /\ r.filled \subseteq Nat /\ r.readq \in Seq(Nat)
    BY DEF RecvHalf
  <1>2. r.filled \subseteq 0 .. r.alloc
    BY <1>1
  <1>3. /\ end \in r.top .. r.alloc
        /\ (r.top + 1) .. end \subseteq r.filled
        /\ end + 1 \notin r.filled
    BY <1>1, <1>2, InOrderEndExists
  <1>7. m = [r EXCEPT !.top = end, !.filled = {q \in @ : q > end}, !.readq = @ \o moved]
    BY DEF MoveToRead
  <1>. HIDE DEF m, end
  <1>4. end \in Nat /\ end - r.top \in Nat
    BY <1>1, <1>3
  <1>5. moved \in Seq(Nat) /\ Len(moved) = end - r.top
    BY <1>1, <1>4
  <1>. HIDE DEF moved
  <1>6. /\ r.readq \o moved \in Seq(Nat)
        /\ Len(r.readq \o moved) = Len(r.readq) + Len(moved)
        /\ Len(r.readq) \in Nat
    BY <1>1, <1>5, ConcatProperties, LenProperties
  <1>8. /\ m \in RecvHalf
        /\ m.top = end /\ m.max = r.max /\ m.alloc = r.alloc
        /\ m.filled = {q \in r.filled : q > end}
        /\ m.readq = r.readq \o moved
    BY <1>1, <1>4, <1>6, <1>7 DEF RecvHalf
  <1>9. end <= r.max
    <2>1. CASE end = r.top
      BY <2>1
    <2>2. CASE end # r.top
      <3>1. end \in r.filled
        BY <1>1, <1>3, <2>2
      <3>. QED  BY <3>1, <1>1
    <2>. QED  BY <2>1, <2>2
  <1>10. m.filled \subseteq (m.top + 2) .. m.max
    BY <1>1, <1>3, <1>4, <1>8
  <1>11. m.max # m.top => m.max \in m.filled
    BY <1>1, <1>3, <1>4, <1>8, <1>9
  <1>12. MaxRecvSegments \in Nat /\ RecvPool \in Nat
    BY ReceiverAssumption
  <1>13. WindowOK(m)
    BY <1>1, <1>3, <1>4, <1>8, <1>9, <1>10, <1>11, <1>12 DEF WindowOK
  <1>14. RecvSegmentsFree(m) = RecvSegmentsFree(r)
    <2>1. Len(m.readq) = Len(r.readq) + (end - r.top)
      BY <1>5, <1>6, <1>8
    <2>2. m.top = end /\ m.alloc = r.alloc
      BY <1>8
    <2>3. Len(r.readq) \in Nat
      BY <1>6
    <2>. QED  BY <1>1, <1>4, <1>12, <2>1, <2>2, <2>3 DEF RecvSegmentsFree
  <1>15. Extends(r, m)
    BY <1>1, <1>3, <1>4, <1>8 DEF Extends, Received
  <1>. QED  BY <1>8, <1>13, <1>14, <1>15 DEF RecvOK, m
(* Nothing but what is said to the peer and the allocator changes. *)
LEMMA SameSegments ==
  ASSUME NEW r, RecvOK(r), NEW t \in RecvHalf,
         t.top = r.top, t.max = r.max, t.alloc = r.alloc,
         t.filled = r.filled, t.readq = r.readq
  PROVE  RecvOK(t) /\ Extends(r, t)
  <1>1. RecvSegmentsFree(t) = RecvSegmentsFree(r)
    BY DEF RecvSegmentsFree
  <1>2. WindowOK(t)
    BY DEF RecvOK, WindowOK
  <1>3. Extends(r, t)
    BY DEF RecvOK, RecvHalf, Extends, Received
  <1>. QED  BY <1>1, <1>2, <1>3 DEF RecvOK

(* Noting a packet's logical timestamp touches no segment.                 *)
LEMMA NoteStampOK ==
  ASSUME NEW r, RecvOK(r), NEW stamp \in Nat
  PROVE  /\ RecvOK(NoteStamp(r, stamp)) /\ Extends(r, NoteStamp(r, stamp))
         /\ NoteStamp(r, stamp).max = r.max
  <1>1. NoteStamp(r, stamp) \in RecvHalf
    BY DEF NoteStamp, RecvHalf, RecvOK
  <1>2. /\ NoteStamp(r, stamp).top = r.top /\ NoteStamp(r, stamp).max = r.max
        /\ NoteStamp(r, stamp).alloc = r.alloc
        /\ NoteStamp(r, stamp).filled = r.filled /\ NoteStamp(r, stamp).readq = r.readq
    BY DEF NoteStamp, RecvHalf, RecvOK
  <1>. QED  BY <1>1, <1>2, SameSegments

(* Asking for an immediate ack touches no segment.                         *)
LEMMA AckNowOK ==
  ASSUME NEW r, RecvOK(r), NEW b \in BOOLEAN
  PROVE  /\ RecvOK([r EXCEPT !.ackNow = b]) /\ Extends(r, [r EXCEPT !.ackNow = b])
         /\ [r EXCEPT !.ackNow = b].max = r.max
  <1> DEFINE t == [r EXCEPT !.ackNow = b]
  <1>1. t \in RecvHalf
    BY DEF RecvHalf, RecvOK
  <1>2. /\ t.top = r.top /\ t.max = r.max /\ t.alloc = r.alloc
        /\ t.filled = r.filled /\ t.readq = r.readq
    BY DEF RecvHalf, RecvOK
  <1>. QED  BY <1>1, <1>2, SameSegments

(* A stream that has not been anchored has received nothing. *)
LEMMA AnchorRecvOK ==
  ASSUME NEW r, RecvOK(r), r.max = 0, NEW seq \in Nat, NEW stamp \in Nat
  PROVE  RecvOK(AnchorRecv(r, seq, stamp)) /\ Extends(r, AnchorRecv(r, seq, stamp))
  <1> DEFINE t == AnchorRecv(r, seq, stamp)
  <1>1. /\ r \in RecvHalf /\ r.top = 0 /\ r.filled = {}
        /\ r.alloc \in Nat /\ r.readq \in Seq(Nat)
    BY DEF RecvOK, WindowOK, RecvHalf
  <1>2. t \in RecvHalf
    BY <1>1 DEF AnchorRecv, RecvHalf
  <1>3. /\ t.top = seq /\ t.max = seq /\ t.alloc = seq
        /\ t.filled = {} /\ t.readq = r.readq
    BY <1>1 DEF AnchorRecv, RecvHalf
  <1>4. MaxRecvSegments \in Nat /\ RecvPool \in Nat
    BY ReceiverAssumption
  <1>. HIDE DEF t
  <1>5. WindowOK(t)
    BY <1>3, <1>4 DEF WindowOK
  <1>6. Len(r.readq) \in Nat
    BY <1>1, LenProperties
  <1>7. RecvSegmentsFree(t) >= 0
    BY <1>1, <1>3, <1>4, <1>6 DEF RecvSegmentsFree, RecvOK
  <1>8. Extends(r, t)
    BY <1>1, <1>3 DEF Extends, Received
  <1>. QED  BY <1>2, <1>5, <1>7, <1>8 DEF RecvOK, t

(* A window that is larger by what the allocator gives. *)
LEMMA GrowOK ==
  ASSUME NEW r, RecvOK(r), NEW n \in Nat, n <= RecvSegmentsFree(r),
         NEW t \in RecvHalf,
         t.top = r.top, t.max = r.max, t.alloc = r.alloc + n,
         t.filled = r.filled, t.readq = r.readq
  PROVE  RecvOK(t) /\ Extends(r, t)
  <1>1. /\ r \in RecvHalf /\ r.top \in Nat /\ r.max \in Nat /\ r.alloc \in Nat
        /\ r.readq \in Seq(Nat)
    BY DEF RecvOK, RecvHalf
  <1>2. RecvPool \in Nat /\ Len(r.readq) \in Nat
    BY <1>1, LenProperties, ReceiverAssumption
  <1>3. RecvSegmentsFree(t) >= 0
    BY <1>1, <1>2 DEF RecvSegmentsFree
  <1>4. WindowOK(t)
    BY <1>1 DEF RecvOK, WindowOK
  <1>5. Extends(r, t)
    BY <1>1 DEF Extends, Received
  <1>. QED  BY <1>3, <1>4, <1>5 DEF RecvOK

(* The number of free receive segments is an integer.                      *)
LEMMA SegmentsFreeType ==
  ASSUME NEW r \in RecvHalf
  PROVE  RecvSegmentsFree(r) \in Int
  <1>1. r.top \in Nat /\ r.alloc \in Nat /\ Len(r.readq) \in Nat
    BY LenProperties DEF RecvHalf
  <1>. QED  BY <1>1, ReceiverAssumption DEF RecvSegmentsFree

(* allocate_next_recv_segment takes or waits for a segment, and leaves the *)
(* window as it is.                                                        *)
LEMMA AllocateNextRecvSegmentOK ==
  ASSUME NEW r, RecvOK(r)
  PROVE  /\ RecvOK(AllocateNextRecvSegment(r)) /\ Extends(r, AllocateNextRecvSegment(r))
         /\ AllocateNextRecvSegment(r).max = r.max
  <1> DEFINE t == AllocateNextRecvSegment(r)
  <1>1. r \in RecvHalf /\ RecvSegmentsFree(r) \in Int
    BY SegmentsFreeType DEF RecvOK
  <1>2. r.alloc \in Nat
    BY <1>1 DEF RecvHalf
  <1>4. CASE RecvSegmentsFree(r) > 0
    <2> DEFINE now == r.ackNow \/ r.wait
    <2>1. t = [r EXCEPT !.alloc = r.alloc + 1, !.wait = FALSE, !.ackNow = now]
      BY <1>4, Zenon DEF AllocateNextRecvSegment
    <2>4. now \in BOOLEAN
      OBVIOUS
    <2>. HIDE DEF t, now
    <2>2. r.alloc + 1 \in Nat /\ 1 <= RecvSegmentsFree(r)
      BY <1>1, <1>2, <1>4
    <2>3. /\ t \in RecvHalf
          /\ t.top = r.top /\ t.max = r.max /\ t.filled = r.filled /\ t.readq = r.readq
          /\ t.alloc = r.alloc + 1
      BY <1>1, <2>1, <2>2, <2>4 DEF RecvHalf
    <2>. QED  BY <2>2, <2>3, GrowOK DEF t
  <1>5. CASE ~(RecvSegmentsFree(r) > 0)
    <2>1. t = [r EXCEPT !.wait = TRUE]
      BY <1>5 DEF AllocateNextRecvSegment
    <2>. HIDE DEF t
    <2>2. /\ t \in RecvHalf
          /\ t.top = r.top /\ t.max = r.max /\ t.filled = r.filled /\ t.readq = r.readq
          /\ t.alloc = r.alloc
      BY <1>1, <2>1 DEF RecvHalf
    <2>. QED  BY <2>2, SameSegments DEF t
  <1>. QED  BY <1>4, <1>5

(* The loop of find_recv_buffer that extends the window up to a sequence   *)
(* number keeps it well formed.                                            *)
LEMMA GrowToOK ==
  ASSUME NEW r, RecvOK(r), NEW q \in Nat
  PROVE  /\ RecvOK(GrowTo(r, q)) /\ Extends(r, GrowTo(r, q))
         /\ GrowTo(r, q).top = r.top /\ GrowTo(r, q).max = r.max
         /\ GrowTo(r, q).filled = r.filled
  <1> DEFINE t == GrowTo(r, q)
             free == RecvSegmentsFree(r)
  <1>1. r \in RecvHalf /\ free \in Int /\ free >= 0 /\ r.alloc \in Nat
    BY SegmentsFreeType DEF RecvOK, RecvHalf
  <1>. HIDE DEF free
  <1>2. CASE q <= r.alloc
    <2>1. t = r
      BY <1>2 DEF GrowTo
    <2>2. Extends(r, r)
      BY <1>1 DEF Extends, RecvHalf
    <2>. QED  BY <2>1, <2>2
  <1>3. CASE ~(q <= r.alloc) /\ q - r.alloc <= free
    <2> DEFINE now == r.ackNow \/ r.wait
    <2>1. t = [r EXCEPT !.alloc = q, !.wait = FALSE, !.ackNow = now]
      BY <1>3, Zenon DEF GrowTo, free
    <2>2. now \in BOOLEAN
      OBVIOUS
    <2>. HIDE DEF t, now
    <2>3. /\ t \in RecvHalf
          /\ t.top = r.top /\ t.max = r.max /\ t.filled = r.filled /\ t.readq = r.readq
          /\ t.alloc = q
      BY <1>1, <2>1, <2>2 DEF RecvHalf
    <2>4. q - r.alloc \in Nat /\ q = r.alloc + (q - r.alloc)
      BY <1>1, <1>3
    <2>. QED  BY <1>3, <2>3, <2>4, GrowOK DEF t, free
  <1>4. CASE ~(q <= r.alloc) /\ ~(q - r.alloc <= free)
    <2> DEFINE now == r.ackNow \/ (r.wait /\ free > 0)
    <2>1. t = [r EXCEPT !.alloc = r.alloc + free, !.wait = TRUE, !.ackNow = now]
      BY <1>4, Zenon DEF GrowTo, free
    <2>2. now \in BOOLEAN
      OBVIOUS
    <2>. HIDE DEF t, now
    <2>3. r.alloc + free \in Nat /\ free \in Nat /\ free <= free
      BY <1>1
    <2>4. /\ t \in RecvHalf
          /\ t.top = r.top /\ t.max = r.max /\ t.filled = r.filled /\ t.readq = r.readq
          /\ t.alloc = r.alloc + free
      BY <1>1, <2>1, <2>2, <2>3 DEF RecvHalf
    <2>. QED  BY <2>3, <2>4, GrowOK DEF t, free
  <1>. QED  BY <1>2, <1>3, <1>4
(* nabto_stream_get_recv_window_size never promises more than              *)
(* NABTO_STREAM_MAX_RECV_SEGMENTS above recvTop.                           *)
LEMMA WindowSizeOK ==
  ASSUME NEW r, RecvOK(r)
  PROVE  RecvWindowSize(r) \in Nat /\ r.max + RecvWindowSize(r) <= r.top + MaxRecvSegments
  <1>1. r.top \in Nat /\ r.max \in Nat /\ r.max - r.top <= MaxRecvSegments
    BY DEF RecvOK, WindowOK, RecvHalf
  <1>2. MaxRecvSegments \in Nat
    BY ReceiverAssumption
  <1>3. CASE r.wait \/ r.max - r.top >= MaxRecvSegments
    <2>1. RecvWindowSize(r) = 0
      BY <1>3, Zenon DEF RecvWindowSize
    <2>. QED  BY <1>1, <1>2, <2>1
  <1>4. CASE ~(r.wait \/ r.max - r.top >= MaxRecvSegments)
    <2>1. RecvWindowSize(r) = MaxRecvSegments - (r.max - r.top)
      BY <1>4, Zenon DEF RecvWindowSize
    <2>2. ~(r.max - r.top >= MaxRecvSegments)
      BY <1>4, Zenon
    <2>. QED  BY <1>1, <1>2, <2>1, <2>2
  <1>. QED  BY <1>3, <1>4, Zenon

(* Filling a buffer of the window only adds to what is received.           *)
LEMMA PlaceSegmentOK ==
  ASSUME NEW r, RecvOK(r), NEW q \in (r.top + 1) .. r.alloc,
         q <= r.top + MaxRecvSegments
  PROVE  RecvOK(PlaceSegment(r, q)) /\ Extends(r, PlaceSegment(r, q))
  <1> DEFINE p == [r EXCEPT !.filled = @ \cup {q},
                            !.max = IF @ < q THEN q ELSE @,
                            !.ackNow = TRUE]
  <1>1. /\ r \in RecvHalf /\ r.top \in Nat /\ r.max \in Nat /\ r.alloc \in Nat
        /\ r.filled \in SUBSET Nat /\ q \in Nat
    BY DEF RecvOK, RecvHalf
  <1>2. /\ r.top <= r.max /\ r.max <= r.alloc /\ r.filled \subseteq (r.top + 2) .. r.max
        /\ r.max # r.top => r.max \in r.filled
        /\ r.max - r.top <= MaxRecvSegments
        /\ RecvSegmentsFree(r) >= 0
    BY DEF RecvOK, WindowOK
  <1>3. /\ p \in RecvHalf
        /\ p.top = r.top /\ p.max = (IF r.max < q THEN q ELSE r.max) /\ p.alloc = r.alloc
        /\ p.filled = r.filled \cup {q} /\ p.readq = r.readq
    BY <1>1 DEF RecvHalf
  <1>4. PlaceSegment(r, q) = MoveToRead(p)
    BY DEF PlaceSegment
  <1>. HIDE DEF p
  <1>5. RecvSegmentsFree(p) >= 0
    BY <1>2, <1>3 DEF RecvSegmentsFree
  <1>6. MaxRecvSegments \in Nat
    BY ReceiverAssumption
  <1>7. /\ p.top <= p.max /\ p.max <= p.alloc
        /\ p.filled \subseteq (p.top + 1) .. p.max
        /\ p.max # p.top => p.max \in p.filled
        /\ p.max - p.top <= MaxRecvSegments
    BY <1>1, <1>2, <1>3, <1>6
  <1>8. RecvOK(MoveToRead(p)) /\ Extends(p, MoveToRead(p))
    BY <1>3, <1>5, <1>7, MoveToReadOK
  <1>9. Extends(r, p)
    BY <1>1, <1>3 DEF Extends, Received
  <1>10. Extends(r, MoveToRead(p))
    BY <1>1, <1>3, <1>8, <1>9, ExtendsTransitive DEF RecvOK
  <1>. QED  BY <1>4, <1>8, <1>10

(* find_recv_buffer keeps the window well formed, found or not.            *)
LEMMA FindRecvBufferOK ==
  ASSUME NEW r, RecvOK(r), NEW q \in Nat
  PROVE  /\ RecvOK(FindRecvBuffer(r, q)) /\ Extends(r, FindRecvBuffer(r, q))
         /\ BufferFound(r, q) => /\ q \in (FindRecvBuffer(r, q).top + 1) .. FindRecvBuffer(r, q).alloc
                                 /\ q <= FindRecvBuffer(r, q).top + MaxRecvSegments
  <1>1. Extends(r, r)
    BY DEF Extends, RecvHalf, RecvOK
  <1>2. /\ RecvOK(GrowTo(r, q)) /\ Extends(r, GrowTo(r, q))
        /\ GrowTo(r, q).top = r.top
    BY GrowToOK
  <1>3. CASE InWindow(r, q)
    <2>1. r.max + RecvWindowSize(r) <= r.top + MaxRecvSegments
      BY WindowSizeOK
    <2>2. q <= r.top + MaxRecvSegments
      <3>1. r.max \in Nat /\ r.top \in Nat /\ RecvWindowSize(r) \in Nat /\ MaxRecvSegments \in Nat
        BY WindowSizeOK, ReceiverAssumption DEF RecvOK, RecvHalf
      <3>. QED  BY <1>3, <2>1, <3>1 DEF InWindow
    <2>. QED  BY <1>2, <1>3, <2>2 DEF FindRecvBuffer, BufferFound
  <1>4. CASE ~InWindow(r, q)
    BY <1>1, <1>4 DEF FindRecvBuffer, BufferFound
  <1>. QED  BY <1>3, <1>4

(* handle_data only adds to what is received.                              *)
LEMMA HandleDataOK ==
  ASSUME NEW r, RecvOK(r), NEW q \in Nat
  PROVE  RecvOK(HandleData(r, q)) /\ Extends(r, HandleData(r, q))
  <1> DEFINE f == FindRecvBuffer(r, q)
  <1>1. RecvOK(f) /\ Extends(r, f)
    BY FindRecvBufferOK
  <1>2. CASE q <= r.top
    BY <1>2, AckNowOK DEF HandleData
  <1>3. CASE ~(q <= r.top) /\ BufferFound(r, q) /\ q \notin f.filled
    <2>1. HandleData(r, q) = PlaceSegment(f, q)
      BY <1>3 DEF HandleData
    <2>2. RecvOK(PlaceSegment(f, q)) /\ Extends(f, PlaceSegment(f, q))
      BY <1>1, <1>3, FindRecvBufferOK, PlaceSegmentOK
    <2>. QED  BY <1>1, <2>1, <2>2, ExtendsTransitive DEF RecvOK
  <1>4. CASE ~(q <= r.top) /\ ~(BufferFound(r, q) /\ q \notin f.filled)
    <2>1. HandleData(r, q) = [f EXCEPT !.ackNow = TRUE]
      BY <1>4 DEF HandleData
    <2>2. RecvOK([f EXCEPT !.ackNow = TRUE]) /\ Extends(f, [f EXCEPT !.ackNow = TRUE])
      BY <1>1, AckNowOK
    <2>. QED  BY <1>1, <2>1, <2>2, ExtendsTransitive DEF RecvOK
  <1>. QED  BY <1>2, <1>3, <1>4

(* handle_fin only adds to what is received.                               *)
LEMMA HandleFinOK ==
  ASSUME NEW r, RecvOK(r), NEW q \in Nat
  PROVE  RecvOK(HandleFin(r, q)) /\ Extends(r, HandleFin(r, q))
  <1> DEFINE f == FindRecvBuffer(r, q)
             g == [f EXCEPT !.fin = q]
  <1>1. /\ RecvOK(f) /\ Extends(r, f)
        /\ BufferFound(r, q) => q \in (f.top + 1) .. f.alloc /\ q <= f.top + MaxRecvSegments
    BY FindRecvBufferOK
  <1>2. HandleFin(r, q) = IF BufferFound(r, q) THEN PlaceSegment(g, q) ELSE f
    BY DEF HandleFin
  <1>. HIDE DEF f
  <1>3. /\ g \in RecvHalf /\ g.top = f.top /\ g.max = f.max /\ g.alloc = f.alloc
        /\ g.filled = f.filled /\ g.readq = f.readq
    BY <1>1 DEF RecvOK, RecvHalf
  <1>. HIDE DEF g
  <1>4. RecvOK(g) /\ Extends(f, g)
    BY <1>1, <1>3, SameSegments
  <1>5. CASE BufferFound(r, q)
    <2>1. RecvOK(PlaceSegment(g, q)) /\ Extends(g, PlaceSegment(g, q))
      BY <1>1, <1>3, <1>4, <1>5, PlaceSegmentOK
    <2>2. Extends(r, g)
      BY <1>1, <1>4, ExtendsTransitive DEF RecvOK
    <2>3. Extends(r, PlaceSegment(g, q))
      BY <1>4, <2>1, <2>2, ExtendsTransitive DEF RecvOK
    <2>. QED  BY <1>2, <1>5, <2>1, <2>3
  <1>6. CASE ~BufferFound(r, q)
    BY <1>1, <1>2, <1>6
  <1>. QED  BY <1>5, <1>6

(* read_buffer_once takes the head of the read list and nothing else.      *)
LEMMA ReadSegmentOK ==
  ASSUME NEW r, RecvOK(r), r.readq # <<>>
  PROVE  /\ RecvOK(ReadSegment(r)) /\ Extends(r, ReadSegment(r))
         /\ ReadSegment(r).max = r.max
         /\ Head(r.readq) \in Nat
  <1> DEFINE t == ReadSegment(r)
  <1>1. /\ r \in RecvHalf /\ r.readq \in Seq(Nat) /\ r.top \in Nat /\ r.alloc \in Nat
    BY DEF RecvOK, RecvHalf
  <1>2. /\ Head(r.readq) \in Nat /\ Tail(r.readq) \in Seq(Nat)
        /\ Len(Tail(r.readq)) = Len(r.readq) - 1 /\ Len(r.readq) \in Nat
    BY <1>1, HeadTailProperties, LenProperties
  <1>3. /\ t \in RecvHalf /\ t.top = r.top /\ t.max = r.max /\ t.alloc = r.alloc
        /\ t.filled = r.filled /\ t.readq = Tail(r.readq)
    BY <1>1, <1>2 DEF ReadSegment, RecvHalf
  <1>. HIDE DEF t
  <1>4. RecvPool \in Nat
    BY ReceiverAssumption
  <1>5. RecvSegmentsFree(t) = RecvSegmentsFree(r) + 1
    <2>1. Len(t.readq) = Len(r.readq) - 1
      BY <1>2, <1>3
    <2>2. t.top = r.top /\ t.alloc = r.alloc
      BY <1>3
    <2>3. Len(r.readq) \in Nat /\ r.top \in Nat /\ r.alloc \in Nat
      BY <1>1, <1>2
    <2>. QED  BY <1>4, <2>1, <2>2, <2>3 DEF RecvSegmentsFree
  <1>6. RecvSegmentsFree(t) >= 0
    BY <1>1, <1>5, SegmentsFreeType DEF RecvOK
  <1>7. WindowOK(t)
    BY <1>3 DEF RecvOK, WindowOK
  <1>8. Extends(r, t)
    BY <1>1, <1>3 DEF Extends, Received
  <1>. QED  BY <1>2, <1>3, <1>6, <1>7, <1>8 DEF RecvOK, t

(* An ack never acknowledges what its sender has not received, nor opens a *)
(* window its sender did not mean to open.                                 *)
HonestAck(r, ack) ==
  /\ ack.max + ack.win <= r.top + MaxRecvSegments
  /\ \A q \in 0 .. ack.max : q \notin ack.holes => Received(r, q)

(* The ack that add_ack_extension writes is typed and honest.               *)
LEMMA AckExtensionOK ==
  ASSUME NEW r, RecvOK(r)
  PROVE  AckExtension(r) \in Ack /\ HonestAck(r, AckExtension(r))
  <1> DEFINE a == AckExtension(r)
  <1>1. /\ r.top \in Nat /\ r.max \in Nat /\ r.echo \in Nat /\ r.filled \in SUBSET Nat
    BY DEF RecvOK, RecvHalf
  <1>2. RecvWindowSize(r) \in Nat /\ r.max + RecvWindowSize(r) <= r.top + MaxRecvSegments
    BY WindowSizeOK
  <1>3. /\ a.max = r.max /\ a.win = RecvWindowSize(r) /\ a.echo = r.echo
        /\ a.holes = ((r.top + 1) .. r.max) \ r.filled
    BY DEF AckExtension
  <1>4. ((r.top + 1) .. r.max) \ r.filled \in SUBSET Nat
    BY <1>1
  <1>5. a \in Ack
    BY <1>1, <1>2, <1>4 DEF AckExtension, Ack
  <1>. HIDE DEF a
  <1>6. HonestAck(r, a)
    BY <1>1, <1>2, <1>3 DEF HonestAck, Received
  <1>. QED  BY <1>5, <1>6 DEF a

(* Honesty lasts. *)
LEMMA StaysHonest ==
  ASSUME NEW r, RecvOK(r), NEW t, RecvOK(t), Extends(r, t), NEW ack \in Ack, HonestAck(r, ack)
  PROVE  HonestAck(t, ack)
  <1>1. /\ r.top \in Nat /\ t.top \in Nat /\ MaxRecvSegments \in Nat
        /\ ack.max \in Nat /\ ack.win \in Nat
    BY ReceiverAssumption DEF RecvOK, RecvHalf, Ack
  <1>. QED  BY <1>1 DEF HonestAck, Extends
-----------------------------------------------------------------------------
(* The send half.                                                          *)

(* What is outstanding has been numbered, and what is to be sent again is  *)
(* unacknowledged.                                                         *)
SendOK(s) ==
  /\ s.unacked \in SUBSET Nat
  /\ s \in SendHalf(s.unacked)
  /\ s.resend \subseteq s.unacked
  /\ Outstanding(s) \subseteq 1 .. s.xmit

(* The same segments are outstanding and the advertised window is the same. *)
SameOutstanding(s, t) == t.xmit = s.xmit /\ t.adv = s.adv /\ Outstanding(t) = Outstanding(s)

(* Only what is on the lists is counted. *)
LEMMA CountedSegments ==
  ASSUME NEW s, SendOK(s), NEW S, S \subseteq Outstanding(s)
  PROVE  IsFiniteSet(S) /\ Cardinality(S) \in Nat
  <1>1. s.xmit \in Nat
    BY DEF SendOK, SendHalf
  <1>2. IsFiniteSet(1 .. s.xmit)
    BY <1>1, FS_Interval
  <1>3. S \in SUBSET (1 .. s.xmit)
    BY DEF SendOK
  <1>. QED  BY <1>2, <1>3, FS_Subset, FS_CardinalityType

(* The number of free send segments is an integer.                         *)
LEMMA SendSegmentsFreeType ==
  ASSUME NEW s, SendOK(s)
  PROVE  SendSegmentsFree(s) \in Int
  <1>1. Cardinality(Outstanding(s) \ {s.fin}) \in Nat
    BY CountedSegments
  <1>2. (IF s.hasSeg THEN 1 ELSE 0) \in Nat
    OBVIOUS
  <1>3. SendPool \in Nat
    BY SenderAssumption
  <1>. QED  BY <1>1, <1>2, <1>3 DEF SendSegmentsFree

(* A new stream owes its peer nothing.                                     *)
LEMMA InitSendOK == SendOK(InitSend) /\ Outstanding(InitSend) = {}
  <1>1. InitSend \in SendHalf({})
    BY SenderAssumption DEF InitSend, SendHalf, NoSeq, LateCap
  <1>2. /\ InitSend.unacked = {} /\ InitSend.resend = {} /\ InitSend.sendq = {}
    BY DEF InitSend
  <1>. QED  BY <1>1, <1>2 DEF SendOK, Outstanding

(* allocate_next_send_segment touches no list.                             *)
LEMMA AllocateNextSendSegmentOK ==
  ASSUME NEW s, SendOK(s)
  PROVE  /\ SendOK(AllocateNextSendSegment(s))
         /\ SameOutstanding(s, AllocateNextSendSegment(s))
  <1> DEFINE t == AllocateNextSendSegment(s)
  <1>1. t = s \/ t = [s EXCEPT !.hasSeg = TRUE, !.segWait = FALSE] \/ t = [s EXCEPT !.segWait = TRUE]
    BY DEF AllocateNextSendSegment
  <1>. HIDE DEF t
  <1>2. s \in SendHalf(s.unacked)
    BY DEF SendOK
  <1>3. /\ t \in SendHalf(s.unacked)
        /\ t.unacked = s.unacked /\ t.resend = s.resend /\ t.sendq = s.sendq
        /\ t.xmit = s.xmit /\ t.adv = s.adv
    BY <1>1, <1>2 DEF SendHalf
  <1>. QED  BY <1>3 DEF SendOK, SameOutstanding, Outstanding, t

(* write_buffer appends fresh sequence numbers to the send list.           *)
LEMMA WriteSegmentsOK ==
  ASSUME NEW s, SendOK(s), NEW n \in Nat
  PROVE  /\ SendOK(WriteSegments(s, n))
         /\ WriteSegments(s, n).xmit = s.xmit + n /\ WriteSegments(s, n).adv = s.adv
         /\ Outstanding(WriteSegments(s, n)) = Outstanding(s) \cup ((s.xmit + 1) .. (s.xmit + n))
  <1> DEFINE t == WriteSegments(s, n)
             last == s.xmit + n
             queue == s.sendq \cup ((s.xmit + 1) .. (s.xmit + n))
             more == n <= SendSegmentsFree(s)
             less == n > SendSegmentsFree(s)
  <1>1. s \in SendHalf(s.unacked) /\ s.xmit \in Nat /\ s.sendq \in SUBSET Nat
    BY DEF SendOK, SendHalf
  <1>2. t = [s EXCEPT !.xmit = last, !.sendq = queue, !.hasSeg = more, !.segWait = less]
    BY Zenon DEF WriteSegments
  <1>3. last \in Nat /\ queue \in SUBSET Nat /\ more \in BOOLEAN /\ less \in BOOLEAN
    BY <1>1, SendSegmentsFreeType
  <1>. HIDE DEF t, last, queue, more, less
  <1>4. t \in SendHalf(s.unacked)
    BY <1>1, <1>2, <1>3, Zenon DEF SendHalf
  <1>5. /\ t.unacked = s.unacked /\ t.resend = s.resend /\ t.sendq = queue
        /\ t.xmit = last /\ t.adv = s.adv
    BY <1>1, <1>2 DEF SendHalf
  <1>6. Outstanding(t) = Outstanding(s) \cup ((s.xmit + 1) .. (s.xmit + n))
    BY <1>5 DEF Outstanding, queue
  <1>7. Outstanding(t) \subseteq 1 .. t.xmit
    BY <1>1, <1>5, <1>6 DEF SendOK, last
  <1>. QED  BY <1>4, <1>5, <1>6, <1>7 DEF SendOK, t, last

(* add_fin_segment_to_send_lists appends one fresh sequence number.        *)
LEMMA AddFinSegmentOK ==
  ASSUME NEW s, SendOK(s)
  PROVE  /\ SendOK(AddFinSegment(s))
         /\ AddFinSegment(s).xmit = s.xmit + 1 /\ AddFinSegment(s).adv = s.adv
         /\ Outstanding(AddFinSegment(s)) = Outstanding(s) \cup {s.xmit + 1}
  <1> DEFINE t == AddFinSegment(s)
             last == s.xmit + 1
             queue == s.sendq \cup {s.xmit + 1}
  <1>1. s \in SendHalf(s.unacked) /\ s.xmit \in Nat /\ s.sendq \in SUBSET Nat
    BY DEF SendOK, SendHalf
  <1>2. t = [s EXCEPT !.xmit = last, !.fin = last, !.sendq = queue]
    BY Zenon DEF AddFinSegment
  <1>3. last \in Nat /\ queue \in SUBSET Nat
    BY <1>1
  <1>. HIDE DEF t, last, queue
  <1>4. t \in SendHalf(s.unacked)
    BY <1>1, <1>2, <1>3, Zenon DEF SendHalf
  <1>5. /\ t.unacked = s.unacked /\ t.resend = s.resend /\ t.sendq = queue
        /\ t.xmit = last /\ t.adv = s.adv
    BY <1>1, <1>2 DEF SendHalf
  <1>6. Outstanding(t) = Outstanding(s) \cup {s.xmit + 1}
    BY <1>5 DEF Outstanding, queue
  <1>7. Outstanding(t) \subseteq 1 .. t.xmit
    BY <1>1, <1>5, <1>6 DEF SendOK, last
  <1>. QED  BY <1>4, <1>5, <1>6, <1>7 DEF SendOK, t, last

(* handle_timeout moves segments between lists and loses none.             *)
LEMMA HandleTimeoutOK ==
  ASSUME NEW s, SendOK(s)
  PROVE  SendOK(HandleTimeout(s)) /\ SameOutstanding(s, HandleTimeout(s))
  <1> DEFINE t == HandleTimeout(s)
             U == s.unacked
  <1>1. s \in SendHalf(U) /\ U \in SUBSET Nat
    BY DEF SendOK
  <1>2. CwndInitial \in Int
    BY SenderAssumption
  <1>3. t = [s EXCEPT !.resend = U, !.probed = FALSE,
                      !.cwnd = CwndInitial, !.cwndMax = CwndInitial]
    BY DEF HandleTimeout
  <1>. HIDE DEF t, U
  <1>4. t \in SendHalf(U)
    BY <1>1, <1>2, <1>3, Zenon DEF SendHalf
  <1>5. /\ t.unacked = s.unacked /\ t.resend = U /\ t.sendq = s.sendq
        /\ t.xmit = s.xmit /\ t.adv = s.adv
    BY <1>1, <1>3 DEF SendHalf
  <1>. QED  BY <1>4, <1>5 DEF SendOK, SameOutstanding, Outstanding, t, U

(* A packet is written from what is outstanding. *)
LEMMA WriteDataToPacketOK ==
  ASSUME NEW s, SendOK(s), NEW out, out \subseteq Sendable(s)
  PROVE  SendOK(WriteDataToPacket(s, out)) /\ SameOutstanding(s, WriteDataToPacket(s, out))
  <1> DEFINE t == WriteDataToPacket(s, out)
             U == s.unacked \cup out
             stamp == [q \in s.unacked \cup out |-> IF q \in out THEN s.clock ELSE s.stamp[q]]
             late == [q \in s.unacked \cup out |-> IF q \in out THEN 0 ELSE s.late[q]]
             resend == s.resend \ out
             sendq == s.sendq \ out
             flight == s.flight + Cardinality(out \cap s.sendq)
             cwnd == s.cwnd - Cardinality(out)
             clock == s.clock + 1
  <1>1. /\ s \in SendHalf(s.unacked) /\ s.unacked \in SUBSET Nat
        /\ s.resend \subseteq s.unacked
    BY DEF SendOK
  <1>2. /\ s.resend \in SUBSET Nat /\ s.sendq \in SUBSET Nat /\ s.clock \in Nat
        /\ s.stamp \in [s.unacked -> Nat] /\ s.late \in [s.unacked -> 0 .. LateCap]
        /\ s.flight \in Int /\ s.cwnd \in Int
    BY <1>1 DEF SendHalf
  <1>3. out \subseteq s.resend \cup s.sendq
    BY DEF Sendable
  <1>4. U \in SUBSET Nat /\ resend \in SUBSET Nat /\ sendq \in SUBSET Nat
    BY <1>1, <1>2, <1>3
  <1>5. stamp \in [U -> Nat]
    BY <1>2
  <1>6. late \in [U -> 0 .. LateCap]
    BY <1>2 DEF LateCap
  <1>7. Cardinality(out) \in Nat /\ Cardinality(out \cap s.sendq) \in Nat
    BY <1>1, <1>3, CountedSegments DEF Outstanding
  <1>8. flight \in Int /\ cwnd \in Int /\ clock \in Nat
    BY <1>2, <1>7
  <1>9. t = [s EXCEPT !.unacked = U, !.resend = resend, !.sendq = sendq,
                      !.stamp = stamp, !.late = late,
                      !.flight = flight, !.cwnd = cwnd, !.clock = clock]
    BY Zenon DEF WriteDataToPacket
  <1>. HIDE DEF t, stamp, late, U, resend, sendq, flight, cwnd, clock
  <1>10. t \in SendHalf(U)
    BY <1>1, <1>4, <1>5, <1>6, <1>8, <1>9, Zenon DEF SendHalf
  <1>11. /\ t.unacked = U /\ t.resend = resend /\ t.sendq = sendq
         /\ t.xmit = s.xmit /\ t.adv = s.adv
    BY <1>1, <1>9 DEF SendHalf
  <1>12. t.resend \subseteq t.unacked /\ Outstanding(t) = Outstanding(s)
    BY <1>1, <1>3, <1>11 DEF Outstanding, U, resend, sendq
  <1>. QED  BY <1>4, <1>10, <1>11, <1>12 DEF SendOK, SameOutstanding, t

(* event_handled after ET_DATA. *)
LEMMA ProbedOK ==
  ASSUME NEW s, SendOK(s)
  PROVE  SendOK([s EXCEPT !.probed = TRUE]) /\ SameOutstanding(s, [s EXCEPT !.probed = TRUE])
  <1> DEFINE t == [s EXCEPT !.probed = TRUE]
  <1>1. s \in SendHalf(s.unacked)
    BY DEF SendOK
  <1>2. t \in SendHalf(s.unacked)
    BY <1>1, Zenon DEF SendHalf
  <1>3. /\ t.unacked = s.unacked /\ t.resend = s.resend /\ t.sendq = s.sendq
        /\ t.xmit = s.xmit /\ t.adv = s.adv
    BY <1>1 DEF SendHalf
  <1>. HIDE DEF t
  <1>. QED  BY <1>2, <1>3 DEF SendOK, SameOutstanding, Outstanding, t

(* A packet without segments only takes a stamp. *)
LEMMA ClockOK ==
  ASSUME NEW s, SendOK(s)
  PROVE  SendOK([s EXCEPT !.clock = @ + 1]) /\ SameOutstanding(s, [s EXCEPT !.clock = @ + 1])
  <1> DEFINE t == [s EXCEPT !.clock = @ + 1]
             clock == s.clock + 1
  <1>1. s \in SendHalf(s.unacked) /\ t = [s EXCEPT !.clock = clock]
    BY DEF SendOK
  <1>2. clock \in Nat
    BY <1>1 DEF SendHalf
  <1>. HIDE DEF t, clock
  <1>3. t \in SendHalf(s.unacked)
    BY <1>1, <1>2, Zenon DEF SendHalf
  <1>4. /\ t.unacked = s.unacked /\ t.resend = s.resend /\ t.sendq = s.sendq
        /\ t.xmit = s.xmit /\ t.adv = s.adv
    BY <1>1 DEF SendHalf
  <1>. QED  BY <1>3, <1>4 DEF SendOK, SameOutstanding, Outstanding, t

(* nabto_stream_open and nabto_stream_accept number from the start value. *)
LEMMA StartOK ==
  ASSUME NEW s, SendOK(s), Outstanding(s) = {}, NEW start \in Nat
  PROVE  /\ SendOK([s EXCEPT !.xmit = start])
         /\ [s EXCEPT !.xmit = start].xmit = start /\ [s EXCEPT !.xmit = start].adv = s.adv
         /\ Outstanding([s EXCEPT !.xmit = start]) = {}
  <1> DEFINE t == [s EXCEPT !.xmit = start]
  <1>1. s \in SendHalf(s.unacked)
    BY DEF SendOK
  <1>2. t \in SendHalf(s.unacked)
    BY <1>1, Zenon DEF SendHalf
  <1>3. /\ t.unacked = s.unacked /\ t.resend = s.resend /\ t.sendq = s.sendq
        /\ t.xmit = start /\ t.adv = s.adv
    BY <1>1 DEF SendHalf
  <1>. HIDE DEF t
  <1>. QED  BY <1>2, <1>3 DEF SendOK, Outstanding, t

(* Segments above a window that shrinks go back to the send list. *)
LEMMA UpdateWindowOK ==
  ASSUME NEW s, SendOK(s), NEW ack \in Ack
  PROVE  /\ SendOK(UpdateWindow(s, ack))
         /\ UpdateWindow(s, ack).xmit = s.xmit /\ UpdateWindow(s, ack).adv = ack.max + ack.win
         /\ Outstanding(UpdateWindow(s, ack)) = Outstanding(s)
  <1> DEFINE t == UpdateWindow(s, ack)
             back == PutBack(s, ack)
             U == s.unacked \ back
             stamp == [q \in s.unacked \ back |-> s.stamp[q]]
             late == [q \in s.unacked \ back |-> s.late[q]]
             resend == s.resend \ back
             sendq == s.sendq \cup back
             flight == FlightAfterPutBack(s, ack)
             adv == ack.max + ack.win
  <1>1. /\ s \in SendHalf(s.unacked) /\ s.unacked \in SUBSET Nat
        /\ s.resend \subseteq s.unacked
    BY DEF SendOK
  <1>2. /\ s.resend \in SUBSET Nat /\ s.sendq \in SUBSET Nat
        /\ s.stamp \in [s.unacked -> Nat] /\ s.late \in [s.unacked -> 0 .. LateCap]
        /\ s.flight \in Int
    BY <1>1 DEF SendHalf
  <1>3. back \subseteq s.unacked
    BY DEF PutBack
  <1>4. adv \in Nat
    BY DEF Ack
  <1>5. CASE ack.max + ack.win < s.adv
    <2>1. t = [s EXCEPT !.adv = adv, !.unacked = U, !.resend = resend, !.sendq = sendq,
                        !.stamp = stamp, !.late = late, !.flight = flight]
      BY <1>5, Zenon DEF UpdateWindow
    <2>2. flight \in Int
      <3>1. Cardinality(PutBack(s, ack)) \in Nat
        BY <1>3, CountedSegments DEF Outstanding
      <3>. QED  BY <1>2, <3>1 DEF FlightAfterPutBack
    <2>. HIDE DEF back
    <2>3. U \in SUBSET Nat /\ resend \in SUBSET Nat /\ sendq \in SUBSET Nat
      BY <1>1, <1>2, <1>3
    <2>4. stamp \in [U -> Nat] /\ late \in [U -> 0 .. LateCap]
      BY <1>2
    <2>. HIDE DEF t, stamp, late, U, resend, sendq, flight, adv
    <2>5. t \in SendHalf(U)
      BY <1>1, <1>4, <2>1, <2>2, <2>3, <2>4, Zenon DEF SendHalf
    <2>6. /\ t.unacked = U /\ t.resend = resend /\ t.sendq = sendq
          /\ t.xmit = s.xmit /\ t.adv = adv
      BY <1>1, <2>1 DEF SendHalf
    <2>7. t.resend \subseteq t.unacked /\ Outstanding(t) = Outstanding(s)
      BY <1>1, <1>3, <2>6 DEF Outstanding, U, resend, sendq
    <2>. QED  BY <2>3, <2>5, <2>6, <2>7 DEF SendOK, t, adv
  <1>6. CASE ~(ack.max + ack.win < s.adv)
    <2>1. t = [s EXCEPT !.adv = adv]
      BY <1>6, Zenon DEF UpdateWindow
    <2>. HIDE DEF t, adv
    <2>2. t \in SendHalf(s.unacked)
      BY <1>1, <1>4, <2>1, Zenon DEF SendHalf
    <2>3. /\ t.unacked = s.unacked /\ t.resend = s.resend /\ t.sendq = s.sendq
          /\ t.xmit = s.xmit /\ t.adv = adv
      BY <1>1, <2>1 DEF SendHalf
    <2>. QED  BY <2>2, <2>3 DEF SendOK, Outstanding, t, adv
  <1>. QED  BY <1>5, <1>6

(* An ack takes away what it acknowledges and nothing else. *)
LEMMA HandleAcksOK ==
  ASSUME NEW s, SendOK(s), NEW ack \in Ack
  PROVE  /\ SendOK(HandleAcks(s, ack))
         /\ HandleAcks(s, ack).xmit = s.xmit
         /\ HandleAcks(s, ack).adv = s.adv
         /\ Outstanding(s) \subseteq Outstanding(HandleAcks(s, ack)) \cup Acked(s, ack)
         /\ Outstanding(HandleAcks(s, ack)) \subseteq Outstanding(s)
  <1> DEFINE t == HandleAcks(s, ack)
             acked == Acked(s, ack)
             counted == CountedNacks(s, ack)
             recovery == StartsRecovery(s, ack)
             U == s.unacked \ acked
             resend == (s.resend \ acked) \cup FastRetransmits(s, ack)
             stamp == [q \in s.unacked \ acked |-> s.stamp[q]]
             late == [q \in s.unacked \ acked |-> IF q \in counted /\ s.late[q] < LateCap
                                                 THEN s.late[q] + 1 ELSE s.late[q]]
             flight == s.flight - Cardinality(acked)
             cwnd == s.cwnd + 2 * Cardinality(acked)
             cwndMax == IF recovery # {} THEN 2 * SlowStartMin
                        ELSE IF acked # {} THEN LargerOf(2 * s.flight, s.cwndMax)
                        ELSE s.cwndMax
             lost == IF recovery # {} THEN LargestOf(recovery)
                     ELSE IF s.lost \in acked THEN NoSeq
                     ELSE s.lost
  <1>1. /\ s \in SendHalf(s.unacked) /\ s.unacked \in SUBSET Nat
        /\ s.resend \subseteq s.unacked
        /\ s.unacked \subseteq 1 .. s.xmit
    BY DEF SendOK, Outstanding
  <1>2. /\ s.resend \in SUBSET Nat /\ s.sendq \in SUBSET Nat
        /\ s.stamp \in [s.unacked -> Nat] /\ s.late \in [s.unacked -> 0 .. LateCap]
        /\ s.flight \in Int /\ s.cwnd \in Int /\ s.cwndMax \in Int
        /\ s.lost \in Nat /\ s.xmit \in Nat
    BY <1>1 DEF SendHalf
  <1>3. acked \subseteq s.unacked /\ \A q \in acked : q \notin ack.holes
    BY DEF Acked
  <1>4. /\ counted \subseteq s.unacked /\ FastRetransmits(s, ack) \subseteq counted
        /\ recovery \subseteq counted /\ counted \subseteq ack.holes
    BY DEF CountedNacks, FastRetransmits, StartsRecovery
  <1>5. t = [s EXCEPT !.unacked = U, !.resend = resend, !.stamp = stamp, !.late = late,
                      !.flight = flight, !.cwnd = cwnd, !.cwndMax = cwndMax, !.lost = lost]
    BY Zenon DEF HandleAcks
  <1>6. Cardinality(acked) \in Nat
    BY <1>3, CountedSegments DEF Outstanding
  <1>7. SlowStartMin \in Nat
    BY SenderAssumption
  <1>8. lost \in Nat
    <2>1. ASSUME recovery # {} PROVE LargestOf(recovery) \in Nat
      <3>1. recovery \in SUBSET Nat /\ \A x \in recovery : x <= s.xmit
        BY <1>1, <1>2, <1>4
      <3>2. \E x \in recovery : \A y \in recovery : y <= x
        BY <1>2, <2>1, <3>1, GreatestElement
      <3>3. LargestOf(recovery) \in recovery
        BY <3>2 DEF LargestOf
      <3>. QED  BY <3>1, <3>3
    <2>. QED  BY <1>2, <2>1 DEF NoSeq
  <1>. HIDE DEF acked, counted, recovery
  <1>9. /\ U \in SUBSET Nat /\ resend \in SUBSET Nat
        /\ flight \in Int /\ cwnd \in Int /\ cwndMax \in Int
    BY <1>1, <1>2, <1>3, <1>4, <1>6, <1>7 DEF LargerOf
  <1>10. stamp \in [U -> Nat] /\ late \in [U -> 0 .. LateCap]
    BY <1>2 DEF LateCap
  <1>11. resend \subseteq U
    BY <1>1, <1>3, <1>4
  <1>. HIDE DEF t, U, resend, stamp, late, flight, cwnd, cwndMax, lost
  <1>12. t \in SendHalf(U)
    BY <1>1, <1>5, <1>8, <1>9, <1>10, Zenon DEF SendHalf
  <1>13. /\ t.unacked = U /\ t.resend = resend /\ t.sendq = s.sendq
         /\ t.xmit = s.xmit /\ t.adv = s.adv
    BY <1>1, <1>5 DEF SendHalf
  <1>14. /\ Outstanding(s) \subseteq Outstanding(t) \cup acked
         /\ Outstanding(t) \subseteq Outstanding(s)
    BY <1>3, <1>13 DEF Outstanding, U
  <1>15. SendOK(t)
    BY <1>9, <1>11, <1>12, <1>13, <1>14 DEF SendOK
  <1>. QED  BY <1>13, <1>14, <1>15 DEF t, acked
-----------------------------------------------------------------------------

(* The lists are in sequence order and flightSize is the length of the     *)
(* unacked list.                                                           *)
Listed(s) ==
  /\ \A u \in s.unacked, q \in s.sendq : u < q
  /\ s.flight = Cardinality(s.unacked)

(* What is sent leaves the head of the send list for the tail of the       *)
(* unacked list.                                                           *)
LEMMA WriteDataToPacketListed ==
  ASSUME NEW s, SendOK(s), Listed(s), NEW out, PacketFill(s, out)
  PROVE  Listed(WriteDataToPacket(s, out)) /\ WriteDataToPacket(s, out).fin = s.fin
  <1> DEFINE t == WriteDataToPacket(s, out)
             sent == out \cap s.sendq
  <1>1. /\ s \in SendHalf(s.unacked) /\ s.unacked \in SUBSET Nat /\ s.resend \subseteq s.unacked
    BY DEF SendOK
  <1>2. s.sendq \in SUBSET Nat /\ s.adv \in Nat /\ s.flight \in Int
    BY <1>1 DEF SendHalf
  <1>3. /\ t.unacked = s.unacked \cup out /\ t.sendq = s.sendq \ out
        /\ t.flight = s.flight + Cardinality(sent) /\ t.fin = s.fin
    BY <1>1 DEF WriteDataToPacket, SendHalf
  <1>4. out \subseteq s.resend \cup s.sendq
    BY DEF PacketFill, Sendable
  <1>5. t.unacked = s.unacked \cup sent
    BY <1>1, <1>3, <1>4
  <1>. HIDE DEF t
  <1>6. ASSUME NEW u \in t.unacked, NEW q \in t.sendq PROVE u < q
    <2>1. q \in s.sendq /\ q \notin out /\ q \in Nat
      BY <1>2, <1>3
    <2>2. CASE u \in s.unacked
      BY <2>1, <2>2 DEF Listed
    <2>3. CASE u \in out \cap s.sendq
      <3>1. u \in Sendable(s) /\ u \in Nat
        BY <1>2, <2>3 DEF PacketFill
      <3>2. CASE q < u
        <4>1. q \in Sendable(s)
          BY <1>2, <2>1, <3>1, <3>2 DEF Sendable, FlowControlCanSend
        <4>. QED  BY <2>1, <2>3, <3>2, <4>1 DEF PacketFill
      <3>3. q # u
        BY <2>1, <2>3
      <3>. QED  BY <2>1, <3>1, <3>2, <3>3
    <2>. QED  BY <1>5, <2>2, <2>3
  <1>7. t.flight = Cardinality(t.unacked)
    <2>1. IsFiniteSet(s.unacked) /\ IsFiniteSet(sent)
      BY CountedSegments DEF Outstanding
    <2>2. s.unacked \cap sent = {}
      BY <1>1 DEF Listed
    <2>3. Cardinality(s.unacked \cup sent) =
             Cardinality(s.unacked) + Cardinality(sent) - Cardinality(s.unacked \cap sent)
      BY <2>1, FS_Union
    <2>4. Cardinality(s.unacked) \in Nat /\ Cardinality(sent) \in Nat
      BY <2>1, FS_CardinalityType
    <2>5. Cardinality(s.unacked \cap sent) = 0
      BY <2>2, FS_EmptySet
    <2>6. s.flight = Cardinality(s.unacked)
      BY DEF Listed
    <2>. HIDE DEF sent
    <2>7. Cardinality(s.unacked \cup sent) = Cardinality(s.unacked) + Cardinality(sent)
      BY <2>3, <2>4, <2>5
    <2>8. t.flight = s.flight + Cardinality(sent) /\ t.unacked = s.unacked \cup sent
      BY <1>3, <1>5
    <2>. QED  BY <2>6, <2>7, <2>8
  <1>. QED  BY <1>3, <1>6, <1>7 DEF Listed, t

(* Removing from a finite set what is in it. *)
LEMMA CountRemoved ==
  ASSUME NEW s, SendOK(s), NEW T, T \subseteq s.unacked
  PROVE  Cardinality(s.unacked \ T) = Cardinality(s.unacked) - Cardinality(T)
  <1>1. IsFiniteSet(s.unacked) /\ IsFiniteSet(T)
    BY CountedSegments DEF Outstanding
  <1>2. Cardinality(s.unacked \ T) = Cardinality(s.unacked) - Cardinality(s.unacked \cap T)
    BY <1>1, FS_Difference
  <1>3. s.unacked \cap T = T
    OBVIOUS
  <1>. QED  BY <1>2, <1>3

(* What a smaller window puts back goes to the head of the send list. *)
LEMMA UpdateWindowListed ==
  ASSUME NEW s, SendOK(s), Listed(s), NEW ack \in Ack
  PROVE  Listed(UpdateWindow(s, ack)) /\ UpdateWindow(s, ack).fin = s.fin
  <1> DEFINE t == UpdateWindow(s, ack)
             back == PutBack(s, ack)
  <1>1. s \in SendHalf(s.unacked) /\ s.unacked \in SUBSET Nat
    BY DEF SendOK
  <1>2. s.sendq \in SUBSET Nat /\ ack.max \in Nat /\ ack.win \in Nat
    BY <1>1 DEF SendHalf, Ack
  <1>3. CASE ack.max + ack.win < s.adv
    <2>1. /\ t.unacked = s.unacked \ back /\ t.sendq = s.sendq \cup back
          /\ t.flight = s.flight - Cardinality(back) /\ t.fin = s.fin
      BY <1>1, <1>3 DEF UpdateWindow, FlightAfterPutBack, SendHalf
    <2>. HIDE DEF t
    <2>2. back \subseteq s.unacked
      BY DEF PutBack
    <2>3. t.flight = Cardinality(t.unacked)
      BY <2>1, <2>2, CountRemoved DEF Listed
    <2>4. ASSUME NEW u \in t.unacked, NEW q \in t.sendq PROVE u < q
      BY <1>1, <1>2, <2>1 DEF Listed, PutBack
    <2>. QED  BY <2>1, <2>3, <2>4 DEF Listed, t
  <1>4. CASE ~(ack.max + ack.win < s.adv)
    <2>1. /\ t.unacked = s.unacked /\ t.sendq = s.sendq
          /\ t.flight = s.flight /\ t.fin = s.fin
      BY <1>1, <1>4 DEF UpdateWindow, SendHalf
    <2>. QED  BY <2>1 DEF Listed
  <1>. QED  BY <1>3, <1>4

(* Every segment that is freed is taken off the flight. *)
LEMMA HandleAcksListed ==
  ASSUME NEW s, SendOK(s), Listed(s), NEW ack \in Ack
  PROVE  Listed(HandleAcks(s, ack)) /\ HandleAcks(s, ack).fin = s.fin
  <1> DEFINE t == HandleAcks(s, ack)
             acked == Acked(s, ack)
  <1>1. s \in SendHalf(s.unacked) /\ s.unacked \in SUBSET Nat
    BY DEF SendOK
  <1>2. /\ t.unacked = s.unacked \ acked /\ t.sendq = s.sendq
        /\ t.flight = s.flight - Cardinality(acked) /\ t.fin = s.fin
    BY <1>1 DEF HandleAcks, SendHalf
  <1>. HIDE DEF t
  <1>3. acked \subseteq s.unacked
    BY DEF Acked
  <1>4. t.flight = Cardinality(t.unacked)
    BY <1>2, <1>3, CountRemoved DEF Listed
  <1>. QED  BY <1>2, <1>4 DEF Listed, t

(* New segments go to the tail of the send list. *)
LEMMA WriteSegmentsListed ==
  ASSUME NEW s, SendOK(s), Listed(s), NEW n \in Nat
  PROVE  Listed(WriteSegments(s, n)) /\ WriteSegments(s, n).fin = s.fin
  <1> DEFINE t == WriteSegments(s, n)
  <1>1. s \in SendHalf(s.unacked) /\ s.unacked \subseteq 1 .. s.xmit
    BY DEF SendOK, Outstanding
  <1>2. s.xmit \in Nat
    BY <1>1 DEF SendHalf
  <1>3. /\ t.unacked = s.unacked /\ t.sendq = s.sendq \cup ((s.xmit + 1) .. (s.xmit + n))
        /\ t.flight = s.flight /\ t.fin = s.fin
    BY <1>1 DEF WriteSegments, SendHalf
  <1>. HIDE DEF t
  <1>. QED  BY <1>1, <1>2, <1>3 DEF Listed, t

(* The fin goes to the tail of the send list. *)
LEMMA AddFinSegmentListed ==
  ASSUME NEW s, SendOK(s), Listed(s)
  PROVE  Listed(AddFinSegment(s)) /\ AddFinSegment(s).fin = s.xmit + 1
  <1> DEFINE t == AddFinSegment(s)
  <1>1. s \in SendHalf(s.unacked) /\ s.unacked \subseteq 1 .. s.xmit
    BY DEF SendOK, Outstanding
  <1>2. s.xmit \in Nat
    BY <1>1 DEF SendHalf
  <1>3. /\ t.unacked = s.unacked /\ t.sendq = s.sendq \cup {s.xmit + 1}
        /\ t.flight = s.flight /\ t.fin = s.xmit + 1
    BY <1>1 DEF AddFinSegment, SendHalf
  <1>. HIDE DEF t
  <1>. QED  BY <1>1, <1>2, <1>3 DEF Listed, t

(* The other operations leave the unacked and the send list alone. *)
LEMMA SameLists ==
  ASSUME NEW s, SendOK(s), Listed(s)
  PROVE  /\ Listed(AllocateNextSendSegment(s)) /\ AllocateNextSendSegment(s).fin = s.fin
         /\ Listed(HandleTimeout(s)) /\ HandleTimeout(s).fin = s.fin
         /\ Listed([s EXCEPT !.probed = TRUE]) /\ [s EXCEPT !.probed = TRUE].fin = s.fin
         /\ Listed([s EXCEPT !.clock = @ + 1]) /\ [s EXCEPT !.clock = @ + 1].fin = s.fin
         /\ \A start \in Nat : /\ Listed([s EXCEPT !.xmit = start])
                               /\ [s EXCEPT !.xmit = start].fin = s.fin
  <1>1. s \in SendHalf(s.unacked)
    BY DEF SendOK
  <1>2. /\ Listed(AllocateNextSendSegment(s)) /\ AllocateNextSendSegment(s).fin = s.fin
    BY <1>1 DEF AllocateNextSendSegment, Listed, SendHalf
  <1>3. Listed(HandleTimeout(s)) /\ HandleTimeout(s).fin = s.fin
    BY <1>1 DEF HandleTimeout, Listed, SendHalf
  <1>4. Listed([s EXCEPT !.probed = TRUE]) /\ [s EXCEPT !.probed = TRUE].fin = s.fin
    BY <1>1 DEF Listed, SendHalf
  <1>5. Listed([s EXCEPT !.clock = @ + 1]) /\ [s EXCEPT !.clock = @ + 1].fin = s.fin
    BY <1>1 DEF Listed, SendHalf
  <1>6. ASSUME NEW start \in Nat
        PROVE  Listed([s EXCEPT !.xmit = start]) /\ [s EXCEPT !.xmit = start].fin = s.fin
    BY <1>1 DEF Listed, SendHalf
  <1>. QED  BY <1>2, <1>3, <1>4, <1>5, <1>6
-----------------------------------------------------------------------------
(* The segments read, `got`, and those on recvRead are the ones that       *)
(* follow `first`, in order, up to recvTop.                                *)
InSequence(first, r, got) ==
  /\ first <= r.top
  /\ Len(got) + Len(r.readq) = r.top - first
  /\ \A i \in 1 .. Len(got) : got[i] = first + i
  /\ \A i \in 1 .. Len(r.readq) : r.readq[i] = first + Len(got) + i

(* The same segments have been received in order. *)
SameRead(r, t) == t.top = r.top /\ t.max = r.max /\ t.fin = r.fin /\ t.readq = r.readq

(* What has been read stays in sequence when recvRead does not change. *)
LEMMA SameReadInSequence ==
  ASSUME NEW r, NEW t, SameRead(r, t), NEW first, NEW got, InSequence(first, r, got)
  PROVE  InSequence(first, t, got)
  BY DEF SameRead, InSequence

(* The segments that move to recvRead are consecutive. *)
LEMMA ConsecutiveSegments ==
  ASSUME NEW top \in Nat, NEW n \in Nat
  PROVE  /\ [i \in 1 .. n |-> top + i] \in Seq(Nat)
         /\ Len([i \in 1 .. n |-> top + i]) = n
         /\ \A i \in 1 .. n : [j \in 1 .. n |-> top + j][i] = top + i
  <1>1. [i \in 1 .. n |-> top + i] \in Seq(Nat) /\ Len([i \in 1 .. n |-> top + i]) = n
    OBVIOUS
  <1>. QED  BY <1>1

(* What moves to recvRead continues the sequence. *)
LEMMA MoveToReadInSequence ==
  ASSUME NEW r \in RecvHalf, r.top <= r.alloc, r.filled \subseteq 0 .. r.alloc,
         NEW first \in Nat, NEW got \in Seq(Nat), InSequence(first, r, got)
  PROVE  /\ InSequence(first, MoveToRead(r), got)
         /\ MoveToRead(r).top = InOrderEnd(r)
         /\ MoveToRead(r).max = r.max /\ MoveToRead(r).fin = r.fin
         /\ Len(MoveToRead(r).readq) = Len(r.readq) + (InOrderEnd(r) - r.top)
  <1> DEFINE end == InOrderEnd(r)
             moved == [i \in 1 .. (end - r.top) |-> r.top + i]
             m == MoveToRead(r)
             n == Len(r.readq)
             g == Len(got)
  <1>0. r.top \in Nat /\ r.alloc \in Nat
    BY DEF RecvHalf
  <1>1. r.top \in Nat /\ r.alloc \in Nat /\ r.readq \in Seq(Nat)
    BY DEF RecvHalf
  <1>2. end \in r.top .. r.alloc
    BY InOrderEndExists
  <1>3. /\ m.top = end /\ m.max = r.max /\ m.fin = r.fin /\ m.readq = r.readq \o moved
    BY DEF MoveToRead, RecvHalf
  <1>. HIDE DEF m, end
  <1>4. end \in Nat /\ end - r.top \in Nat
    BY <1>1, <1>2
  <1>5. /\ moved \in Seq(Nat) /\ Len(moved) = end - r.top
        /\ \A i \in 1 .. (end - r.top) : moved[i] = r.top + i
    BY <1>0, <1>4, ConsecutiveSegments
  <1>. HIDE DEF moved
  <1>6. /\ Len(r.readq \o moved) = n + Len(moved)
        /\ \A i \in 1 .. (n + Len(moved)) :
              (r.readq \o moved)[i] = IF i <= n THEN r.readq[i] ELSE moved[i - n]
    BY <1>1, <1>5, ConcatProperties
  <1>7. n \in Nat /\ g \in Nat
    BY <1>1, LenProperties
  <1>8. /\ first <= r.top /\ g + n = r.top - first
        /\ \A i \in 1 .. g : got[i] = first + i
        /\ \A i \in 1 .. n : r.readq[i] = first + g + i
    BY DEF InSequence
  <1>. HIDE DEF n, g
  <1>9. first <= m.top /\ g + Len(m.readq) = m.top - first
    <2>1. Len(m.readq) = n + (end - r.top)
      BY <1>3, <1>5, <1>6
    <2>2. m.top = end /\ g + n = r.top - first /\ first <= r.top /\ r.top <= end
      BY <1>1, <1>2, <1>3, <1>8
    <2>. HIDE DEF moved
    <2>3. first <= m.top
      BY <1>0, <1>4, <2>2
    <2>4. g + (n + (end - r.top)) = end - first
      <3> DEFINE top == r.top
      <3>1. top \in Nat /\ g + n = top - first
        BY <1>0, <2>2
      <3>. HIDE DEF top
      <3>2. g + (n + (end - top)) = end - first
        BY <1>4, <1>7, <3>1
      <3>. QED  BY <3>2 DEF top
    <2>. QED  BY <2>1, <2>2, <2>3, <2>4
  <1>10. ASSUME NEW i \in 1 .. Len(m.readq) PROVE m.readq[i] = first + g + i
    <2>1. i \in 1 .. (n + (end - r.top)) /\ i \in Nat
      BY <1>3, <1>4, <1>5, <1>6, <1>7
    <2>2. m.readq[i] = IF i <= n THEN r.readq[i] ELSE moved[i - n]
      BY <1>3, <1>5, <1>6, <2>1
    <2>3. CASE i <= n
      BY <1>7, <1>8, <2>1, <2>2, <2>3
    <2>4. CASE ~(i <= n)
      <3>1. i - n \in 1 .. (end - r.top)
        BY <1>4, <1>7, <2>1, <2>4
      <3>2. moved[i - n] = r.top + (i - n)
        BY <1>5, <3>1
      <3>3. m.readq[i] = r.top + (i - n) /\ g + n = r.top - first
        BY <1>8, <2>2, <2>4, <3>2
      <3> DEFINE top == r.top
                 x == m.readq[i]
      <3>4. top \in Nat /\ i \in Nat /\ x = top + (i - n) /\ g + n = top - first
        BY <1>0, <2>1, <3>3
      <3>. HIDE DEF top, x
      <3>5. x = first + g + i
        BY <1>7, <3>4
      <3>. QED  BY <3>5 DEF x
    <2>. QED  BY <2>3, <2>4
  <1>11. InSequence(first, m, got)
    BY <1>8, <1>9, <1>10 DEF InSequence, g
  <1>12. Len(m.readq) = n + (end - r.top)
    BY <1>3, <1>5, <1>6
  <1>. QED  BY <1>3, <1>11, <1>12 DEF m, n, end

(* A segment that is placed keeps the sequence. *)
LEMMA PlaceSegmentInSequence ==
  ASSUME NEW r, RecvOK(r), NEW q \in (r.top + 1) .. r.alloc,
         NEW first \in Nat, NEW got \in Seq(Nat), InSequence(first, r, got)
  PROVE  /\ InSequence(first, PlaceSegment(r, q), got)
         /\ PlaceSegment(r, q).max = (IF r.max < q THEN q ELSE r.max)
         /\ PlaceSegment(r, q).fin = r.fin
         /\ r.max = r.top /\ q = r.top + 1 =>
              PlaceSegment(r, q).top = q /\ PlaceSegment(r, q).readq # <<>>
  <1> DEFINE p == [r EXCEPT !.filled = @ \cup {q},
                            !.max = IF @ < q THEN q ELSE @,
                            !.ackNow = TRUE]
  <1>1. /\ r \in RecvHalf /\ r.top \in Nat /\ r.max \in Nat /\ r.alloc \in Nat
        /\ r.filled \in SUBSET Nat /\ r.readq \in Seq(Nat) /\ q \in Nat
    BY DEF RecvOK, RecvHalf
  <1>2. r.top <= r.max /\ r.max <= r.alloc /\ r.filled \subseteq (r.top + 2) .. r.max
    BY DEF RecvOK, WindowOK
  <1>3. /\ p \in RecvHalf
        /\ p.top = r.top /\ p.max = (IF r.max < q THEN q ELSE r.max) /\ p.alloc = r.alloc
        /\ p.filled = r.filled \cup {q} /\ p.readq = r.readq /\ p.fin = r.fin
    BY <1>1 DEF RecvHalf
  <1>4. PlaceSegment(r, q) = MoveToRead(p)
    BY DEF PlaceSegment
  <1>. HIDE DEF p
  <1>5. InSequence(first, p, got)
    BY <1>3 DEF InSequence
  <1>6. p.top <= p.alloc /\ p.filled \subseteq 0 .. p.alloc
    BY <1>1, <1>2, <1>3
  <1>7. /\ InSequence(first, MoveToRead(p), got)
        /\ MoveToRead(p).top = InOrderEnd(p)
        /\ MoveToRead(p).max = p.max /\ MoveToRead(p).fin = p.fin
        /\ Len(MoveToRead(p).readq) = Len(p.readq) + (InOrderEnd(p) - p.top)
    BY <1>3, <1>5, <1>6, MoveToReadInSequence
  <1>8. ASSUME r.max = r.top, q = r.top + 1
        PROVE  MoveToRead(p).top = q /\ MoveToRead(p).readq # <<>>
    <2>1. p.filled = {q}
      BY <1>1, <1>2, <1>3, <1>8
    <2>2. /\ InOrderEnd(p) \in p.top .. p.alloc
          /\ (p.top + 1) .. InOrderEnd(p) \subseteq p.filled
          /\ InOrderEnd(p) + 1 \notin p.filled
      BY <1>3, <1>6, InOrderEndExists
    <2>3. InOrderEnd(p) = q
      <3> DEFINE end == InOrderEnd(p)
      <3>1. end \in Nat /\ r.top <= end
        BY <1>1, <1>3, <2>2
      <3>2. end # r.top
        BY <1>1, <1>8, <2>1, <2>2
      <3>3. end \in (p.top + 1) .. end
        BY <1>1, <1>3, <3>1, <3>2
      <3>. QED  BY <2>1, <2>2, <3>3
    <2>4. Len(p.readq) \in Nat
      BY <1>1, <1>3, LenProperties
    <2>5. Len(MoveToRead(p).readq) >= 1
      BY <1>1, <1>3, <1>7, <1>8, <2>3, <2>4
    <2>. QED  BY <1>7, <2>3, <2>5, EmptySeq
  <1>. QED  BY <1>3, <1>4, <1>7, <1>8

(* find_recv_buffer only takes segments from the allocator. *)
LEMMA FindRecvBufferSame ==
  ASSUME NEW r, RecvOK(r), NEW q \in Nat
  PROVE  SameRead(r, FindRecvBuffer(r, q)) /\ FindRecvBuffer(r, q).filled = r.filled
  <1>1. r \in RecvHalf
    BY DEF RecvOK
  <1>. QED  BY <1>1 DEF FindRecvBuffer, GrowTo, SameRead, RecvHalf

(* The other operations do not touch recvRead either. *)
LEMMA SameReadOps ==
  ASSUME NEW r, RecvOK(r)
  PROVE  /\ SameRead(r, r)
         /\ SameRead(r, AllocateNextRecvSegment(r))
         /\ \A stamp : SameRead(r, NoteStamp(r, stamp))
         /\ \A b : SameRead(r, [r EXCEPT !.ackNow = b])
  <1>1. r \in RecvHalf
    BY DEF RecvOK
  <1>. QED  BY <1>1 DEF AllocateNextRecvSegment, NoteStamp, SameRead, RecvHalf

(* handle_data keeps the sequence. *)
LEMMA HandleDataInSequence ==
  ASSUME NEW r, RecvOK(r), NEW q \in Nat,
         NEW first \in Nat, NEW got \in Seq(Nat), InSequence(first, r, got)
  PROVE  /\ InSequence(first, HandleData(r, q), got)
         /\ HandleData(r, q).fin = r.fin
         /\ HandleData(r, q).max \in {r.max, q}
         /\ q <= r.top => SameRead(r, HandleData(r, q))
  <1> DEFINE f == FindRecvBuffer(r, q)
  <1>1. RecvOK(f) /\ SameRead(r, f) /\ (BufferFound(r, q) => q \in (f.top + 1) .. f.alloc)
    BY FindRecvBufferOK, FindRecvBufferSame
  <1>2. CASE q <= r.top
    <2>1. HandleData(r, q) = [r EXCEPT !.ackNow = TRUE]
      BY <1>2 DEF HandleData
    <2>2. SameRead(r, HandleData(r, q))
      BY <2>1, SameReadOps
    <2>. QED  BY <2>2, SameReadInSequence DEF SameRead
  <1>3. InSequence(first, f, got)
    BY <1>1, SameReadInSequence
  <1>. HIDE DEF f
  <1>4. CASE ~(q <= r.top) /\ BufferFound(r, q) /\ q \notin f.filled
    <2>1. HandleData(r, q) = PlaceSegment(f, q)
      BY <1>4 DEF HandleData, f
    <2>. QED  BY <1>1, <1>3, <1>4, <2>1, PlaceSegmentInSequence DEF SameRead
  <1>5. CASE ~(q <= r.top) /\ ~(BufferFound(r, q) /\ q \notin f.filled)
    <2>1. HandleData(r, q) = [f EXCEPT !.ackNow = TRUE]
      BY <1>5 DEF HandleData, f
    <2>2. SameRead(f, HandleData(r, q))
      BY <1>1, <2>1, SameReadOps
    <2>3. InSequence(first, HandleData(r, q), got)
      BY <1>3, <2>2, SameReadInSequence
    <2>. QED  BY <1>1, <1>5, <2>2, <2>3 DEF SameRead
  <1>. QED  BY <1>2, <1>4, <1>5

(* A fin that is next and finds a buffer ends the sequence. *)
LEMMA HandleFinInSequence ==
  ASSUME NEW r, RecvOK(r), NEW q \in Nat, r.max = r.top, q = r.top + 1,
         NEW first \in Nat, NEW got \in Seq(Nat), InSequence(first, r, got)
  PROVE  /\ InSequence(first, HandleFin(r, q), got)
         /\ BufferFound(r, q) => /\ HandleFin(r, q).fin = q /\ HandleFin(r, q).top = q
                                 /\ HandleFin(r, q).readq # <<>>
         /\ ~BufferFound(r, q) => SameRead(r, HandleFin(r, q))
  <1> DEFINE f == FindRecvBuffer(r, q)
             g == [f EXCEPT !.fin = q]
  <1>1. RecvOK(f) /\ SameRead(r, f) /\ (BufferFound(r, q) => q \in (f.top + 1) .. f.alloc)
    BY FindRecvBufferOK, FindRecvBufferSame
  <1>2. HandleFin(r, q) = IF BufferFound(r, q) THEN PlaceSegment(g, q) ELSE f
    BY DEF HandleFin
  <1>3. InSequence(first, f, got)
    BY <1>1, SameReadInSequence
  <1>. HIDE DEF f
  <1>4. /\ g \in RecvHalf /\ g.top = f.top /\ g.max = f.max /\ g.alloc = f.alloc
        /\ g.filled = f.filled /\ g.readq = f.readq /\ g.fin = q
    BY <1>1 DEF RecvOK, RecvHalf
  <1>. HIDE DEF g
  <1>5. RecvOK(g)
    BY <1>1, <1>4, SameSegments
  <1>6. InSequence(first, g, got)
    BY <1>3, <1>4 DEF InSequence
  <1>7. CASE BufferFound(r, q)
    <2>1. q \in (g.top + 1) .. g.alloc
      BY <1>1, <1>4, <1>7
    <2>2. g.max = g.top /\ q = g.top + 1
      BY <1>1, <1>4 DEF SameRead
    <2>3. /\ InSequence(first, PlaceSegment(g, q), got)
          /\ PlaceSegment(g, q).fin = g.fin
          /\ PlaceSegment(g, q).top = q /\ PlaceSegment(g, q).readq # <<>>
      BY <1>5, <1>6, <2>1, <2>2, PlaceSegmentInSequence
    <2>. QED  BY <1>2, <1>4, <1>7, <2>3
  <1>8. CASE ~BufferFound(r, q)
    BY <1>1, <1>2, <1>3, <1>8
  <1>. QED  BY <1>7, <1>8

(* Reading hands out the next segment of the sequence. *)
LEMMA ReadInSequence ==
  ASSUME NEW r, RecvOK(r), r.readq # <<>>,
         NEW first \in Nat, NEW got \in Seq(Nat), InSequence(first, r, got)
  PROVE  /\ InSequence(first, ReadSegment(r), Append(got, Head(r.readq)))
         /\ Head(r.readq) = first + Len(got) + 1
         /\ Len(Append(got, Head(r.readq))) = Len(got) + 1
         /\ Len(ReadSegment(r).readq) = Len(r.readq) - 1
         /\ ReadSegment(r).top = r.top /\ ReadSegment(r).max = r.max /\ ReadSegment(r).fin = r.fin
  <1> DEFINE t == ReadSegment(r)
             h == Head(r.readq)
             a == Append(got, h)
             n == Len(r.readq)
             g == Len(got)
  <1>1. r \in RecvHalf /\ r.readq \in Seq(Nat) /\ r.top \in Nat
    BY DEF RecvOK, RecvHalf
  <1>2. /\ t.top = r.top /\ t.max = r.max /\ t.fin = r.fin /\ t.readq = Tail(r.readq)
    BY <1>1 DEF ReadSegment, RecvHalf
  <1>. HIDE DEF t
  <1>3. n \in Nat /\ n # 0 /\ g \in Nat
    BY <1>1, LenProperties, EmptySeq
  <1>4. h = r.readq[1] /\ h \in Nat
    BY <1>1, HeadTailProperties
  <1>5. Len(t.readq) = n - 1 /\ \A i \in 1 .. (n - 1) : t.readq[i] = r.readq[i + 1]
    BY <1>1, <1>2, <1>3, HeadTailProperties
  <1>6. /\ Len(a) = g + 1 /\ a[g + 1] = h
        /\ \A i \in 1 .. g : a[i] = got[i]
    BY <1>4, AppendProperties
  <1>. HIDE DEF h, a
  <1>7. /\ first <= r.top /\ g + n = r.top - first
        /\ \A i \in 1 .. g : got[i] = first + i
        /\ \A i \in 1 .. n : r.readq[i] = first + g + i
    BY DEF InSequence
  <1>. HIDE DEF n, g
  <1>8. h = first + g + 1
    BY <1>3, <1>4, <1>7
  <1>9. first <= t.top /\ Len(a) + Len(t.readq) = t.top - first
    <2>1. Len(a) = g + 1 /\ Len(t.readq) = n - 1 /\ t.top = r.top
      BY <1>2, <1>5, <1>6
    <2>2. g + n = r.top - first /\ first <= r.top
      BY <1>7
    <2>. QED  BY <1>1, <1>3, <2>1, <2>2
  <1>10. ASSUME NEW i \in 1 .. Len(a) PROVE a[i] = first + i
    <2>1. i \in 1 .. g \/ i = g + 1
      BY <1>3, <1>6
    <2>2. CASE i \in 1 .. g
      BY <1>6, <1>7, <2>2
    <2>3. CASE i = g + 1
      <3>1. a[i] = first + g + 1
        BY <1>6, <1>8, <2>3
      <3>. QED  BY <1>3, <2>3, <3>1
    <2>. QED  BY <2>1, <2>2, <2>3
  <1>11. ASSUME NEW i \in 1 .. Len(t.readq) PROVE t.readq[i] = first + Len(a) + i
    <2>1. i \in 1 .. (n - 1) /\ i + 1 \in 1 .. n
      BY <1>3, <1>5
    <2>2. t.readq[i] = first + g + (i + 1)
      BY <1>5, <1>7, <2>1
    <2>. QED  BY <1>3, <1>6, <2>1, <2>2
  <1>12. InSequence(first, t, a)
    BY <1>9, <1>10, <1>11 DEF InSequence
  <1>. QED  BY <1>2, <1>5, <1>6, <1>8, <1>12 DEF t, h, a, n, g
=============================================================================
