--------------------------- MODULE ReliableStream ---------------------------
(***************************************************************************)
(* What a stream promises its two applications, whatever the network does: *)
(* each direction is a first in, first out channel that loses nothing,     *)
(* duplicates nothing and ends with an end of file exactly where the       *)
(* writer closed.  The segments of a direction are numbered from 1, so a   *)
(* channel is the number of segments written and the number read.          *)
(*                                                                         *)
(* StreamPair implements this specification.                               *)
(***************************************************************************)
EXTENDS Naturals

CONSTANT Writer   \* the ends; each writes one direction

VARIABLES
  written,        \* per writer: segments accepted by nabto_stream_write_buffer
  delivered,      \* per writer: segments handed out by nabto_stream_read_buffer
  closed,         \* per writer: nabto_stream_close has been called
  eof             \* per writer: its reader has been told NABTO_STREAM_STATUS_EOF

channel == <<written, delivered, closed, eof>>

Init ==
  /\ written = [w \in Writer |-> 0]
  /\ delivered = [w \in Writer |-> 0]
  /\ closed = [w \in Writer |-> FALSE]
  /\ eof = [w \in Writer |-> FALSE]

(* A write is accepted only before the close. *)
Write(w) ==
  /\ ~closed[w]
  /\ written'[w] \in Nat
  /\ written'[w] > written[w]
  /\ written' = [written EXCEPT ![w] = written'[w]]
  /\ UNCHANGED <<delivered, closed, eof>>

(* The next segment, and only one that was written. *)
Deliver(w) ==
  /\ delivered[w] < written[w]
  /\ delivered' = [delivered EXCEPT ![w] = @ + 1]
  /\ UNCHANGED <<written, closed, eof>>

Close(w) ==
  /\ ~closed[w]
  /\ closed' = [closed EXCEPT ![w] = TRUE]
  /\ UNCHANGED <<written, delivered, eof>>

(* End of file is reported once everything has been read and no more can   *)
(* be written.                                                             *)
EndOfFile(w) ==
  /\ closed[w]
  /\ delivered[w] = written[w]
  /\ ~eof[w]
  /\ eof' = [eof EXCEPT ![w] = TRUE]
  /\ UNCHANGED <<written, delivered, closed>>

Next == \E w \in Writer : Write(w) \/ Deliver(w) \/ Close(w) \/ EndOfFile(w)

Spec == Init /\ [][Next]_channel
=============================================================================
