----------------------------- MODULE CoapOther ------------------------------
(***************************************************************************)
(* A coap server that is not the one of this repository, as the client     *)
(* meets it.  RFC 7959 allows it what the client has code for and this     *)
(* repository's server never does: it may ask for smaller chunks when it   *)
(* acknowledges one, refuse the first chunk and name the size it can take, *)
(* and put the response into the acknowledgement.                          *)
(***************************************************************************)
EXTENDS CoapMessages

CONSTANT OtherLen    \* length of its response to each request

ASSUME OtherAssumption == OtherLen \in Nat

VARIABLE other       \* what it has of the request it is being sent, and its replies

InitOther == other = [body |-> <<>>, done |-> FALSE, refused |-> FALSE, replies |-> {}]

OtherReply(m, code, szx) ==
  [Message("client", "ACK", code, m.mid, m.conn, m.token) EXCEPT
     !.b1 = IF HasBlock(m.b1) THEN [m.b1 EXCEPT !.szx = szx] ELSE NoBlock,
     !.pay = IF code = "OK" THEN Units(0, OtherLen) ELSE <<>>]

(* It answers a message as soon as it arrives. *)
OtherSends(m, reply) ==
  /\ late' = late \ {m}
  /\ net' = [l \in Link |->
               IF l = LinkOf(reply) THEN Append(net[l], reply)
               ELSE IF m \notin late /\ l = LinkOf(m) THEN Tail(net[l]) ELSE net[l]]
  /\ UNCHANGED faults

(* A repeated message gets the reply it had. *)
OtherRepeats(m) ==
  /\ \E reply \in other.replies : reply.mid = m.mid /\ OtherSends(m, reply)
  /\ UNCHANGED other

OtherRefuses(m) ==
  /\ HasBlock(m.b1) /\ m.b1.num = 0 /\ m.b1.szx > 0 /\ ~other.refused /\ other.body = <<>>
  /\ LET reply == OtherReply(m, "TOO_LARGE", m.b1.szx - 1)
     IN  /\ OtherSends(m, reply)
         /\ other' = [other EXCEPT !.refused = TRUE, !.replies = @ \cup {reply}]

OtherTakes(m) ==
  \E szx \in 0..(IF m.b1.more THEN m.b1.szx ELSE 0) :
    LET reply == IF m.b1.more THEN OtherReply(m, "CONTINUE", szx)
                              ELSE OtherReply(m, "OK", m.b1.szx)
    IN  /\ OtherSends(m, reply)
        /\ other' = [other EXCEPT !.body = @ \o m.pay, !.done = ~m.b1.more,
                                  !.replies = @ \cup {reply}]

Answered(m) == \E reply \in other.replies : reply.mid = m.mid
InPlace(m) == m.code # "EMPTY" /\ ~other.done /\ (HasBlock(m.b1) => Offset(m.b1) = Len(other.body))

OtherHandles(m) ==
  \/ OtherRepeats(m)
  \/ ~Answered(m) /\ InPlace(m) /\ (OtherRefuses(m) \/ OtherTakes(m))
  \/ ~Answered(m) /\ ~InPlace(m) /\ Arrives(m) /\ UNCHANGED other

OtherNext == \E m \in Arriving("server", Conn) : OtherHandles(m)
=============================================================================
