# A TLA+ model of nabto-common

The repository holds five C libraries that Nabto clients and devices share.
This directory models them in TLA+: modules, TLC configurations and TLAPS
proofs. Line references are to the repository; `PROJECT.json` maps every
definition that models code to its lines.

## The system

| component | state | operations | interacts with |
|---|---|---|---|
| streaming (`components/streaming`) | send, unacked and resend lists, receive window, advertised window, congestion tokens, connection state, one timer | open, accept, write, read, close, stop; packet handlers; event loop | the peer by packets; the integrator's event loop, timers and allocators by calls |
| coap client (`components/coap`) | a list of requests, each a state machine; one pending ack and one pending rst | send, cancel, observe, handle packet, handle timeout | a server by packets; the caller by callbacks |
| coap server | a list of requests and observers per connection, router tree | handle packet, send, timeout, response_ready, notify, free | clients by packets; application handlers |
| stun client (`components/stun`) | seven tests with retransmission counts, the conclusions | analyze, handle packet, wait event | stun servers by packets |
| mdns server (`components/mdns`) | the service's name and subtypes | update info, handle packet, build packet | none: a function of the packet |
| nn (`components/nn`) | containers | list, vector, map and set operations | used by the others |

None of it is threaded: an integrator runs each component from one event loop.
What is hard is between the two ends of a connection. Packets are lost,
repeated and overtaken; timers pass while answers are under way; applications
write, close and stop at any moment; allocators run dry; a NAT in between
filters and remaps. Streaming, coap and the STUN client meet all of this and
are modelled; mdns and nn are sequential functions.

What makes each component correct:

* streaming: each direction is a reliable first in, first out channel with an
  end of file; nothing acknowledged is lost; the window and the congestion
  tokens never stop a transfer for good; closing ends at both sides, and is
  clean only if nothing was lost.
* coap client: a request ends exactly once, with the response to it, whatever
  is repeated or late; block transfers reassemble the body.
* coap server: the handler is first called with the whole body of a request (a
  message left over from a request the server has forgotten can make it be
  called again, see `coap_mixed`); memory held by the application outlives
  connection loss; observers get the latest notification.
* stun client: the analysis ends, its verdict is the truth about the NAT, and
  what is lost or late never makes the NAT look more open than it is.
* mdns, nn: functional correctness of sequential code.

## The modules

| module | models |
|---|---|
| `StreamSender` | the send half as a record and one operator per function that changes it |
| `StreamReceiver` | the receive half, likewise |
| `StreamPair` | two streams, their event loops and applications, the integrator and the network |
| `ReliableStream` | what the pair promises its applications |
| `StreamGaps` | the gap blocks of an ack, encoded and decoded |
| `StreamSeq`, `StreamSeqProofs` | comparison of numbers that wrap around, with proofs |
| `StreamHalfProofs` | what each operator of the two halves keeps |
| `StreamProofs` | the inductive invariant of `StreamPair` and the theorems from it |
| `StreamOrderProofs` | what is read is what was written, in order, and the refinement; the retransmission timer; orderly closes |
| `StreamOpenProofs` | the handshake: sizes, nonces and replay protection |
| `StreamGapsProofs` | the gap blocks, for any window and room |
| `CoapMessages` | coap messages, block arithmetic, and the network |
| `CoapClient` | the requests of a coap client, one action per call, event and kind of packet |
| `CoapServer` | the requests and observers of a coap server, likewise |
| `CoapOther` | a coap server of another make, as the client meets it |
| `CoapExchange` | client, server, application and clocks together, and the properties |
| `CoapProofs` | the safety properties of `coap_calls`, proved |
| `StunClient` | the NAT analysis, the NAT and the servers |
| `StunProofs` | its verdict never overstates a NAT that knew nothing of the sockets, and is exact when faults are few, proved |
| `MCStreamPair`, `MCCoap`, `MCStun` | constants for the runs |

### StreamSender, StreamReceiver

The code's intrusive lists are sorted by sequence number, so a list is the set
of its sequence numbers, and its head is the least of them. A segment's
payload is identified with its sequence number, which `write_buffer` assigns
once. Sequence numbers and logical timestamps are unwrapped; `StreamSeq` is
the justification.

Congestion control keeps its control: tokens are taken by each segment sent
and come back with acks, `flightSize` is counted apart from the unacked list
as in the code, and recovery starts at the second nack. The pool of send
segments is assumed smaller than `NABTO_STREAM_SLOW_START_MIN_VALUE`
(`SenderAssumption`), so that every ack finds slow start and the fractional
increments of congestion avoidance do not occur. The code has no such limit;
the assumption is part of every theorem about the pair, and only the number of
congestion tokens depends on it.

### StreamPair

`nabto_stream_next_event_to_handle` is the operator `NextEvent`. The loop of
the integrator performs the event it answers, one action per event type
(`SendSyn`, `SendData`, `SendAck`, `Timeout`, ...), which includes what
`nabto_stream_event_handled` then does. `nabto_stream_handle_packet` is one
action per packet type. The segments in an ack packet are handled one at a
time (`ParseData`, `ParseFin`); nothing else happens until the packet is
finished, as in the single threaded code.

Time is abstracted. A stamp is `now`, `inf` or `future`. A future stamp passes
when nothing else can happen (`Silence`), or earlier (`EarlyTimer`, bounded).
The network holds a set of packets; delivery may keep the packet (duplicate)
or pass older ones (reorder), and `Lose` removes one. Each is bounded by a
named constant.

The integrator is not in the repository. `Release` follows
`nabto_stream_stop_should_send_rst` and `nabto_stream_destroy`; `AnswerRst` is
the answer to a packet without a stream, which `create_rst_packet` exists for.
`IDLE` stands for a stream that is not opened yet: at the responder, one that
does not exist before its syn arrives.

### StreamGaps

One step per gap block written and read, over all windows up to the bound.
The packets of `StreamPair` carry the set of missing segments that these
blocks stand for; windows there are small enough that no block is merged.

### CoapMessages, CoapClient, CoapServer, CoapExchange

A message keeps the fields the two ends decide by. A payload is a sequence of
units, each of which says which body and which version of the resource it was
cut from and where it belongs, so that a lost, doubled, misplaced or foreign
block shows; a block of size exponent `szx` has `2^szx` units where the code
has 16 times as many bytes. A request's token is its name: `next_token` never
repeats one within the life of a client of these sizes. Message ids are numbers
that only grow; in the code they have 16 bits, so the model stands for exchanges
in which no message is held back while 65536 ids are given out.

`CoapClient` has one action per function an owner calls (`New`, `Send`,
`Cancel`, `Deregister`, `Free`, `RemoveClientConnection`), one per answer of
`get_next_event` (`SendClientRst`, `SendClientAck`, `SendRequest`,
`HandleCallback`), the timeout, and one per kind of packet. `Outcome` is
`parse_and_handle_response`, its parts named after its blocks of code:
`Opened` (a message that is no further block starts the response afresh),
`Held`, `Misplaced`, `Stored`, then the ends for Block1 and Block2. The request
list has the newest request first, and tokens grow, so the loops over the list
act on the largest that fits.

`CoapServer` keeps both lists in order, because the send loop serves the first
that fits. `SetRequests` applies `free_request` to what it stores: a request
goes when it is done and the application has freed it. `Data` is
`handle_data_for_request` with its refusals in the code's order; a handler is
called in the same step and takes the request to USER, and `Respond`,
`AcceptObserve` and `FreeRequest` are what the application then does, at any
later time. An observer's pending update is a set of at most one version.

`CoapOther` is there for the client's code that the repository's server never
exercises: a smaller block size in the acknowledgement of a chunk, a refusal
that names a size, a response inside the acknowledgement.

The network keeps messages in order for each connection and direction. A fault
loses a message, holds it back for any length of time, or copies it and holds
the copy back. A deadline passes when nothing but messages held back is under
way or waiting to be sent: deadlines are seconds, the loops run in between, and
whatever a deadline might overtake is a message held back. Malformed packets,
failing allocations, content formats and the removal of resources are left
out.

`handled` is a history variable: the requests whose handler has been called.
`RequestIntact` needs it to tell the first call from a further one.

### StunClient

Tests are numbered as in the component's README. `SetNextTest` is
`nabto_stun_set_next_test` and is part of every action whose handler calls it.
A test keeps the age of its last transmission where the code keeps a stamp, in
fractions of the send timeout; `Tick` passes time, up to `MaxLateness` past a
deadline. The NAT is modelled too, since the verdict is about it: how it chooses
ports (`NatPort`), what it lets through (`Passes`, by the destinations it has
seen packets to), whether it moves the mapping of a socket. An answer is under
way "soon", late, or lost; a failing network loses everything for a while. An
old server sends no attribute the client reads, a plain one only the mapped
address.

`nabto_stun_async_analyze` touches neither sockets nor NAT, so a further
analysis meets the pinholes and the mappings of the one before. Between two
analyses the environment may take the step `Forget`: the NAT's timers have run
out, or the integrator has taken new sockets. Then the pinholes are gone and the
ports are others (`epoch`). `Fresh` says that this happened before the analysis
in question, and it always holds of the first.

## The runs

All bounds are constants and appear in the `.cfg` files. Deadlock is not
checked: finished or idle ends may rest.

| run | checks | why the bounds are enough |
|---|---|---|
| `transfer` | `TypeOK`, `RecvWindowOK`, `NoDataLoss`, `WindowHonest`, `InOrderDelivery`, `SendListsOK`, `RetransmissionArmed` | three segments through pools and a window of two, so either segment of a window may be missing and the window closes under segments in flight; an overtaken packet and a timer that passes early give gaps, stale acks and repeated data (losses of data are in `progress`) |
| `handshake` | `Agreement`, `NonceGate` | every combination of two segment sizes at both ends and of replay protection; repeated and lost handshake packets; an allocator that runs dry; the connection may die; the opened event is delivered late |
| `stops` | `CleanClose`, `FinIsLast`, `ReliableChannel` (refinement), `StopIsNoticed` | either end is stopped, or aborts its opening, at any moment of a run in which one end writes and both close; any packet may be lost, the rst that tells the other end included, and one may be overtaken, the fin, a data segment or an ack |
| `progress` | `NoFalseAbort`, `Delivered`, `Terminates` | both ends close in any order and one of them writes, so all paths of the closing states occur; two losses can hit a packet and its retransmission, or a fin and its ack |
| `gaps` | `AckIsAck`, `FitsPacket`, `ReachesTop`, `ExactWithRoom`, `NewestAndOldest` | ten segments have up to five gaps, more than the two to four blocks there is room for |
| `wrap` | `WrapOrder` | sixteen words and numbers up to fifty: three wraps |
| `coap_calls` | `TypeOK`, `ResponseIntact`, `RequestIntact`, `OtherIntact`, `EndsOnce`, `LastAckEnds`, `NoDangling`, `Ends`, `Released`, `PendingIsSent`, `Forgotten` | a body of three units in chunks of two and a response of two in blocks of one, so first, last and shorter blocks occur; one fault on any message of a request, two against the other server; two requests at once at a server with room for one; one retransmission, so that both a retry and giving up happen; two updates, so that one waits in the pending slot while the other is unacknowledged; observations that stay, leave, are removed, are cancelled, and lose their connection |
| `coap_late` | `LateChunkRefused` | the request with a body, one message of it copied and held back, and an owner who may cancel |
| `coap_mixed` | `OneRepresentation` | one request, one copy, one update of the resource |
| `stun` | `TypeOK`, `FilteringNotOverstated`, `MappingNotOverstated`, `ExactVerdict`, `AnalysisEnds` | the retry limits are those of the code, 7 and 3; two server endpoints; one faulty answer where the verdict must be exact, an outage of any length where it must only be safe; two analyses in a row of a NAT that filters, with the same sockets or forgotten ones |

`progress`, `stops` and `lost_window` use `FairSpec`, weak fairness of one action,
`Progress`: while anything of the following can be done, something of it is. The
integrator runs its loop, hands over packets and passes time; applications accept,
read, close when they are closers, and release what has ended. That is what the
module interface asks of an integrator. Nobody is obliged to write, to stop, to
lose or to delay. Timers pass only when nothing else is possible (`Silence`), all
at once, because no end's clock can stop.

`coap_calls` uses a `FairSpec` of the same kind: while one of
the ends has something to do by itself (`Progress`: its loop, a message that is
not held back, a deadline, the application's answer to a request it was given)
it does not stop for ever. Owners need not send, cancel or free, nobody need
update a resource, and a message held back need never arrive. `stun` assumes
that the integrator does what `nextEvent` asks, reads its sockets and lets time
pass; not that the network comes back or that the NAT forgets.

Four runs find that the code does not do what its documentation says:

* `lost_window` — a sender whose segments all wait above a closed window does
  not recover when the ack that reopens it is lost. The probe that
  `flow_control_can_send` provides needs a timeout, and a timeout needs an
  unacknowledged segment.
* `closing_window` — an orderly close is reported as an abort although nothing
  is lost. `handle_rst` recognises the rst that ends a close by a fin at the
  head of the unacked list; a window that shrinks under the fin has put it back
  on the send list. The window shrinks because the packet with the peer's fin
  was sent while the peer's next receive segment could not be allocated, and
  two repeated packets do the rest: one lets the peer take the fin and end, the
  other makes it answer with the rst. The bounds are one segment of data, a
  receive pool of one and no loss.
* `coap_mixed` — `components/coap/README.md` says that every block of a
  transfer comes from the same representation between the repository's own
  peers. A copy of block 0 that arrives while the client is about to ask for
  block 1 is answered with a RST; the server ends the request; the client's
  request for block 1 makes a new one, whose handler runs again, and if the
  resource has changed in between the body is of both versions.
* `coap_late` — the comment in `nabto_coap_server_handle_timeout` and the
  component's README say that a chunk that arrives after its transfer was
  discarded gets 4.08. The offset check answers so to every chunk but the first:
  a late copy of chunk 0 has offset 0, fits a new and empty request, and begins
  the transfer again. The test of the discard sends chunk 1 only.

`LastAckEnds`, `OtherIntact` and `FilteringNotOverstated` are worth a word.
The first says that an acknowledgement makes the server forget a response only
when the client's request has ended, although clients acknowledge copies of old
blocks: with the response, and then it has all of it, or by a timeout or a
cancel. The second depends on
progress being counted in bytes, in the size the chunk was sent with. The third
holds because T7, which opens the filter for the server's other address, is
sent only when T5's answer no longer counts: letting a late answer count, as
one mutant does, breaks it. It is stated of analyses whose sockets the NAT knew
nothing of; see below for the others.

### Seen while modelling

Behaviour without a run of its own.

Streaming:

* `connection_died` in `LAST_ACK` reports `CLOSED` with data unacknowledged
  (`nabto_stream_window.c:943`; `nabto_stream.h:122` says `ABORTED`).
* The probe above a closed window is a packet, not "one segment"
  (`nabto_stream_packet.c:726`, `nabto_stream_flow_control.c:33`).
* The nack iterator compares logical timestamps with a plain `<`
  (`nabto_stream_window.c:534`), unlike all other comparisons.
* A pool of one receive segment can stop a transfer: the window reads 0 while
  an allocation is pending and the segment in order is refused.
* Segments put back by a shrinking window do not return their congestion
  tokens.
* `ST_TIME_WAIT` ends as soon as nothing is pending; a repeated fin is then
  answered with an rst. `progress` and `OrderlyClose` show this to be harmless
  where no window shrinks below a fin, `closing_window` that it is not
  otherwise.
* The rst of a stop is sent once (`nabto_stream_stop_should_send_rst`). If it is
  lost while the other end has nothing unacknowledged, that end has no timer and
  nothing to ask for: in `FIN_WAIT_2`, or open and only reading, it waits for
  ever. `StopIsNoticed` excepts this (`OutOfTouch`) and nothing else; an end
  with something unacknowledged repeats it and is answered with an rst.
* The `readClosed` event, `sendAck` and `windowHasOpened` are never set.

Coap:

* A request for a block of the response that meets a server which has forgotten
  the request makes it call the handler again: with no body, or, if a late copy
  of chunk 0 came before it (`coap_late`), with the part that this chunk holds.
  `RequestIntact` says that the first call has the whole body, and what a
  further one may have: a piece from its start.
* The component's README says that a repeated block is acknowledged and
  ignored, and that a block which leaves a gap ends the request. A repeated
  block 0 starts the reassembly again, and after a gap only the response so
  far is dropped. `ResponseIntact` shows that neither spoils a body.
* An update that arrives between the timeout of a notification and its
  retransmission becomes the current one and leaves an older update in the
  pending slot, which is sent after it.
* A notification that arrives in `DONE_CALLBACK` is answered with a RST, which
  removes the observer at the server while the client waits on.
* A deregistration in `WAIT_ACK` or `DONE_CALLBACK` is never sent, and one that
  finds the registering request still alive at the server is ignored there.
* `client_remove_connection` leaves the ack and rst slots, and
  `accept_observe` after `server_remove_connection` makes an observer without a
  connection.

STUN:

* The answer to the last permitted transmission of a parallel test never
  counts: `set_next_test` gives the test up in the call that sends it, and
  gives up a completed test with a used up count as well. `ExactVerdict` is
  stated with one fault less for this reason.
* `init_message` keeps the mapped endpoints, so a second analysis with
  unanswered tests compares with ports of the first, and
  `MappingNotOverstated` is stated of the first.
* In a second analysis on the same sockets T7's pinhole of the first one may
  still be open. T5's answer comes from the address T7 was sent to, passes, and
  `compute_result` reports `INDEPENDENT` (`nabto_stun_client.c:121`) for a NAT
  that filters, without any fault. Nothing in the repository says what a
  repeated analysis promises. `FilteringNotOverstated` and the filtering in
  `ExactVerdict` are stated where the NAT knew nothing of the sockets (`Fresh`);
  otherwise `ExactVerdict` says that the filtering is not reported stricter than
  it is.
* With T6 unanswered and T7 answered the NAT is reported defect.

## Proofs

Nothing is taken on trust: every lemma and theorem is proved to its leaves from
the assumptions on the constants, which TLC evaluates in the runs. TLC checked
every inductive invariant below on an instance before it was proved.

### The pair of streams

`StreamProofs` proves four of the invariants that `transfer` checks, for every
send pool below `NABTO_STREAM_SLOW_START_MIN_VALUE` (`SenderAssumption`), every
receive pool, window and list size, every start sequence number, any number of segments
and of losses, duplicates, overtakings, early timers and deaths:

| theorem | property | what it says of the code |
|---|---|---|
| `TypeCorrect` | `TypeOK` | both streams, the network and the environment keep their types |
| `WindowWellFormed` | `RecvWindowOK` | `find_recv_buffer` and the moves to the read list keep the receive window's shape |
| `NothingLost` | `NoDataLoss` | a segment that `segment_has_been_acked` frees is at the peer |
| `WindowNeverOverstated` | `WindowHonest` | no stale ack makes `maxAdvertisedWindow` exceed `recvTop + NABTO_STREAM_MAX_RECV_SEGMENTS` of the peer |

None of them is inductive. `NoDataLoss` says what an ack did, not what acks in
flight may still do, and one of those may be arbitrarily old. `IInv` adds:

* `NetSafe`: every ack in flight is honest. The segments it acknowledges have
  been received by its sender, and its window ends no further than the sender's
  `recvTop` plus the window;
* `SendSafe` and `RecvOK`: per end, the two properties with the facts their
  preservation needs (resend within unacked, no outstanding number above
  `xmitSeq`, allocation never below zero);
* `Fresh`: before `open` or `accept` nothing is outstanding, and before the
  peer's first packet nothing has been received. Without it the step that
  anchors the receive window at the syn could lower `recvTop`.

The argument is one of monotonicity. `Extends(r, t)` says that all that `r` has
received `t` has too, and each operator of the receive half is shown in
`StreamHalfProofs` to extend its argument. An ack that was honest when it was
sent is therefore honest for ever, however late it arrives (`StepOK`). Each
operator of the send half is shown to keep the outstanding segments, or to free
only segments that an honest ack names. `StreamProofs` then has one lemma per
action, `NextOK` joins them, and `Invariance` is `Spec => []IInv`. Where the
model uses CHOOSE (the head of a list, the end of the segments in order), the
existence of what is chosen is a lemma from the order of the natural numbers.

### What is read is what was written

`StreamOrderProofs` builds on `IInv`:

| theorem | property | what it says of the code |
|---|---|---|
| `ListsConsistent` | `SendListsOK` | `send_segment`, the put back of `nabto_stream_flow_control_advertised_window_reduced`, timeouts and acks keep the lists of a sender disjoint and sorted, and `flightSize` the length of one |
| `FinComesLast` | `FinIsLast` | a fin is sent when nothing else is outstanding, and who has it has everything before it |
| `DeliveredInOrder` | `InOrderDelivery` | `read_buffer` hands out each segment once and in order, EOF after the last (nobody closes in `transfer`; of the end of file the runs check it in `stops`, by `ReliableChannel`) |
| `ClosedMeansReceived` | `CleanClose` | `ST_CLOSED` means that the peer has received everything |
| `ImplementsReliableStream` | `ReliableChannel` | every step of the pair is a step of `ReliableStream`, or none |

`NoDataLoss` counts segments; none of these follows from counting. `OInv` says
where each segment is. Per direction: what the application has read, what lies
on the read list and the segments up to `recvTop` are one unbroken stretch of
numbers from the start number (`InSequence`); what the window and the packets
under way hold is numbered no higher than the last data written (`Numbered`);
a fin, at the sender, in a packet, in a parsed packet or at the receiver, is the
same number. A receiver is `Blank` until it is anchored and `Ordered`
from then on, and the state of the connection says which. The refinement then
needs one lemma per action: `WriteBuffer`, `ReadBuffer` and `Close` are the
steps of the channel, everything else is a stutter.

`ClosedMeansReceived` has a condition, that no connection was reported dead:
`connection_died` turns `LAST_ACK` into `CLOSED` with data outstanding (see
above). `stops`, where no connection dies, checks `CleanClose` as it stands.

### The timer, and closing

Two more theorems of `StreamOrderProofs`:

| theorem | property | what it says of the code |
|---|---|---|
| `ArmedUnlessOverdrawn` | `RetransmissionArmed` | `event_handled` and `handle_ack` leave nothing unacknowledged without a timer or data to send, but for a fin that is alone and was sent beyond the congestion window |
| `OrderlyClose` | `NoFalseAbort` | closes that cross, and packets that are lost, repeated or late, never end in `ABORTED` or `ABORTED_RST`, while nobody is stopped, no connection dies and no window shrinks below an unacknowledged fin |

`RetransmissionArmed` needs to know what may come while the timer is stopped.
`TendedInv` says: with the timer stopped nothing is outstanding, or nothing has
been sent and a token is there (`Untried`), or a fin is alone (`FinOnly`). A
write starts the timer itself, and so does `ET_DATA`; the last acknowledgement
leaves it running if a fin is due. Only `close` with nothing outstanding puts a
segment, the fin, on the send list and starts no timer. With a token left
`ET_DATA` follows and starts it. If segments that were put back have used the
tokens up for good, the fin goes with the next `ET_ACK`, which starts none: that
is `Overdrawn`. No instance that was run reaches this; the proof does not
exclude it, and so the theorem names it.

`OrderlyClose` has a condition on the steps, `Undisturbed`, and is a theorem
about the behaviours that keep to it: `Spec /\ [][Undisturbed]_vars`. The run
`progress` lies within it, and `closing_window` shows what happens outside.
`CInv` says how far two closing ends are. The states that have the peer's fin
are those where the receive half has it, and those whose own fin is acknowledged
those where the peer has it (`FinsAgree`); a packet with a fin comes from an end
whose fin is not on the send list any more (`Launched`); only an end that exists
has sent anything (`Known`). Nobody
is stopped, so an rst is sent for a stream that has ended in an orderly way and
was released (`RstsLate`). It has the fin of the end the rst reaches, and that
end has its fin: `handle_rst` finds the fin at the head of the unacked list, or
nothing outstanding, and takes the rst for the end of the close. `Undisturbed`
is what keeps the fin there.

### The handshake

| theorem | property | what it says of the code |
|---|---|---|
| `SizesAgreed` | `Agreement` | no data segment is longer than its receiver accepts, and both ends agree on replay protection |
| `NonceFirst` | `NonceGate` | a responder with replay protection opens after its nonce has come back |

`Agreement` speaks of ends that exchange data, and the settings are made long
before. `HInv` follows them: until the responder has heard a syn every syn in
flight repeats the initiator's settings; then the responder's settings are
within what was offered and every syn ack repeats them; once either end is open,
or an ack is in flight, both are the same. A late copy of a syn is harmless
because the responder takes no second one.

### The gap blocks

| theorem | property | what it says of the code |
|---|---|---|
| `AckMeansAck` | `AckIsAck` | no missing segment is acknowledged by a block |
| `BlocksFit` | `FitsPacket` | merging keeps the blocks within the packet |
| `WalkReachesTop` | `ReachesTop` | the sender's walk along the blocks ends at `recvTop`, all missing segments nacked |
| `RoomMeansExact` | `ExactWithRoom` | with room for every run exactly the missing segments are nacked |
| `EndsStayAcked` | `NewestAndOldest` | merging never unacknowledges the newest and the oldest segment |

What a block means depends on all blocks before it, so a property of a block
seems to need induction over the list. `GInv` avoids it: it says that there is a
function `pos` from indices to positions in the window such that block `i`
describes the stretch from `pos[i - 1]` down to `pos[i]`. Appending a block
extends `pos`, merging moves its last value, and the sender's walk reads it.

### Coap

`CoapProofs`, for any number of requests, connections, faults, updates and
retransmissions, any limits, body lengths and block sizes:

| theorem | property | what it says of the code |
|---|---|---|
| `CalledOnce` | `EndsOnce` | `handle_callback` reports the end of a request at most once |
| `NothingDangles` | `NoDangling` | `request->observer` is never a freed observer |
| `RequestIsIntact` | `RequestIntact` | `handle_data_for_request` calls the handler for the first time with the whole body, and later with a piece from its start, never with a chunk twice or out of place |
| `ResponseIsIntact` | `ResponseIntact` | `parse_and_handle_response` ends well only with the whole response |
| `OtherHasAll` | `OtherIntact` | `block1_adopt_size` and `block1_advance` skip and repeat nothing when the size changes |
| `LastAckOfAll` | `LastAckEnds` | `handle_ack` lets a response go only for an ack of its last block, from a client whose request has ended |
| `TypesHold` | `TypeOK` | the slots, the lists of the server and the retransmissions stay within their limits |

`EndsOnce` is not inductive: nothing in it says why a request that has ended is
not ended again by a late ack, response, RST or timeout. `EndInv` adds that a
request whose end was reported is `DONE` or freed, and every action is shown to
be `Lasting`: it takes no request out of those states, and all but
`HandleCallback` leave the count alone. For the second theorem `ObsInv` says of
each request that an observer it refers to is on the list. An action that
rewrites a request `Follows` it (no observer is gained), one that rewrites an
observer keeps it on the list, `AcceptObserve` gains both at once, and what
frees an observer (`Forgetting`) clears the reference. These two invariants type
only the fields they speak of, so messages and payloads stay arbitrary, and no
assumption on the constants is used.

`ResponseIsIntact`, and half of `RequestIsIntact`, are about the payloads. `BodyInv` follows them from end to end:
every message under way, on time or held back, carries the piece that its Block
option names, and the last one ends the body (`Answer`, `Chunked`); what the
client has gathered of a response is a piece that starts at unit 1 (`Asked`);
what the server has gathered of a request is a prefix of it (`Served`), and the
place a response has got to lies within its body (`Answering`). The client's
offset is a multiple of its block size until all chunks are sent (`Boundary`):
without it the number in the option would name another place. The arithmetic of
sizes (`Products`, `Division`, `BlockOfPart`) is stated once. Block size
exponents are taken from 0..6, because the reserved 7 is refused by both ends.

That the handler's first call has the whole body is not a matter of payloads
alone. A message without a Block1 option ends a transfer as the last chunk does,
so the handler may get what has been gathered till then. `HandlerInv` says that
such a message, unless it carries the whole body, exists only after the first
call (`Wholesome`). The client sends one only when it has a block of the response
or has sent all of a body it knows to be taken, and then the handler has been
called (`Marked`); what tells it so, a response or an acknowledgement under way
that shows the server done with the body, is sent by a server that has called it
(`Informs`, `Given`).

`OtherHasAll` is the same question with a server that changes the size in the
middle of a transfer. `BodyInv` says too little for it, since the client's
offset need not be a multiple of the first size any more. `SizeInv` adds that
the offset is a multiple of the size in use (`InStep`): sizes only get smaller
(`Adopts`), and a smaller one divides a larger one (`SizeDivides`, `Rescaled`).
A body that fits one block of the first size is never cut (`Small`), so no
message without a Block option names a part of a body. The server that is not
of this repository keeps what it has of one request (`CoapOther`), and
`ScenariosAssumption` says that one is made of it.

For `TypesHold` the lists have to be followed through the removals in their
middle. `Without` is written with the ranks of the elements that stay, so that
its length and its elements follow from facts on cardinalities and not from an
induction over the list (`RankReached`, `WithoutKeeps`). That an observer's list
has room when a registration is renewed needs that the old entry is on it
(`ObserverList`).

`LastAckOfAll` is about steps and not states: the server compares nothing but
the message id of an acknowledgement with that of the response, and decides by
the block it is at. That this is enough rests on `AckInv`. Every response that
the server has not forgotten and every notification has an id of its own, and no
id is given out twice (`Numbered`), so a step of the server leaves the response
that an id names as it is or takes a new id (`Later`, which sums up
`Quiet` and `Started`, shown of each of its actions). A confirmable message under way that
names a response is therefore the block that the response is at (`Speaks`), and
an acknowledgement that names one was sent for it. The client sends one either
for a block that is new to it, and then the last one ends the request, or for a
block it holds already. The second never is the last block of a long response:
the client would have the whole of it and would not wait any more (`Sane`). This
needs that both ends use the size the server starts with (`OwnSize`: without it
the place of a block in the body could change under a message id), that a
response of one block is not sent as a block (`Blocked`), and that a Block1
option does not go with the last of several blocks, since it would make the
client send its next chunk in place of the acknowledgement. Ends are followed
for requests that do not observe only: an observation ends and begins again.

### The NAT analysis

`StunProofs`, for any number of endpoints, any retry limits, timeouts, NATs,
faults and outages:

| theorem | property | what it says of the code |
|---|---|---|
| `TestsWithinLimits` | `TypeOK` | `set_next_test` asks for a transmission only of a test that has one left |
| `FilteringIsSafe` | `FilteringNotOverstated` | `compute_result` never says that a NAT which knew nothing of the sockets filters less than it does |
| `MappingIsSafe` | `MappingNotOverstated` | nor, in the first analysis, that its mapping depends on less |
| `VerdictIsExact` | `ExactVerdict` | with fewer faults than each test has retries to spend, its mapping, defect and external port are those of the NAT, in every analysis; so is the filtering where the NAT knew nothing of the sockets, and elsewhere it is not reported stricter |

A verdict rests on answers that arrived long before it. `SInv` relates the
places they go through: `BudgetInv` says which tests still have a transmission
to spend; `FilterInv` that until T7 a NAT that knew nothing of the sockets has
seen the secondary one send to the servers' first endpoints only, so an answer to
T4 or T5 that got through tells what is filtered; `PortInv` that in the first analysis every port, in an
answer under way or in a test, is the one the NAT gives for the server that
answered T1. The proof of the mapping showed that the model had to say which of
two overlapping cases of `Mapping` counts (TLA+'s CASE does not), as the code's
if and else if do.

`VerdictIsExact` rests on `EInv` (`FaultsAccounted`), which adds three parts to
`SInv`. `TallyInv` pays for transmissions with faults: a test is sent again only
when `SendTimeout` has passed and no answer of it came, and an answer that is
neither lost nor late arrives before any time passes; so the retransmissions of
a test exceed the faults of the analysis by one at most, and while the test is
`SENT` only as long as its answer is under way. Counting the faults of all tests
together is enough, since each test by itself stays below them. `AnswersInv`
says that an answer under way came from the server T1 found, through a pinhole
that is open, with the port the NAT gives for it; `LearnedInv` that every port a
test has kept was told in this analysis, so `init_message` keeping the old ones
does no harm here, and neither does an answer to an earlier analysis, whose
transaction id is not this one's. When the verdict is computed every test the NAT lets an
answer through to is completed, and not given up.

### Numbers that wrap

`StreamSeqProofs` proves for every word size that the comparisons and the
maximum of `nabto_stream_util.c` agree with the order of the unwrapped numbers,
as long as the numbers in use span less than half of the words
(`WrapOrderInvariant`, from `SpanInvariant`). The chain is division with
remainder (`WrapDivision`), numbers less than half a turn apart (`Neighbours`),
the serial order (`SerialOrder`).

### Only model-checked

* Liveness (`Delivered`, `Terminates`, `StopIsNoticed`, `WindowReopens`, `Ends`,
  `Released`, `PendingIsSent`, `Forgotten`, `AnalysisEnds`) is under fairness,
  which the prover does not handle.
* `RetransmissionArmed` and `NoFalseAbort` without the exception and the
  condition of `ArmedUnlessOverdrawn` and `OrderlyClose`. Their runs check both
  as they stand; of the second `closing_window` shows that it is not true of
  every instance.

## Not modelled

Left out of streaming: byte layouts, logging, statistics, the value of the
retransmission timeout, streams closed without an application event callback.
Left out of coap: byte layouts, the router, malformed packets, failing
allocations, content formats, removal of resources, requests without a timeout.
Left out of STUN: byte layouts and malformed packets.

The mdns server, the nn containers and the message codecs are byte level or
sequential functions; they keep no state that an interleaved step could
disturb.
