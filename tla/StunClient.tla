----------------------------- MODULE StunClient -----------------------------
(***************************************************************************)
(* The NAT analysis of the STUN client, nabto_stun_client.c: the initial   *)
(* test T1 goes to every configured server endpoint until one answers,     *)
(* T2-T6 then run in parallel against that server, T7 runs last, and the   *)
(* answers become a verdict on the NAT between the client and the servers. *)
(* The integrator owns the sockets and the clock: it does what nextEvent   *)
(* asks for and hands in the packets it receives.                          *)
(*                                                                         *)
(* Tests are numbered as in the component's README: 1 is test1, 2..6 are   *)
(* tests[0..4] and 7 is defectRouterTest.  Time is counted in fractions of *)
(* NABTO_STUN_SEND_TIMEOUT, and a test keeps the age of its last           *)
(* transmission where the code keeps its stamp.  A mapped endpoint is the  *)
(* port the NAT gave, 0 is the port of an endpoint no answer has filled    *)
(* in: the integrator hands nabto_stun_init a zeroed structure.            *)
(***************************************************************************)
EXTENDS Integers, FiniteSets, FiniteSetsExt

CONSTANTS
  NumEps,              \* endpoints the initial test is sent to
  SendTimeout,         \* NABTO_STUN_SEND_TIMEOUT
  MaxRetriesAccepted,  \* NABTO_STUN_MAX_RETRIES_ACCEPTED
  MaxRetriesDropped,   \* NABTO_STUN_MAX_RETRIES_DROPPED
  MaxLateness,         \* bound: how long after its deadline an event is handled
  Worlds,              \* NATs, servers and networks the analysis may meet
  MaxFaults,           \* bound: answers a lossy network loses, delays or repeats
  MaxOutages           \* bound: times a failing network loses every packet for a while

Behaviours == {"INDEPENDENT", "ADDR_DEPENDENT", "PORT_DEPENDENT"}

\* A full server sends every attribute, a plain one only the mapped address,
\* an old one neither XOR-MAPPED-ADDRESS nor the others.
ASSUME StunAssumption ==
  /\ Worlds \subseteq [mapping : Behaviours, filtering : Behaviours, defect : BOOLEAN,
                      servers : {"full", "plain", "old"},
                      network : {"lossy", "failing"},
                      analyses : Nat]  \* bound: analyses run one after the other
  /\ {NumEps, SendTimeout} \subseteq Nat \ {0}
  /\ {MaxRetriesAccepted, MaxRetriesDropped} \subseteq Nat \ {0, 1}
  /\ {MaxLateness, MaxFaults, MaxOutages} \subseteq Nat

VARIABLES
  state, nextEvent, nextTimeout, nextTest,
  simple, initialTestsSent,
  server,      \* the endpoint T1's answer came from, serverEp
  tests,       \* test -> state, retransmissions, age, mapped port
  result,
  analysis,    \* which analysis this is: T's transaction id is <<analysis, T>>
  nat,         \* the NAT and the servers: what the analysis is to find out
  pinholes,    \* socket -> destinations the NAT has seen packets to
  epoch,       \* the analysis from which on the NAT knows the sockets
  net,         \* answers under way
  faults, outages, down

client == <<state, nextEvent, nextTimeout, nextTest, simple, initialTestsSent,
            server, tests, result, analysis>>
world == <<nat, pinholes, epoch, net, faults, outages, down>>
vars == <<client, world>>

-----------------------------------------------------------------------------
(* The tests.                                                              *)

Initial == 1
Parallel == 2..6
Defect == 7
Tests == 1..7

Sock(t) == IF t \in 1..3 THEN "PRIMARY" ELSE "SECONDARY"

Event(t) == IF Sock(t) = "PRIMARY" THEN "SEND_PRIMARY" ELSE "SEND_SECONDARY"

MaxRetransmissions(t) ==
  IF t \in {4, 5} THEN MaxRetriesDropped ELSE MaxRetriesAccepted

\* A server has two addresses and two ports; T1 and T4-T6 go to s1p1, T2 to
\* s1p2, T3 and T7 to s2p1.
Ep(s, a, p) == [srv |-> s, addr |-> a, port |-> p]

TestEp(t, s) == CASE t = 2 -> Ep(s, 1, 2)
                  [] t \in {3, 7} -> Ep(s, 2, 1)
                  [] OTHER -> Ep(s, 1, 1)

\* T4 asks the server to answer from its other port, T5 from its other address.
AnswerEp(t, s) == CASE t = 4 -> Ep(s, 1, 2)
                    [] t = 5 -> Ep(s, 2, 1)
                    [] OTHER -> TestEp(t, s)

\* nabto_stun_init_message leaves the endpoints of an earlier answer alone.
InitMessage(m) == [m EXCEPT !.state = "NONE", !.retransmissions = 0, !.age = 0]

Transmitted(m) == [m EXCEPT !.state = "SENT", !.age = 0,
                            !.retransmissions = @ + 1]

\* Mutant: one transmission too many.
ExhaustedOnceMore(m, t) == m.retransmissions > MaxRetransmissions(t)

Exhausted(m, t) == m.retransmissions >= MaxRetransmissions(t)

NoResult == [mapping |-> "NOT_AVAILABLE", filtering |-> "NOT_AVAILABLE",
             hasDefectNatAnswer |-> FALSE, defectNat |-> FALSE, ext |-> 0]

-----------------------------------------------------------------------------
(* The NAT and the network.                                                *)

\* The external port of packets from sock to d, another one once the NAT has
\* forgotten the sockets.  A defect NAT moves the mapping of a socket on which
\* an answer from elsewhere has been filtered.
NatPort(sock, d) ==
  LET remote == CASE nat.mapping = "INDEPENDENT" -> 0
                  [] nat.mapping = "ADDR_DEPENDENT" -> 2 * d.srv + d.addr
                  [] OTHER -> 100 + 4 * d.srv + 2 * d.addr + d.port
      moved == sock = "SECONDARY" /\ nat.defect /\ d.addr = 2
  IN 1000 * epoch + (IF sock = "PRIMARY" THEN 1 ELSE 2)
       + 3 * remote + (IF moved THEN 500 ELSE 0)

Passes(sock, from) ==
  \E d \in pinholes[sock] :
    CASE nat.filtering = "INDEPENDENT" -> TRUE
      [] nat.filtering = "ADDR_DEPENDENT" -> <<d.srv, d.addr>> = <<from.srv, from.addr>>
      [] OTHER -> d = from

Faulty == nat.network = "lossy" /\ faults < MaxFaults

\* Test t goes out to server s.  Its answer arrives while the client waits
\* ("soon"), at any later time, or not at all.
Transmit(t, s) ==
  LET m(fate) == [test |-> t, analysis |-> analysis, from |-> AnswerEp(t, s),
                  fate |-> fate,
                  mapped |-> IF nat.servers = "old" THEN 0
                             ELSE NatPort(Sock(t), TestEp(t, s))]
  IN /\ pinholes' = [pinholes EXCEPT ![Sock(t)] = @ \union {TestEp(t, s)}]
     /\ \/ down /\ UNCHANGED <<net, faults>>
        \/ ~down /\ net' = net \union {m("soon")} /\ UNCHANGED faults
        \/ /\ ~down /\ Faulty
           /\ faults' = faults + 1
           /\ net' \in {net, net \union {m("late")}}
     /\ UNCHANGED <<nat, epoch, outages, down>>

-----------------------------------------------------------------------------
(* Choosing what to do next.                                               *)

\* The first test that was never sent has precedence: the loop of
\* nabto_stun_set_next_test returns there, before it has looked at the later
\* ones for tests that are out of retries.
Unsent(ts) == {t \in Parallel : ts[t].state = "NONE"}

GivenUp(ts) ==
  LET reached == IF Unsent(ts) = {} THEN Parallel ELSE 2..Min(Unsent(ts)) - 1
  IN {t \in reached : Exhausted(ts[t], t)}

Outstanding(ts) == {t \in Parallel : ts[t].state = "SENT"}

\* The oldest outstanding test.  The search starts from the last one, which
\* therefore wins among equals.
Oldest(ts) ==
  LET sent == Outstanding(ts)
      oldest == {t \in sent : \A u \in sent : ts[u].age <= ts[t].age}
  IN IF Max(sent) \in oldest THEN Max(sent) ELSE Min(oldest)

GiveUp(ts, exhausted) ==
  [t \in Tests |-> IF t \in exhausted THEN [ts[t] EXCEPT !.state = "FAILED"] ELSE ts[t]]

\* nabto_stun_set_next_test in the state TESTING, the tests being ts.
SetNextTest(ts) ==
  /\ tests' = GiveUp(ts, GivenUp(ts))
  /\ \/ \E t \in Unsent(tests') :
          /\ t = Min(Unsent(tests'))
          /\ state' = "TESTING" /\ nextTest' = t /\ nextEvent' = Event(t)
          /\ UNCHANGED nextTimeout
     \/ /\ Unsent(tests') = {} /\ Outstanding(tests') = {}
        /\ state' = "DEFECT_ROUTER_TEST" /\ nextTest' = Defect
        /\ nextEvent' = "SEND_SECONDARY"
        /\ UNCHANGED nextTimeout
     \/ /\ Unsent(tests') = {} /\ Outstanding(tests') # {}
        /\ state' = "TESTING" /\ nextTest' = Oldest(tests')
        /\ \E waited \in {tests'[nextTest'].age} :
             IF waited >= SendTimeout
             THEN nextEvent' = Event(nextTest') /\ nextTimeout' = 0
             ELSE nextEvent' = "WAIT" /\ nextTimeout' = SendTimeout - waited

\* Mutant: only ports that were told are compared.
MappingOfAnswers(ts) ==
  IF ts[2].mapped \notin {0, ts[1].mapped} THEN "PORT_DEPENDENT"
  ELSE IF ts[3].mapped \notin {0, ts[1].mapped} THEN "ADDR_DEPENDENT"
  ELSE "INDEPENDENT"

Mapping(ts) == IF ts[2].mapped # ts[1].mapped THEN "PORT_DEPENDENT"
               ELSE IF ts[3].mapped # ts[1].mapped THEN "ADDR_DEPENDENT"
               ELSE "INDEPENDENT"

Filtering(ts) == IF ts[5].state = "COMPLETED" THEN "INDEPENDENT"
                 ELSE IF ts[4].state = "COMPLETED" THEN "ADDR_DEPENDENT"
                 ELSE "PORT_DEPENDENT"

Verdict(ts) ==
  LET answered == ts[Defect].state = "COMPLETED"
      moved == ts[Defect].mapped # ts[6].mapped
  IN [mapping |-> Mapping(ts), filtering |-> Filtering(ts), ext |-> ts[1].mapped,
      hasDefectNatAnswer |-> answered,
      defectNat |-> answered /\ Mapping(ts) = "INDEPENDENT" /\ moved]

\* Mutant: the event stays what it was.
ComputeResultSilently(ts) ==
  /\ tests' = ts
  /\ result' = Verdict(ts)
  /\ state' = "COMPLETED"
  /\ UNCHANGED nextEvent

ComputeResultAndStop(ts) ==
  /\ tests' = ts
  /\ result' = Verdict(ts)
  /\ state' = "COMPLETED"
  /\ nextEvent' = "COMPLETED"

-----------------------------------------------------------------------------
(* Calls of the integrator.                                                *)

Idle == state \in {"NOT_STARTED", "COMPLETED", "FAILED"}
Running == state \in {"INITIAL_TEST", "TESTING", "DEFECT_ROUTER_TEST"}

\* An analysis is asked for when none is running.
AsyncAnalyze(s) ==
  /\ Idle
  /\ analysis < nat.analyses
  /\ analysis' = analysis + 1
  /\ simple' = s
  /\ result' = NoResult
  /\ nextEvent' = "SEND_PRIMARY"
  /\ state' = "INITIAL_TEST"
  /\ initialTestsSent' = 0
  /\ nextTimeout' = SendTimeout
  /\ nextTest' = Initial
  /\ tests' = [tests EXCEPT ![Initial] = InitMessage(@)]
  /\ UNCHANGED <<server, world>>

\* nabto_stun_get_data_endpoint and nabto_stun_get_send_data on a send event.
Sending == nextEvent \in {"SEND_PRIMARY", "SEND_SECONDARY"}

SendInitial ==
  /\ Sending /\ state = "INITIAL_TEST"
  /\ Transmit(Initial, initialTestsSent + 1)
  /\ tests' = [tests EXCEPT ![Initial].state = "SENT"]
  /\ initialTestsSent' = initialTestsSent + 1
  /\ nextEvent' = IF initialTestsSent' = NumEps THEN "WAIT" ELSE nextEvent
  /\ nextTest' = Initial
  /\ nextTimeout' = SendTimeout
  /\ UNCHANGED <<state, simple, server, result, analysis>>

SendParallel ==
  /\ Sending /\ state = "TESTING"
  /\ Transmit(nextTest, server)
  /\ SetNextTest([tests EXCEPT ![nextTest] = Transmitted(@)])
  /\ UNCHANGED <<simple, initialTestsSent, server, result, analysis>>

SendDefect ==
  /\ Sending /\ state = "DEFECT_ROUTER_TEST"
  /\ Transmit(Defect, server)
  /\ tests' = [tests EXCEPT ![Defect] = Transmitted(@)]
  /\ nextEvent' = "WAIT"
  /\ nextTimeout' = SendTimeout
  /\ UNCHANGED <<state, nextTest, simple, initialTestsSent, server, result, analysis>>

\* nabto_stun_handle_wait_event, once nextTimeout has passed.
Waited == nextEvent = "WAIT" /\ nextTimeout = 0

WaitInitial ==
  /\ Waited /\ state = "INITIAL_TEST"
  /\ initialTestsSent' = 0
  /\ tests' = [tests EXCEPT ![Initial].retransmissions = @ + 1]
  /\ IF Exhausted(tests'[Initial], Initial)
     THEN state' = "FAILED" /\ nextEvent' = "FAILED"
     ELSE state' = state /\ nextEvent' = "SEND_PRIMARY"
  /\ UNCHANGED <<nextTimeout, nextTest, simple, server, result, analysis, world>>

WaitParallel ==
  /\ Waited /\ state = "TESTING"
  /\ SetNextTest(tests)
  /\ UNCHANGED <<simple, initialTestsSent, server, result, analysis, world>>

WaitDefect ==
  /\ Waited /\ state = "DEFECT_ROUTER_TEST"
  /\ IF Exhausted(tests[Defect], Defect)
     THEN ComputeResultAndStop([tests EXCEPT ![Defect].state = "FAILED"])
     ELSE nextEvent' = "SEND_SECONDARY" /\ UNCHANGED <<state, tests, result>>
  /\ UNCHANGED <<nextTimeout, nextTest, simple, initialTestsSent, server, analysis, world>>

-----------------------------------------------------------------------------
(* nabto_stun_handle_packet.                                               *)

\* Mutant: every analysis uses the same transaction ids.
CheckTestOnly(t, m) == t = m.test

CheckTransactionId(t, m) == t = m.test /\ analysis = m.analysis

\* nabto_stun_decode_message: an attribute that is missing is not written.
Decoded(ts, t, m) ==
  [ts EXCEPT ![t].mapped = IF m.mapped = 0 THEN @ ELSE m.mapped]

\* T1's answer.  One that lacks attributes is not an answer, whatever has been
\* decoded from it.
HandleInitial(m) ==
  /\ state = "INITIAL_TEST" /\ CheckTransactionId(Initial, m)
  /\ LET ts == Decoded(tests, Initial, m)
         done == [ts EXCEPT ![Initial].state = "COMPLETED"] IN
     \/ /\ ts[Initial].mapped # 0 /\ simple
        /\ tests' = done
        /\ result' = [result EXCEPT !.ext = ts[Initial].mapped]
        /\ state' = "COMPLETED" /\ nextEvent' = "COMPLETED"
        /\ UNCHANGED <<nextTest, nextTimeout, server>>
     \/ /\ ts[Initial].mapped # 0 /\ ~simple /\ nat.servers = "full"
        /\ server' = m.from.srv
        /\ result' = [result EXCEPT !.ext = ts[Initial].mapped]
        /\ SetNextTest([t \in Tests |-> IF t = Initial THEN done[t]
                                        ELSE InitMessage(ts[t])])
     \/ /\ ts[Initial].mapped = 0 \/ (~simple /\ nat.servers # "full")
        /\ tests' = ts
        /\ UNCHANGED <<state, nextEvent, nextTest, nextTimeout, server, result>>
  /\ UNCHANGED <<simple, initialTestsSent, analysis>>

\* Mutant: an answer still counts while T7 runs.
HandleParallelLate(m) ==
  \E t \in Parallel :
    /\ CheckTransactionId(t, m)
    /\ LET ts == [Decoded(tests, t, m) EXCEPT ![t].state = "COMPLETED"] IN
       \/ state = "TESTING" /\ SetNextTest(ts)
       \/ /\ state = "DEFECT_ROUTER_TEST" /\ tests' = ts
          /\ UNCHANGED <<state, nextEvent, nextTimeout, nextTest>>
    /\ UNCHANGED <<simple, initialTestsSent, server, result, analysis>>

HandleParallel(m) ==
  /\ state = "TESTING"
  /\ \E t \in Parallel :
       /\ CheckTransactionId(t, m)
       /\ \A u \in Parallel : u < t => ~CheckTransactionId(u, m)
       /\ SetNextTest([Decoded(tests, t, m) EXCEPT ![t].state = "COMPLETED"])
  /\ UNCHANGED <<simple, initialTestsSent, server, result, analysis>>

HandleDefect(m) ==
  /\ state = "DEFECT_ROUTER_TEST" /\ CheckTransactionId(Defect, m)
  /\ Decoded(tests, Defect, m)[Defect].mapped # 0
  /\ ComputeResultAndStop([Decoded(tests, Defect, m) EXCEPT ![Defect].state = "COMPLETED"])
  /\ UNCHANGED <<nextTimeout, nextTest, simple, initialTestsSent, server, analysis>>

Unmatched(m) ==
  /\ CASE state = "INITIAL_TEST" -> ~CheckTransactionId(Initial, m)
       [] state = "TESTING" -> \A t \in Parallel : ~CheckTransactionId(t, m)
       [] state = "DEFECT_ROUTER_TEST" ->
            ~CheckTransactionId(Defect, m) \/ Decoded(tests, Defect, m)[Defect].mapped = 0
       [] OTHER -> TRUE
  /\ UNCHANGED client

HandlePacket(m) ==
  HandleInitial(m) \/ HandleParallel(m) \/ HandleDefect(m) \/ Unmatched(m)

\* An answer reaches the NAT: it is handed to the client or filtered.  The
\* network may repeat it.
Deliver(m) ==
  /\ ~down
  /\ Passes(Sock(m.test), m.from) /\ HandlePacket(m)
  /\ \/ net' = net \ {m} /\ UNCHANGED faults
     \/ /\ Faulty /\ faults' = faults + 1
        /\ net' = (net \ {m}) \union {[m EXCEPT !.fate = "late"]}
  /\ UNCHANGED <<nat, pinholes, epoch, outages, down>>

Filtered(m) ==
  /\ ~Passes(Sock(m.test), m.from)
  /\ net' = net \ {m}
  /\ UNCHANGED <<client, nat, pinholes, epoch, faults, outages, down>>

\* The NAT forgets sockets that send nothing, or the integrator takes new
\* ones: it only matters before a further analysis.
Forget ==
  /\ Idle /\ epoch <= analysis /\ analysis < nat.analyses
  /\ epoch' = analysis + 1
  /\ pinholes' = [sock \in {"PRIMARY", "SECONDARY"} |-> {}]
  /\ UNCHANGED <<client, nat, net, faults, outages, down>>

\* Everything is lost for a while.
GoDown ==
  /\ ~down /\ nat.network = "failing" /\ outages < MaxOutages
  /\ Running
  /\ down' = TRUE /\ outages' = outages + 1 /\ net' = {}
  /\ UNCHANGED <<client, nat, pinholes, epoch, faults>>

ComeUp ==
  /\ down /\ down' = FALSE
  /\ UNCHANGED <<client, nat, pinholes, epoch, net, faults, outages>>

\* Time passes while nothing that is on time is under way.
Tick ==
  /\ Running
  /\ \A m \in net : m.fate # "soon"
  /\ nextEvent = "WAIT" \/ MaxLateness > 0
  /\ \A t \in Parallel : tests[t].state = "SENT" => tests[t].age < SendTimeout + MaxLateness
  /\ nextTimeout' = IF nextTimeout = 0 THEN 0 ELSE nextTimeout - 1
  /\ tests' = [t \in Tests |-> IF t \in Parallel /\ tests[t].state = "SENT"
                               THEN [tests[t] EXCEPT !.age = @ + 1] ELSE tests[t]]
  /\ UNCHANGED <<state, nextEvent, nextTest, simple, initialTestsSent, server,
                 result, analysis, world>>

Init ==
  /\ state = "NOT_STARTED" /\ nextEvent = "NO_EVENT"
  /\ nextTimeout = 0 /\ nextTest = 0
  /\ simple = FALSE /\ initialTestsSent = 0 /\ server = 1
  /\ tests = [t \in Tests |-> [state |-> "NONE", retransmissions |-> 0,
                               age |-> 0, mapped |-> 0]]
  /\ result = NoResult
  /\ analysis = 0
  /\ nat \in Worlds
  /\ pinholes = [sock \in {"PRIMARY", "SECONDARY"} |-> {}]
  /\ epoch = 1
  /\ net = {}
  /\ faults = 0 /\ outages = 0 /\ down = FALSE

Loop == SendInitial \/ SendParallel \/ SendDefect
          \/ WaitInitial \/ WaitParallel \/ WaitDefect

Next ==
  \/ \E s \in BOOLEAN : AsyncAnalyze(s)
  \/ Loop
  \/ \E m \in net : Deliver(m) \/ Filtered(m)
  \/ Forget \/ GoDown \/ ComeUp
  \/ Tick

Spec == Init /\ [][Next]_vars

\* The integrator handles the events it is asked to handle and reads its
\* sockets, and time passes.  Nothing is assumed of late packets, of the
\* network coming back, of the NAT forgetting or of further analyses.
FairSpec ==
  Spec /\ WF_vars(Loop \/ Tick \/ \E m \in net : m.fate = "soon" /\ (Deliver(m) \/ Filtered(m)))

-----------------------------------------------------------------------------
(* Properties.                                                             *)

\* No test is transmitted more often than its limit allows, the retries are
\* counted, and nextTest points at a test that may be sent whenever the
\* client asks the integrator to send.
TypeOK ==
  /\ state \in {"NOT_STARTED", "INITIAL_TEST", "TESTING", "DEFECT_ROUTER_TEST",
                "COMPLETED", "FAILED"}
  /\ nextEvent \in {"SEND_PRIMARY", "SEND_SECONDARY", "WAIT", "NO_EVENT",
                    "COMPLETED", "FAILED"}
  /\ initialTestsSent \in 0..NumEps
  /\ nextTimeout \in 0..SendTimeout
  /\ \A t \in Tests :
       /\ tests[t].state \in {"NONE", "SENT", "FAILED", "COMPLETED"}
       /\ tests[t].retransmissions \in 0..MaxRetransmissions(t)
       /\ tests[t].age \in 0..(SendTimeout + MaxLateness)
  /\ Sending /\ state = "TESTING" =>
       nextTest \in Parallel /\ nextEvent = Event(nextTest)

Analysed == state = "COMPLETED" /\ ~simple

\* A test's last transmission does not count: nabto_stun_set_next_test gives
\* the test up while that one is sent.
RetriesLeft(f) == \A t \in Tests : f <= MaxRetransmissions(t) - 2

\* The NAT knew nothing of the sockets when the analysis began.
Fresh == epoch = analysis

Openness(b) == CASE b = "INDEPENDENT" -> 2 [] b = "ADDR_DEPENDENT" -> 1 [] OTHER -> 0

\* The verdict is the truth about the NAT, in a second analysis too, as long
\* as fewer answers are lost, late or repeated than every test has retries
\* left to spend.  Only the filtering may be taken to be more open than it is,
\* and that only where the NAT still knows the sockets of an earlier analysis:
\* T7 of that one has opened the filter for this one's T5.
ExactVerdict ==
  Analysed /\ RetriesLeft(faults) /\ outages = 0 =>
    /\ result.mapping = nat.mapping
    /\ Openness(nat.filtering) <= Openness(result.filtering)
    /\ Fresh => result.filtering = nat.filtering
    /\ result.hasDefectNatAnswer
    /\ result.defectNat = (nat.defect /\ nat.mapping = "INDEPENDENT")
    /\ epoch <= analysis => result.ext = NatPort("PRIMARY", TestEp(Initial, server))

\* However many answers are lost, late or repeated, a NAT that knew nothing of
\* the sockets is never taken to filter less than it does: T7, which opens the
\* filter for the server's other address, is only sent when T5's answer no
\* longer counts.
FilteringNotOverstated ==
  Analysed /\ Fresh => Openness(result.filtering) <= Openness(nat.filtering)

\* In the same way the mapping is never taken to be less dependent than it
\* is: a port that no answer told differs from T1's.  This holds of the first
\* analysis a nabto_stun structure is used for; a later one compares with the
\* ports the earlier one left behind.
MappingNotOverstated ==
  Analysed /\ analysis = 1 => Openness(result.mapping) <= Openness(nat.mapping)

\* Every analysis ends with the event that tells the integrator so, whether
\* any server answers or not.
AnalysisEnds == Running ~> (nextEvent \in {"COMPLETED", "FAILED"})
=============================================================================
