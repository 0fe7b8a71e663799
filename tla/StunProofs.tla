----------------------------- MODULE StunProofs -----------------------------
(***************************************************************************)
(* The NAT analysis is proved never to overstate a NAT that knew nothing   *)
(* of the sockets, for any number of endpoints and retries and for any     *)
(* number of answers lost, late or repeated, and to tell the truth about   *)
(* it when those are few.                                                  *)
(*                                                                         *)
(* What a verdict rests on is in several places: in the answers under way, *)
(* in the packets the NAT has seen from the secondary socket and in what   *)
(* the tests have kept.  SInv relates them.                                *)
(***************************************************************************)
EXTENDS StunClient, WellFoundedInduction, TLAPS

Socket == {"PRIMARY", "SECONDARY"}

Test == [state : {"NONE", "SENT", "FAILED", "COMPLETED"},
         retransmissions : Nat, age : Nat, mapped : Nat]

Endpoint == [srv : Nat, addr : {1, 2}, port : {1, 2}]

Answer == [test : Tests, analysis : Nat, from : Endpoint,
           fate : {"soon", "late"}, mapped : Nat]

Types ==
  /\ tests \in [Tests -> Test]
  /\ nat \in Worlds
  /\ simple \in BOOLEAN
  /\ server \in Nat /\ analysis \in Nat /\ epoch \in Nat
  /\ pinholes \in [Socket -> SUBSET Endpoint]
  /\ net \subseteq Answer

(* A test that is to be sent has a retransmission left. *)
BudgetInv ==
  /\ state = "INITIAL_TEST" =>
       ~Exhausted(tests[Initial], Initial) /\ (Sending => initialTestsSent < NumEps)
  /\ state = "TESTING" =>
       /\ nextTest \in Parallel
       /\ \A t \in Parallel : tests[t].state = "NONE" => tests[t].retransmissions = 0
       /\ tests[Defect].retransmissions = 0
       /\ Sending => ~Exhausted(tests[nextTest], nextTest)
  /\ state = "DEFECT_ROUTER_TEST" /\ Sending => ~Exhausted(tests[Defect], Defect)

LetThrough ==
  /\ tests[4].state = "COMPLETED" => nat.filtering # "PORT_DEPENDENT"
  /\ tests[5].state = "COMPLETED" => nat.filtering = "INDEPENDENT"

(* Where the NAT knew nothing of the sockets, the secondary one has only   *)
(* sent to s1p1 until T7 is sent, so that an answer to T4 or T5 says what  *)
(* the NAT lets through.                                                   *)
FilterInv ==
  /\ \A m \in net : m.from = AnswerEp(m.test, m.from.srv)
  /\ epoch > analysis =>
       epoch = analysis + 1 /\ Idle /\ pinholes["SECONDARY"] = {}
  /\ Fresh /\ state \in {"INITIAL_TEST", "TESTING"} =>
       \A d \in pinholes["SECONDARY"] : d.addr = 1 /\ d.port = 1
  /\ Fresh /\ state \in {"TESTING", "DEFECT_ROUTER_TEST"} => LetThrough

(* In the first analysis every port is one this analysis has learned, from *)
(* the server that answered T1.                                            *)
PortOf(n, e, sock, d) ==
  LET remote == CASE n.mapping = "INDEPENDENT" -> 0
                  [] n.mapping = "ADDR_DEPENDENT" -> 2 * d.srv + d.addr
                  [] OTHER -> 100 + 4 * d.srv + 2 * d.addr + d.port
      moved == sock = "SECONDARY" /\ n.defect /\ d.addr = 2
  IN 1000 * e + (IF sock = "PRIMARY" THEN 1 ELSE 2) + 3 * remote + (IF moved THEN 500 ELSE 0)

Told(n, e, m) ==
  IF n.servers = "old" THEN 0 ELSE PortOf(n, e, Sock(m.test), TestEp(m.test, m.from.srv))

PortInv ==
  /\ analysis = 0 =>
       net = {} /\ state = "NOT_STARTED" /\ \A t \in Tests : tests[t].mapped = 0
  /\ analysis = 1 /\ Running =>
       /\ \A m \in net :
            /\ m.mapped = Told(nat, epoch, m)
            /\ m.test # Initial => m.from.srv = server /\ state # "INITIAL_TEST"
       /\ \A t \in {2, 3} :
            tests[t].mapped \in {0, PortOf(nat, epoch, "PRIMARY", TestEp(t, server))}
       /\ state = "INITIAL_TEST" => tests[2].mapped = 0 /\ tests[3].mapped = 0
       /\ state \in {"TESTING", "DEFECT_ROUTER_TEST"} =>
            tests[Initial].mapped = PortOf(nat, epoch, "PRIMARY", TestEp(Initial, server))

(* The inductive invariant. *)
SInv ==
  /\ Types /\ TypeOK /\ BudgetInv /\ FilterInv /\ PortInv
  /\ FilteringNotOverstated /\ MappingNotOverstated

-----------------------------------------------------------------------------
(* Choosing the next test.                                                 *)

LEMMA LeastTest ==
  ASSUME NEW S \in SUBSET Nat, S # {}
  PROVE  \E x \in S : \A y \in S : x <= y
  <1>1. \E x \in S : \A y \in S : ~(<<y, x>> \in OpToRel(<, Nat))
    BY NatLessThanWellFounded, WFMin, Zenon
  <1>2. PICK x \in S : \A y \in S : ~(<<y, x>> \in OpToRel(<, Nat))
    BY <1>1
  <1>3. ASSUME NEW y \in S PROVE x <= y
    <2>1. ~(y < x)
      BY <1>2 DEF OpToRel
    <2>. QED  BY <2>1
  <1>. QED  BY <1>3

(* A set of outstanding tests has an oldest one, and Oldest is one of them. *)
LEMMA OldestIsOutstanding ==
  ASSUME NEW ts \in [Tests -> Test], NEW top \in Nat,
         \A t \in Tests : ts[t].age <= top,
         Outstanding(ts) # {}
  PROVE  Oldest(ts) \in Outstanding(ts)
  <1> DEFINE sent == Outstanding(ts)
             age(t) == ts[t].age
             Left == {top - age(t) : t \in sent}
             oldest == {t \in sent : \A u \in sent : age(u) <= age(t)}
  <1>1. sent \subseteq Parallel /\ sent \subseteq Nat /\ sent \subseteq Tests
    BY DEF Outstanding, Parallel, Tests
  <1>2. \A t \in sent : age(t) \in Nat /\ age(t) <= top
    BY <1>1 DEF Test
  <1>3. oldest # {}
    <2>. HIDE DEF sent, age
    <2>1. Left \in SUBSET Nat /\ Left # {}
      BY <1>2 DEF sent
    <2>2. PICK x \in Left : \A y \in Left : x <= y
      BY <2>1, LeastTest
    <2>3. PICK t \in sent : x = top - age(t)
      BY <2>2
    <2>4. ASSUME NEW u \in sent PROVE age(u) <= age(t)
      <3>1. top - age(u) \in Left
        OBVIOUS
      <3>2. top - age(t) <= top - age(u)
        BY <3>1, <2>2, <2>3
      <3>. QED  BY <3>2, <1>2
    <2>. QED  BY <2>4
  <1>4. Min(oldest) \in oldest
    <2>1. oldest \in SUBSET Nat
      BY <1>1
    <2>. HIDE DEF oldest
    <2>2. \E x \in oldest : \A y \in oldest : x =< y
      BY <2>1, <1>3, LeastTest
    <2>. QED  BY <2>2 DEF Min
  <1>5. Oldest(ts) = IF Max(sent) \in oldest THEN Max(sent) ELSE Min(oldest)
    BY DEF Oldest
  <1>. QED  BY <1>4, <1>5

(* The tests of a TESTING client. *)
Bounded(ts) ==
  \A t \in Tests : /\ ts[t].retransmissions <= MaxRetransmissions(t)
                   /\ ts[t].age <= SendTimeout + MaxLateness

Ready(ts) ==
  /\ ts \in [Tests -> Test] /\ Bounded(ts)
  /\ \A t \in Parallel : ts[t].state = "NONE" => ts[t].retransmissions = 0
  /\ ts[Defect].retransmissions = 0

(* What giving tests up leaves alone. *)
SameBut(new, old) ==
  \A t \in Tests : /\ new[t].retransmissions = old[t].retransmissions
                   /\ new[t].age = old[t].age
                   /\ new[t].mapped = old[t].mapped
                   /\ new[t].state \in {old[t].state, "FAILED"}

LEMMA LimitsOK ==
  /\ \A t \in Tests : MaxRetransmissions(t) \in Nat /\ MaxRetransmissions(t) >= 2
  /\ NumEps \in Nat /\ NumEps >= 1
  /\ SendTimeout \in Nat /\ SendTimeout >= 1 /\ MaxLateness \in Nat
  BY StunAssumption DEF MaxRetransmissions

LEMMA GiveUpKeeps ==
  ASSUME NEW ts \in [Tests -> Test], NEW E
  PROVE  /\ GiveUp(ts, E) \in [Tests -> Test]
         /\ SameBut(GiveUp(ts, E), ts)
         /\ \A t \in Tests : /\ t \in E => GiveUp(ts, E)[t].state = "FAILED"
                             /\ t \notin E => GiveUp(ts, E)[t] = ts[t]
  <1> DEFINE new == GiveUp(ts, E)
  <1>1. ASSUME NEW t \in Tests
        PROVE  /\ new[t] \in Test
               /\ new[t].retransmissions = ts[t].retransmissions
               /\ new[t].age = ts[t].age
               /\ new[t].mapped = ts[t].mapped
               /\ new[t].state \in {ts[t].state, "FAILED"}
               /\ t \in E => new[t].state = "FAILED"
               /\ t \notin E => new[t] = ts[t]
    <2> DEFINE failed == [ts[t] EXCEPT !.state = "FAILED"]
    <2>1. ts[t] \in Test
      OBVIOUS
    <2>2. /\ failed \in Test /\ failed.state = "FAILED"
          /\ failed.retransmissions = ts[t].retransmissions
          /\ failed.age = ts[t].age /\ failed.mapped = ts[t].mapped
      BY <2>1 DEF Test
    <2>3. new[t] = IF t \in E THEN failed ELSE ts[t]
      BY DEF GiveUp
    <2>. HIDE DEF new, failed
    <2>. QED  BY <2>1, <2>2, <2>3
  <1>2. new = [t \in Tests |-> new[t]]
    BY DEF GiveUp
  <1>. HIDE DEF new
  <1>3. new \in [Tests -> Test]
    BY <1>1, <1>2
  <1>. USE DEF new
  <1>. QED  BY <1>1, <1>3 DEF SameBut

(* nabto_stun_set_next_test asks for a transmission only of a test that    *)
(* has one left.                                                           *)
LEMMA SetNextTestOK ==
  ASSUME NEW ts, Ready(ts), SetNextTest(ts), nextTimeout \in 0..SendTimeout
  PROVE  /\ Ready(tests') /\ SameBut(tests', ts)
         /\ state' \in {"TESTING", "DEFECT_ROUTER_TEST"}
         /\ nextEvent' \in {"SEND_PRIMARY", "SEND_SECONDARY", "WAIT"}
         /\ nextTimeout' \in 0..SendTimeout
         /\ Sending' /\ state' = "TESTING" =>
              nextTest' \in Parallel /\ nextEvent' = Event(nextTest')
         /\ BudgetInv'
  <1>1. ts \in [Tests -> Test]
    BY DEF Ready
  <1>2. tests' = GiveUp(ts, GivenUp(ts))
    BY DEF SetNextTest
  <1>3. /\ tests' \in [Tests -> Test] /\ SameBut(tests', ts)
        /\ \A t \in Tests : /\ t \in GivenUp(ts) => tests'[t].state = "FAILED"
                            /\ t \notin GivenUp(ts) => tests'[t] = ts[t]
    BY <1>1, <1>2, GiveUpKeeps
  <1>4. \A t \in Parallel : t \in Tests
    BY DEF Parallel, Tests
  <1>5. Ready(tests')
    <2>1. Bounded(tests')
      BY <1>3 DEF Ready, Bounded, SameBut
    <2>2. \A t \in Parallel : tests'[t].state = "NONE" => tests'[t].retransmissions = 0
      BY <1>3, <1>4 DEF Ready, SameBut
    <2>3. tests'[Defect].retransmissions = 0
      BY <1>3 DEF Ready, SameBut, Defect, Tests
    <2>. QED  BY <1>3, <2>1, <2>2, <2>3 DEF Ready
  <1>6. \A t \in Parallel : Event(t) \in {"SEND_PRIMARY", "SEND_SECONDARY"}
    BY DEF Event
  <1>7. ASSUME NEW t \in Tests, tests'[t].retransmissions = 0
        PROVE  ~Exhausted(tests'[t], t)
    BY <1>7, LimitsOK DEF Exhausted
  <1>. SUFFICES /\ state' \in {"TESTING", "DEFECT_ROUTER_TEST"}
                /\ nextEvent' \in {"SEND_PRIMARY", "SEND_SECONDARY", "WAIT"}
                /\ nextTimeout' \in 0..SendTimeout
                /\ state' = "TESTING" =>
                     /\ nextTest' \in Parallel
                     /\ Sending' => /\ nextEvent' = Event(nextTest')
                                    /\ ~Exhausted(tests'[nextTest'], nextTest')
                /\ state' = "DEFECT_ROUTER_TEST" => ~Exhausted(tests'[Defect], Defect)
    BY <1>3, <1>5 DEF BudgetInv, Ready
  <1>8. CASE \E t \in Unsent(tests') :
               /\ t = Min(Unsent(tests'))
               /\ state' = "TESTING" /\ nextTest' = t /\ nextEvent' = Event(t)
               /\ UNCHANGED nextTimeout
    <2>1. PICK t \in Unsent(tests') :
            /\ state' = "TESTING" /\ nextTest' = t /\ nextEvent' = Event(t)
            /\ UNCHANGED nextTimeout
      BY <1>8
    <2>2. t \in Parallel /\ tests'[t].state = "NONE"
      BY DEF Unsent
    <2>3. ~Exhausted(tests'[t], t)
      BY <2>2, <1>4, <1>5, <1>7 DEF Ready
    <2>. QED  BY <2>1, <2>2, <2>3, <1>6
  <1>9. CASE /\ Unsent(tests') = {} /\ Outstanding(tests') = {}
             /\ state' = "DEFECT_ROUTER_TEST" /\ nextTest' = Defect
             /\ nextEvent' = "SEND_SECONDARY"
             /\ UNCHANGED nextTimeout
    <2>1. ~Exhausted(tests'[Defect], Defect)
      BY <1>5, <1>7 DEF Ready, Defect, Tests
    <2>. QED  BY <1>9, <2>1
  <1>10. CASE /\ Unsent(tests') = {} /\ Outstanding(tests') # {}
              /\ state' = "TESTING" /\ nextTest' = Oldest(tests')
              /\ \E waited \in {tests'[nextTest'].age} :
                   IF waited >= SendTimeout
                   THEN nextEvent' = Event(nextTest') /\ nextTimeout' = 0
                   ELSE nextEvent' = "WAIT" /\ nextTimeout' = SendTimeout - waited
    <2>1. \A t \in Tests : tests'[t].age <= SendTimeout + MaxLateness
      BY <1>5 DEF Ready, Bounded
    <2>2. nextTest' \in Outstanding(tests')
      <3>1. SendTimeout + MaxLateness \in Nat
        BY LimitsOK
      <3>. QED  BY <1>10, <2>1, <3>1, <1>3, OldestIsOutstanding
    <2>3. nextTest' \in Parallel /\ nextTest' \in Tests /\ tests'[nextTest'].state = "SENT"
      BY <2>2, <1>4 DEF Outstanding
    <2>4. ~Exhausted(tests'[nextTest'], nextTest')
      <3>1. Unsent(ts) = {}
        <4>1. SUFFICES ASSUME NEW t \in Unsent(ts) PROVE FALSE
          OBVIOUS
        <4>2. t \in Parallel /\ t \in Tests /\ ts[t].state = "NONE"
          BY <1>4 DEF Unsent
        <4>3. ~Exhausted(ts[t], t)
          BY <4>2, LimitsOK DEF Ready, Exhausted
        <4>4. tests'[t] = ts[t]
          BY <4>2, <4>3, <1>3 DEF GivenUp
        <4>. QED  BY <4>2, <4>4, <1>10 DEF Unsent
      <3>2. GivenUp(ts) = {t \in Parallel : Exhausted(ts[t], t)}
        BY <3>1 DEF GivenUp
      <3>3. nextTest' \notin GivenUp(ts)
        BY <2>3, <1>3
      <3>. QED  BY <2>3, <3>2, <3>3, <1>3
    <2>5. tests'[nextTest'].age \in Nat
      BY <2>3, <1>3 DEF Test
    <2>6. CASE tests'[nextTest'].age >= SendTimeout
      BY <1>10, <2>6, <2>3, <2>4, <1>6, LimitsOK
    <2>7. CASE tests'[nextTest'].age < SendTimeout
      <3>1. nextEvent' = "WAIT" /\ nextTimeout' = SendTimeout - tests'[nextTest'].age
        BY <1>10, <2>5, <2>7, LimitsOK
      <3>2. nextTimeout' \in 0..SendTimeout
        BY <3>1, <2>5, <2>7, LimitsOK
      <3>. QED  BY <1>10, <3>1, <3>2, <2>3, <2>4 DEF Sending
    <2>. QED  BY <2>5, <2>6, <2>7, LimitsOK
  <1>. QED  BY <1>8, <1>9, <1>10 DEF SetNextTest

-----------------------------------------------------------------------------
(* The NAT and the network.                                                *)

LEMMA EndpointsOK ==
  ASSUME NEW t \in Tests, NEW s \in Nat
  PROVE  /\ TestEp(t, s) \in Endpoint /\ TestEp(t, s).srv = s
         /\ AnswerEp(t, s) \in Endpoint /\ AnswerEp(t, s).srv = s
  <1>1. \A a, p \in {1, 2} : Ep(s, a, p) \in Endpoint /\ Ep(s, a, p).srv = s
    BY DEF Ep, Endpoint
  <1>2. \E a, p \in {1, 2} : TestEp(t, s) = Ep(s, a, p)
    BY DEF TestEp
  <1>3. \E a, p \in {1, 2} : AnswerEp(t, s) = Ep(s, a, p)
    BY <1>2 DEF AnswerEp
  <1>. QED  BY <1>1, <1>2, <1>3

LEMMA PortsAreNumbers ==
  ASSUME Types, NEW sock, NEW d \in Endpoint
  PROVE  NatPort(sock, d) \in Nat /\ NatPort(sock, d) > 0
  <1> DEFINE remote == CASE nat.mapping = "INDEPENDENT" -> 0
                         [] nat.mapping = "ADDR_DEPENDENT" -> 2 * d.srv + d.addr
                         [] OTHER -> 100 + 4 * d.srv + 2 * d.addr + d.port
             k == IF sock = "PRIMARY" THEN 1 ELSE 2
             shift == IF sock = "SECONDARY" /\ nat.defect /\ d.addr = 2 THEN 500 ELSE 0
  <1>1. d.srv \in Nat /\ d.addr \in Nat /\ d.port \in Nat
    BY DEF Endpoint
  <1>2. remote \in Nat
    BY <1>1
  <1>3. k \in Nat \ {0} /\ shift \in Nat /\ epoch \in Nat
    BY DEF Types
  <1>4. NatPort(sock, d) = 1000 * epoch + k + 3 * remote + shift
    BY DEF NatPort
  <1>. HIDE DEF remote, k, shift
  <1>. QED  BY <1>2, <1>3, <1>4

(* What a transmission adds to the network, and what the NAT sees of it. *)
LEMMA TransmitOK ==
  ASSUME Types, NEW t \in Tests, NEW s \in Nat, Transmit(t, s)
  PROVE  /\ pinholes' \in [Socket -> SUBSET Endpoint]
         /\ pinholes'["SECONDARY"] \subseteq pinholes["SECONDARY"] \union {TestEp(t, s)}
         /\ Sock(t) = "PRIMARY" => pinholes'["SECONDARY"] = pinholes["SECONDARY"]
         /\ net' \subseteq Answer
         /\ \A m \in net' : \/ m \in net
                            \/ /\ m.test = t /\ m.from = AnswerEp(t, s)
                               /\ m.from.srv = s /\ m.mapped = Told(nat, epoch, m)
         /\ UNCHANGED <<nat, epoch>>
  <1> DEFINE a(fate) == [test |-> t, analysis |-> analysis, from |-> AnswerEp(t, s),
                         fate |-> fate,
                         mapped |-> IF nat.servers = "old" THEN 0
                                    ELSE NatPort(Sock(t), TestEp(t, s))]
  <1>1. TestEp(t, s) \in Endpoint /\ AnswerEp(t, s) \in Endpoint /\ AnswerEp(t, s).srv = s
    BY EndpointsOK
  <1>2. /\ pinholes' = [pinholes EXCEPT ![Sock(t)] = @ \union {TestEp(t, s)}]
        /\ net' \in {net, net \union {a("soon")}, net \union {a("late")}}
        /\ UNCHANGED <<nat, epoch>>
    BY DEF Transmit
  <1>3. Sock(t) \in Socket
    BY DEF Sock, Socket
  <1>4. ASSUME NEW f \in {"soon", "late"}
        PROVE  /\ a(f) \in Answer
               /\ a(f).test = t /\ a(f).from = AnswerEp(t, s)
               /\ a(f).from.srv = s /\ a(f).mapped = Told(nat, epoch, a(f))
    <2>1. NatPort(Sock(t), TestEp(t, s)) \in Nat /\ analysis \in Nat
      BY <1>1, PortsAreNumbers DEF Types
    <2>2. a(f) \in Answer
      BY <1>1, <2>1 DEF Answer
    <2>3. NatPort(Sock(t), TestEp(t, s)) = PortOf(nat, epoch, Sock(t), TestEp(t, s))
      BY DEF NatPort, PortOf
    <2>. QED  BY <2>2, <2>3, <1>1 DEF Told
  <1>5. pinholes \in [Socket -> SUBSET Endpoint] /\ net \subseteq Answer
    BY DEF Types
  <1>. HIDE DEF a
  <1>6. /\ net' \subseteq Answer
        /\ \A m \in net' : \/ m \in net
                           \/ /\ m.test = t /\ m.from = AnswerEp(t, s)
                              /\ m.from.srv = s /\ m.mapped = Told(nat, epoch, m)
    BY <1>2, <1>4, <1>5
  <1>7. /\ pinholes' \in [Socket -> SUBSET Endpoint]
        /\ pinholes'["SECONDARY"] \subseteq pinholes["SECONDARY"] \union {TestEp(t, s)}
        /\ Sock(t) = "PRIMARY" => pinholes'["SECONDARY"] = pinholes["SECONDARY"]
    BY <1>1, <1>2, <1>3, <1>5 DEF Socket
  <1>. QED  BY <1>2, <1>6, <1>7

(* Decoding an answer. *)
LEMMA DecodedOK ==
  ASSUME NEW ts \in [Tests -> Test], NEW t \in Tests, NEW m \in Answer
  PROVE  LET new == Decoded(ts, t, m)
         IN  /\ new \in [Tests -> Test]
             /\ new[t].mapped = IF m.mapped = 0 THEN ts[t].mapped ELSE m.mapped
             /\ new[t].state = ts[t].state
             /\ new[t].retransmissions = ts[t].retransmissions
             /\ new[t].age = ts[t].age
             /\ \A u \in Tests : u # t => new[u] = ts[u]
  <1> DEFINE p == IF m.mapped = 0 THEN ts[t].mapped ELSE m.mapped
             r == [ts[t] EXCEPT !.mapped = p]
  <1>1. ts[t] \in Test /\ m.mapped \in Nat
    BY DEF Answer
  <1>2. p \in Nat
    BY <1>1 DEF Test
  <1>3. Decoded(ts, t, m) = [ts EXCEPT ![t] = r]
    BY DEF Decoded
  <1>. HIDE DEF p
  <1>4. /\ r \in Test /\ r.mapped = p /\ r.state = ts[t].state
        /\ r.retransmissions = ts[t].retransmissions /\ r.age = ts[t].age
    BY <1>1, <1>2 DEF Test
  <1>. HIDE DEF r
  <1>5. /\ [ts EXCEPT ![t] = r] \in [Tests -> Test]
        /\ [ts EXCEPT ![t] = r][t] = r
        /\ \A u \in Tests : u # t => [ts EXCEPT ![t] = r][u] = ts[u]
    BY <1>4
  <1>. QED  BY <1>3, <1>4, <1>5 DEF p

-----------------------------------------------------------------------------
(* What the actions do to the tests.                                       *)

LEMMA RecordsOK ==
  ASSUME NEW m \in Test
  PROVE  /\ /\ InitMessage(m) \in Test /\ InitMessage(m).state = "NONE"
            /\ InitMessage(m).retransmissions = 0 /\ InitMessage(m).age = 0
            /\ InitMessage(m).mapped = m.mapped
         /\ /\ Transmitted(m) \in Test /\ Transmitted(m).state = "SENT"
            /\ Transmitted(m).retransmissions = m.retransmissions + 1
            /\ Transmitted(m).age = 0 /\ Transmitted(m).mapped = m.mapped
         /\ \A x \in {"NONE", "SENT", "FAILED", "COMPLETED"} :
              LET r == [m EXCEPT !.state = x]
              IN  /\ r \in Test /\ r.state = x /\ r.mapped = m.mapped
                  /\ r.retransmissions = m.retransmissions /\ r.age = m.age
         /\ LET r == [m EXCEPT !.retransmissions = m.retransmissions + 1]
            IN  /\ r \in Test /\ r.state = m.state /\ r.mapped = m.mapped
                /\ r.retransmissions = m.retransmissions + 1 /\ r.age = m.age
         /\ LET r == [m EXCEPT !.age = m.age + 1]
            IN  /\ r \in Test /\ r.state = m.state /\ r.mapped = m.mapped
                /\ r.retransmissions = m.retransmissions /\ r.age = m.age + 1
  <1>1. m.retransmissions \in Nat /\ m.age \in Nat
    BY DEF Test
  <1>2. m.retransmissions + 1 \in Nat /\ m.age + 1 \in Nat
    BY <1>1
  <1>. QED  BY <1>2 DEF Test, InitMessage, Transmitted

LEMMA PutOK ==
  ASSUME NEW ts \in [Tests -> Test], NEW t \in Tests, NEW r \in Test
  PROVE  LET new == [ts EXCEPT ![t] = r]
         IN  /\ new \in [Tests -> Test] /\ new[t] = r
             /\ \A u \in Tests : u # t => new[u] = ts[u]
  OBVIOUS

LEMMA TestNumbers ==
  /\ 1 \in Tests /\ 2 \in Tests /\ 3 \in Tests /\ 4 \in Tests /\ 5 \in Tests
  /\ 6 \in Tests /\ 7 \in Tests
  /\ Initial = 1 /\ Defect = 7 /\ Initial \in Tests /\ Defect \in Tests
  /\ Initial \notin Parallel /\ Defect \notin Parallel
  /\ \A t \in Parallel : t \in Tests
  BY DEF Tests, Initial, Defect, Parallel

Counts == Types /\ TypeOK /\ BudgetInv

LEMMA CountsBound ==
  ASSUME Counts
  PROVE  Bounded(tests)
  <1>. SUFFICES ASSUME NEW t \in Tests
               PROVE  /\ tests[t].retransmissions <= MaxRetransmissions(t)
                      /\ tests[t].age <= SendTimeout + MaxLateness
    BY DEF Bounded
  <1>1. tests[t].retransmissions \in 0..MaxRetransmissions(t)
    BY DEF Counts, TypeOK
  <1>2. tests[t].age \in 0..(SendTimeout + MaxLateness)
    BY DEF Counts, TypeOK
  <1>. QED  BY <1>1, <1>2

(* The type invariant holds again when the tests are within their bounds. *)
LEMMA BoundCounts ==
  ASSUME tests' \in [Tests -> Test], Bounded(tests)'
  PROVE  \A t \in Tests :
           /\ tests'[t].state \in {"NONE", "SENT", "FAILED", "COMPLETED"}
           /\ tests'[t].retransmissions \in 0..MaxRetransmissions(t)
           /\ tests'[t].age \in 0..(SendTimeout + MaxLateness)
  <1>. SUFFICES ASSUME NEW t \in Tests
               PROVE  /\ tests'[t].state \in {"NONE", "SENT", "FAILED", "COMPLETED"}
                      /\ tests'[t].retransmissions \in 0..MaxRetransmissions(t)
                      /\ tests'[t].age \in 0..(SendTimeout + MaxLateness)
    OBVIOUS
  <1>0. tests'[t] \in Test
    OBVIOUS
  <1>1. /\ tests'[t].state \in {"NONE", "SENT", "FAILED", "COMPLETED"}
        /\ tests'[t].retransmissions \in Nat /\ tests'[t].age \in Nat
    BY <1>0 DEF Test
  <1>2. tests'[t].retransmissions <= MaxRetransmissions(t)
        /\ tests'[t].age <= SendTimeout + MaxLateness
    BY DEF Bounded
  <1>3. MaxRetransmissions(t) \in Nat /\ SendTimeout + MaxLateness \in Nat
    BY LimitsOK
  <1>. QED  BY <1>1, <1>2, <1>3

(* No test but x is answered or has its port changed. *)
KeptBut(x) ==
  \A t \in Tests \ {x} :
    /\ tests'[t].mapped = tests[t].mapped
    /\ tests'[t].state = "COMPLETED" => tests[t].state = "COMPLETED"

LEMMA ReadyTests ==
  ASSUME Counts, state = "TESTING"
  PROVE  Ready(tests)
  BY CountsBound DEF Counts, Types, BudgetInv, Ready

LEMMA AsyncAnalyzeCounts ==
  ASSUME Counts, NEW s \in BOOLEAN, AsyncAnalyze(s)
  PROVE  Counts' /\ KeptBut(0)
  <1> DEFINE r == InitMessage(tests[Initial])
  <1>1. tests \in [Tests -> Test] /\ Initial \in Tests /\ tests[Initial] \in Test
    BY TestNumbers DEF Counts, Types
  <1>2. /\ r \in Test /\ r.state = "NONE" /\ r.retransmissions = 0 /\ r.age = 0
        /\ r.mapped = tests[Initial].mapped
    BY <1>1, RecordsOK
  <1>. HIDE DEF r
  <1>3. tests' = [tests EXCEPT ![Initial] = r]
    BY DEF AsyncAnalyze, r
  <1>4. /\ tests' \in [Tests -> Test] /\ tests'[Initial] = r
        /\ \A u \in Tests : u # Initial => tests'[u] = tests[u]
    BY <1>1, <1>2, <1>3, PutOK
  <1>5. Bounded(tests)'
    <2>. SUFFICES ASSUME NEW t \in Tests
                 PROVE  /\ tests'[t].retransmissions <= MaxRetransmissions(t)
                        /\ tests'[t].age <= SendTimeout + MaxLateness
      BY DEF Bounded
    <2>1. CASE t = Initial
      BY <2>1, <1>2, <1>4, LimitsOK
    <2>2. CASE t # Initial
      BY <2>2, <1>4, CountsBound DEF Bounded
    <2>. QED  BY <2>1, <2>2
  <1>6. Types'
    BY <1>4 DEF AsyncAnalyze, world, Counts, Types, Socket
  <1>7. TypeOK'
    <2>1. nextTimeout' \in 0..SendTimeout /\ initialTestsSent' \in 0..NumEps
      BY LimitsOK DEF AsyncAnalyze
    <2>. QED  BY <2>1, <1>4, <1>5, BoundCounts DEF AsyncAnalyze, TypeOK, Sending
  <1>8. BudgetInv'
    <2>1. ~Exhausted(tests'[Initial], Initial)
      BY <1>2, <1>4, LimitsOK, TestNumbers DEF Exhausted
    <2>2. initialTestsSent' < NumEps
      BY LimitsOK DEF AsyncAnalyze
    <2>. QED  BY <2>1, <2>2 DEF AsyncAnalyze, BudgetInv
  <1>9. KeptBut(0)
    BY <1>2, <1>4 DEF KeptBut
  <1>. QED  BY <1>6, <1>7, <1>8, <1>9 DEF Counts

LEMMA SendInitialCounts ==
  ASSUME Counts, SendInitial
  PROVE  Counts' /\ KeptBut(0)
  <1> DEFINE r == [tests[Initial] EXCEPT !.state = "SENT"]
  <1>1. tests \in [Tests -> Test] /\ Initial \in Tests /\ tests[Initial] \in Test
    BY TestNumbers DEF Counts, Types
  <1>2. /\ r \in Test /\ r.state = "SENT" /\ r.age = tests[Initial].age
        /\ r.retransmissions = tests[Initial].retransmissions
        /\ r.mapped = tests[Initial].mapped
    BY <1>1, RecordsOK
  <1>. HIDE DEF r
  <1>3. tests' = [tests EXCEPT ![Initial] = r]
    BY DEF SendInitial, r
  <1>4. /\ tests' \in [Tests -> Test] /\ tests'[Initial] = r
        /\ \A u \in Tests : u # Initial => tests'[u] = tests[u]
    BY <1>1, <1>2, <1>3, PutOK
  <1>5. Bounded(tests)'
    BY <1>2, <1>4, CountsBound DEF Bounded
  <1>6. /\ initialTestsSent \in 0..NumEps /\ initialTestsSent < NumEps
        /\ initialTestsSent' = initialTestsSent + 1
    BY DEF SendInitial, Counts, TypeOK, BudgetInv
  <1>7. initialTestsSent' \in 0..NumEps /\ initialTestsSent + 1 \in Nat
    BY <1>6, LimitsOK
  <1>8. Types'
    <2>1. /\ pinholes' \in [Socket -> SUBSET Endpoint] /\ net' \subseteq Answer
          /\ UNCHANGED <<nat, epoch>>
      BY <1>1, <1>7, TransmitOK DEF SendInitial, Counts
    <2>. QED  BY <2>1, <1>4 DEF SendInitial, Counts, Types
  <1>9. TypeOK'
    <2>1. nextTimeout' \in 0..SendTimeout
      BY LimitsOK DEF SendInitial
    <2>2. nextEvent' \in {"SEND_PRIMARY", "SEND_SECONDARY", "WAIT"}
      BY DEF SendInitial, Sending
    <2>. QED  BY <2>1, <2>2, <1>4, <1>5, <1>7, BoundCounts
           DEF SendInitial, Counts, TypeOK, Sending
  <1>10. BudgetInv'
    <2>1. ~Exhausted(tests'[Initial], Initial)
      BY <1>2, <1>4 DEF Exhausted, SendInitial, Counts, BudgetInv
    <2>2. Sending' => initialTestsSent' < NumEps
      BY <1>6, LimitsOK DEF SendInitial, Sending
    <2>. QED  BY <2>1, <2>2 DEF SendInitial, BudgetInv
  <1>11. KeptBut(0)
    BY <1>2, <1>4 DEF KeptBut
  <1>. QED  BY <1>8, <1>9, <1>10, <1>11 DEF Counts

LEMMA SetNextTestCounts ==
  ASSUME Counts, NEW ts, Ready(ts), SetNextTest(ts),
         initialTestsSent' = initialTestsSent, UNCHANGED <<nat, epoch>>, simple' = simple,
         analysis' = analysis, server' \in Nat,
         pinholes' \in [Socket -> SUBSET Endpoint], net' \subseteq Answer
  PROVE  Counts' /\ SameBut(tests', ts)
         /\ state' \in {"TESTING", "DEFECT_ROUTER_TEST"}
  <1>1. nextTimeout \in 0..SendTimeout
    BY DEF Counts, TypeOK
  <1>2. /\ Ready(tests') /\ SameBut(tests', ts)
        /\ state' \in {"TESTING", "DEFECT_ROUTER_TEST"}
        /\ nextEvent' \in {"SEND_PRIMARY", "SEND_SECONDARY", "WAIT"}
        /\ nextTimeout' \in 0..SendTimeout
        /\ Sending' /\ state' = "TESTING" =>
             nextTest' \in Parallel /\ nextEvent' = Event(nextTest')
        /\ BudgetInv'
    BY <1>1, SetNextTestOK
  <1>3. tests' \in [Tests -> Test] /\ Bounded(tests)'
    BY <1>2 DEF Ready, Bounded
  <1>4. Types'
    BY <1>3 DEF Counts, Types
  <1>5. TypeOK'
    BY <1>2, <1>3, BoundCounts DEF Counts, TypeOK
  <1>. QED  BY <1>2, <1>4, <1>5 DEF Counts

LEMMA SendParallelCounts ==
  ASSUME Counts, SendParallel
  PROVE  Counts' /\ KeptBut(0)
  <1> DEFINE r == Transmitted(tests[nextTest])
             ts == [tests EXCEPT ![nextTest] = r]
  <1>1. /\ tests \in [Tests -> Test] /\ nextTest \in Tests /\ nextTest \in Parallel
        /\ tests[nextTest] \in Test
    BY TestNumbers DEF SendParallel, Counts, Types, BudgetInv
  <1>2. /\ r \in Test /\ r.state = "SENT" /\ r.age = 0
        /\ r.retransmissions = tests[nextTest].retransmissions + 1
        /\ r.mapped = tests[nextTest].mapped
    BY <1>1, RecordsOK
  <1>3. SetNextTest(ts)
    BY DEF SendParallel
  <1>. HIDE DEF r
  <1>4. /\ ts \in [Tests -> Test] /\ ts[nextTest] = r
        /\ \A u \in Tests : u # nextTest => ts[u] = tests[u]
    BY <1>1, <1>2, PutOK
  <1>. HIDE DEF ts
  <1>5. Ready(ts)
    <2>1. r.retransmissions <= MaxRetransmissions(nextTest)
      <3>1. ~Exhausted(tests[nextTest], nextTest)
        BY DEF SendParallel, Counts, BudgetInv
      <3>2. tests[nextTest].retransmissions \in Nat
        BY <1>1 DEF Test
      <3>. QED  BY <3>1, <3>2, <1>1, <1>2, LimitsOK DEF Exhausted
    <2>2. 0 <= SendTimeout + MaxLateness
      BY LimitsOK
    <2>3. Bounded(ts)
      BY <2>1, <2>2, <1>2, <1>4, CountsBound DEF Bounded
    <2>4. Ready(tests)
      BY ReadyTests DEF SendParallel
    <2>5. nextTest # Defect
      BY <1>1, TestNumbers
    <2>. QED  BY <2>3, <2>4, <2>5, <1>2, <1>4, TestNumbers DEF Ready
  <1>6. /\ pinholes' \in [Socket -> SUBSET Endpoint] /\ net' \subseteq Answer
        /\ UNCHANGED <<nat, epoch>>
    BY <1>1, TransmitOK DEF SendParallel, Counts, Types
  <1>7. Counts' /\ SameBut(tests', ts)
    <2>1. server' \in Nat
      BY DEF SendParallel, Counts, Types
    <2>. QED  BY <2>1, <1>3, <1>5, <1>6, SetNextTestCounts DEF SendParallel
  <1>. QED  BY <1>2, <1>4, <1>7 DEF SameBut, KeptBut

LEMMA SendDefectCounts ==
  ASSUME Counts, SendDefect
  PROVE  Counts' /\ KeptBut(0)
  <1> DEFINE r == Transmitted(tests[Defect])
  <1>1. tests \in [Tests -> Test] /\ Defect \in Tests /\ tests[Defect] \in Test
    BY TestNumbers DEF Counts, Types
  <1>2. /\ r \in Test /\ r.state = "SENT" /\ r.age = 0
        /\ r.retransmissions = tests[Defect].retransmissions + 1
        /\ r.mapped = tests[Defect].mapped
    BY <1>1, RecordsOK
  <1>. HIDE DEF r
  <1>3. tests' = [tests EXCEPT ![Defect] = r]
    BY DEF SendDefect, r
  <1>4. /\ tests' \in [Tests -> Test] /\ tests'[Defect] = r
        /\ \A u \in Tests : u # Defect => tests'[u] = tests[u]
    BY <1>1, <1>2, <1>3, PutOK
  <1>5. Bounded(tests)'
    <2>1. r.retransmissions <= MaxRetransmissions(Defect)
      <3>1. ~Exhausted(tests[Defect], Defect)
        BY DEF SendDefect, Counts, BudgetInv
      <3>2. tests[Defect].retransmissions \in Nat
        BY <1>1 DEF Test
      <3>. QED  BY <3>1, <3>2, <1>1, <1>2, LimitsOK DEF Exhausted
    <2>2. 0 <= SendTimeout + MaxLateness
      BY LimitsOK
    <2>. QED  BY <2>1, <2>2, <1>2, <1>4, CountsBound DEF Bounded
  <1>6. Types'
    <2>1. /\ pinholes' \in [Socket -> SUBSET Endpoint] /\ net' \subseteq Answer
          /\ UNCHANGED <<nat, epoch>>
      BY <1>1, TransmitOK DEF SendDefect, Counts, Types
    <2>. QED  BY <2>1, <1>4 DEF SendDefect, Counts, Types
  <1>7. TypeOK'
    <2>1. nextTimeout' \in 0..SendTimeout
      BY LimitsOK DEF SendDefect
    <2>. QED  BY <2>1, <1>4, <1>5, BoundCounts DEF SendDefect, Counts, TypeOK, Sending
  <1>8. BudgetInv'
    BY DEF SendDefect, BudgetInv, Sending
  <1>9. KeptBut(0)
    BY <1>2, <1>4 DEF KeptBut
  <1>. QED  BY <1>6, <1>7, <1>8, <1>9 DEF Counts

LEMMA WaitInitialCounts ==
  ASSUME Counts, WaitInitial
  PROVE  Counts' /\ KeptBut(0)
  <1> DEFINE n == tests[Initial].retransmissions
             r == [tests[Initial] EXCEPT !.retransmissions = n + 1]
  <1>1. tests \in [Tests -> Test] /\ Initial \in Tests /\ tests[Initial] \in Test
    BY TestNumbers DEF Counts, Types
  <1>2. /\ r \in Test /\ r.state = tests[Initial].state /\ r.age = tests[Initial].age
        /\ r.retransmissions = n + 1 /\ r.mapped = tests[Initial].mapped
    BY <1>1, RecordsOK
  <1>3. n \in Nat /\ n < MaxRetransmissions(Initial)
    <2>1. n \in Nat
      BY <1>1 DEF Test
    <2>2. ~(n >= MaxRetransmissions(Initial))
      BY DEF WaitInitial, Counts, BudgetInv, Exhausted
    <2>. QED  BY <2>1, <2>2, <1>1, LimitsOK
  <1>. HIDE DEF r
  <1>4. tests' = [tests EXCEPT ![Initial] = r]
    BY DEF WaitInitial, r
  <1>5. /\ tests' \in [Tests -> Test] /\ tests'[Initial] = r
        /\ \A u \in Tests : u # Initial => tests'[u] = tests[u]
    BY <1>1, <1>2, <1>4, PutOK
  <1>6. Bounded(tests)'
    <2>1. r.retransmissions <= MaxRetransmissions(Initial)
      BY <1>1, <1>2, <1>3, LimitsOK
    <2>. QED  BY <2>1, <1>2, <1>5, CountsBound DEF Bounded
  <1>7. Types'
    BY <1>5 DEF WaitInitial, world, Counts, Types
  <1>8. state' \in {"INITIAL_TEST", "FAILED"} /\ nextEvent' \in {"SEND_PRIMARY", "FAILED"}
    BY DEF WaitInitial
  <1>9. TypeOK'
    <2>1. initialTestsSent' \in 0..NumEps
      BY LimitsOK DEF WaitInitial
    <2>. QED  BY <2>1, <1>5, <1>6, <1>8, BoundCounts DEF WaitInitial, Counts, TypeOK
  <1>10. BudgetInv'
    <2>1. initialTestsSent' < NumEps
      BY LimitsOK DEF WaitInitial
    <2>. QED  BY <2>1, <1>8 DEF WaitInitial, BudgetInv
  <1>11. KeptBut(0)
    BY <1>2, <1>5 DEF KeptBut
  <1>. QED  BY <1>7, <1>9, <1>10, <1>11 DEF Counts

LEMMA WaitParallelCounts ==
  ASSUME Counts, WaitParallel
  PROVE  Counts' /\ KeptBut(0)
  <1>1. Ready(tests) /\ SetNextTest(tests)
    BY ReadyTests DEF WaitParallel
  <1>2. /\ server' \in Nat /\ pinholes' \in [Socket -> SUBSET Endpoint]
        /\ net' \subseteq Answer
    BY DEF WaitParallel, world, Counts, Types
  <1>3. Counts' /\ SameBut(tests', tests)
    BY <1>1, <1>2, SetNextTestCounts DEF WaitParallel, world
  <1>. QED  BY <1>3 DEF SameBut, KeptBut

LEMMA WaitDefectCounts ==
  ASSUME Counts, WaitDefect
  PROVE  Counts' /\ KeptBut(0)
  <1> DEFINE r == [tests[Defect] EXCEPT !.state = "FAILED"]
  <1>1. tests \in [Tests -> Test] /\ Defect \in Tests /\ tests[Defect] \in Test
    BY TestNumbers DEF Counts, Types
  <1>2. /\ r \in Test /\ r.state = "FAILED" /\ r.age = tests[Defect].age
        /\ r.retransmissions = tests[Defect].retransmissions
        /\ r.mapped = tests[Defect].mapped
    BY <1>1, RecordsOK
  <1>. HIDE DEF r
  <1>3. CASE Exhausted(tests[Defect], Defect)
    <2>1. /\ tests' = [tests EXCEPT ![Defect] = r]
          /\ state' = "COMPLETED" /\ nextEvent' = "COMPLETED"
      BY <1>3 DEF WaitDefect, ComputeResultAndStop, r
    <2>2. /\ tests' \in [Tests -> Test] /\ tests'[Defect] = r
          /\ \A u \in Tests : u # Defect => tests'[u] = tests[u]
      BY <1>1, <1>2, <2>1, PutOK
    <2>3. Bounded(tests)'
      BY <1>2, <2>2, CountsBound DEF Bounded
    <2>4. Types'
      BY <2>2 DEF WaitDefect, world, Counts, Types
    <2>5. TypeOK'
      BY <2>1, <2>2, <2>3, BoundCounts DEF WaitDefect, Counts, TypeOK
    <2>6. BudgetInv'
      BY <2>1 DEF BudgetInv
    <2>7. KeptBut(0)
      BY <1>2, <2>2 DEF KeptBut
    <2>. QED  BY <2>4, <2>5, <2>6, <2>7 DEF Counts
  <1>4. CASE ~Exhausted(tests[Defect], Defect)
    <2>1. nextEvent' = "SEND_SECONDARY" /\ UNCHANGED <<state, tests>>
      BY <1>4 DEF WaitDefect
    <2>2. state = "DEFECT_ROUTER_TEST"
      BY DEF WaitDefect
    <2>3. Types'
      BY <2>1 DEF WaitDefect, world, Counts, Types
    <2>4. TypeOK'
      BY <2>1, <2>2 DEF WaitDefect, Counts, TypeOK
    <2>5. BudgetInv'
      BY <1>4, <2>1, <2>2 DEF BudgetInv
    <2>6. KeptBut(0)
      BY <2>1 DEF KeptBut
    <2>. QED  BY <2>3, <2>4, <2>5, <2>6 DEF Counts
  <1>. QED  BY <1>3, <1>4

LEMMA TickCounts ==
  ASSUME Counts, Tick
  PROVE  Counts' /\ KeptBut(0)
  <1>1. tests \in [Tests -> Test]
    BY DEF Counts, Types
  <1>2. ASSUME NEW t \in Tests
        PROVE  /\ tests'[t] \in Test /\ tests'[t].state = tests[t].state
               /\ tests'[t].retransmissions = tests[t].retransmissions
               /\ tests'[t].mapped = tests[t].mapped
               /\ tests'[t].age <= SendTimeout + MaxLateness
    <2> DEFINE r == [tests[t] EXCEPT !.age = tests[t].age + 1]
    <2>1. tests[t] \in Test /\ tests[t].age \in Nat
      BY <1>1 DEF Test
    <2>2. /\ r \in Test /\ r.state = tests[t].state /\ r.mapped = tests[t].mapped
          /\ r.retransmissions = tests[t].retransmissions /\ r.age = tests[t].age + 1
      BY <2>1, RecordsOK
    <2>. HIDE DEF r
    <2>3. tests[t].age <= SendTimeout + MaxLateness
      BY CountsBound DEF Bounded
    <2>4. CASE t \in Parallel /\ tests[t].state = "SENT"
      <3>1. tests'[t] = r
        BY <2>4 DEF Tick, r
      <3>2. tests[t].age < SendTimeout + MaxLateness
        BY <2>4 DEF Tick
      <3>3. SendTimeout + MaxLateness \in Nat
        BY LimitsOK
      <3>4. r.age <= SendTimeout + MaxLateness
        BY <2>1, <2>2, <3>2, <3>3
      <3>. QED  BY <2>2, <3>1, <3>4
    <2>5. CASE ~(t \in Parallel /\ tests[t].state = "SENT")
      <3>1. tests'[t] = tests[t]
        BY <2>5 DEF Tick
      <3>. QED  BY <2>1, <2>3, <3>1
    <2>. QED  BY <2>4, <2>5
  <1>3. tests' \in [Tests -> Test]
    <2>1. tests' = [t \in Tests |-> tests'[t]]
      BY DEF Tick
    <2>. QED  BY <1>2, <2>1
  <1>4. Bounded(tests)'
    BY <1>2, CountsBound DEF Bounded
  <1>5. Types'
    BY <1>3 DEF Tick, world, Counts, Types
  <1>6. TypeOK'
    <2>1. nextTimeout \in 0..SendTimeout
      BY DEF Counts, TypeOK
    <2>2. nextTimeout' \in 0..SendTimeout
      BY <2>1, LimitsOK DEF Tick
    <2>. QED  BY <2>2, <1>3, <1>4, BoundCounts DEF Tick, Counts, TypeOK, Sending
  <1>7. BudgetInv'
    <2>1. \A t \in Tests : Exhausted(tests'[t], t) <=> Exhausted(tests[t], t)
      BY <1>2 DEF Exhausted
    <2>. QED  BY <2>1, <1>2, TestNumbers DEF Tick, Counts, BudgetInv, Sending
  <1>8. KeptBut(0)
    BY <1>2 DEF KeptBut
  <1>. QED  BY <1>5, <1>6, <1>7, <1>8 DEF Counts

(* The port of test t once m is decoded. *)
Heard(t, m) == IF m.mapped = 0 THEN tests[t].mapped ELSE m.mapped

(* T1 is answered: the tests that follow start afresh. *)
LEMMA InitializedTests ==
  ASSUME NEW ts \in [Tests -> Test], NEW done \in [Tests -> Test], Bounded(done)
  PROVE  LET new == [t \in Tests |-> IF t = Initial THEN done[t] ELSE InitMessage(ts[t])]
         IN  /\ Ready(new) /\ new[Initial] = done[Initial]
             /\ \A t \in Tests : t # Initial =>
                  /\ new[t].retransmissions = 0 /\ new[t].age = 0
                  /\ new[t].state = "NONE" /\ new[t].mapped = ts[t].mapped
  <1> DEFINE new == [t \in Tests |-> IF t = Initial THEN done[t] ELSE InitMessage(ts[t])]
  <1>1. new[Initial] = done[Initial] /\ new[Initial] \in Test /\ Initial \in Tests
    BY TestNumbers
  <1>2. ASSUME NEW t \in Tests, t # Initial
        PROVE  /\ new[t] \in Test /\ new[t].retransmissions = 0 /\ new[t].age = 0
               /\ new[t].state = "NONE" /\ new[t].mapped = ts[t].mapped
    <2>1. new[t] = InitMessage(ts[t]) /\ ts[t] \in Test
      BY <1>2
    <2>2. LET i == InitMessage(ts[t])
          IN  /\ i \in Test /\ i.retransmissions = 0 /\ i.age = 0
              /\ i.state = "NONE" /\ i.mapped = ts[t].mapped
      BY <2>1, RecordsOK
    <2>. HIDE DEF new
    <2>. QED  BY <2>1, <2>2
  <1>3. new \in [Tests -> Test]
    <2>1. \A t \in Tests : new[t] \in Test
      BY <1>1, <1>2
    <2>. QED  BY <2>1
  <1>. HIDE DEF new
  <1>4. Bounded(new)
    <2>. SUFFICES ASSUME NEW t \in Tests
                 PROVE  /\ new[t].retransmissions <= MaxRetransmissions(t)
                        /\ new[t].age <= SendTimeout + MaxLateness
      BY DEF Bounded
    <2>1. CASE t = Initial
      BY <2>1, <1>1 DEF Bounded
    <2>2. CASE t # Initial
      BY <2>2, <1>2, LimitsOK
    <2>. QED  BY <2>1, <2>2
  <1>5. \A t \in Parallel : new[t].state = "NONE" => new[t].retransmissions = 0
    BY <1>2, TestNumbers
  <1>6. new[Defect].retransmissions = 0
    <2>1. Defect \in Tests /\ Defect # Initial
      BY TestNumbers
    <2>. QED  BY <2>1, <1>2
  <1>7. Ready(new)
    BY <1>3, <1>4, <1>5, <1>6 DEF Ready
  <1>. QED  BY <1>1, <1>2, <1>7 DEF new

LEMMA HandleInitialCounts ==
  ASSUME Counts, NEW m \in Answer, HandleInitial(m),
         UNCHANGED <<nat, epoch>>, pinholes' = pinholes, net' \subseteq Answer
  PROVE  /\ Counts' /\ KeptBut(Initial)
         /\ tests'[Initial].mapped = Heard(Initial, m)
         /\ \/ state' = "COMPLETED" /\ simple'
            \/ /\ state' \in {"TESTING", "DEFECT_ROUTER_TEST"}
               /\ nat.servers = "full" /\ server' = m.from.srv
            \/ state' = "INITIAL_TEST" /\ server' = server
  <1> DEFINE ts == Decoded(tests, Initial, m)
             r == [ts[Initial] EXCEPT !.state = "COMPLETED"]
             done == [ts EXCEPT ![Initial] = r]
  <1>1. tests \in [Tests -> Test] /\ Initial \in Tests
    BY TestNumbers DEF Counts, Types
  <1>2. /\ ts \in [Tests -> Test]
        /\ ts[Initial].mapped = Heard(Initial, m)
        /\ ts[Initial].state = tests[Initial].state
        /\ ts[Initial].retransmissions = tests[Initial].retransmissions
        /\ ts[Initial].age = tests[Initial].age
        /\ \A u \in Tests : u # Initial => ts[u] = tests[u]
    BY <1>1, DecodedOK DEF Heard
  <1>3. \/ /\ simple /\ tests' = done
           /\ state' = "COMPLETED" /\ nextEvent' = "COMPLETED"
           /\ UNCHANGED <<nextTest, nextTimeout, server>>
        \/ /\ nat.servers = "full" /\ server' = m.from.srv
           /\ SetNextTest([t \in Tests |-> IF t = Initial THEN done[t]
                                           ELSE InitMessage(ts[t])])
        \/ tests' = ts /\ UNCHANGED <<state, nextEvent, nextTest, nextTimeout, server>>
    BY DEF HandleInitial
  <1>4. state = "INITIAL_TEST" /\ UNCHANGED <<simple, initialTestsSent, analysis>>
    BY DEF HandleInitial
  <1>. HIDE DEF ts
  <1>5. /\ r \in Test /\ r.mapped = ts[Initial].mapped
        /\ r.retransmissions = ts[Initial].retransmissions /\ r.age = ts[Initial].age
    BY <1>1, <1>2, RecordsOK
  <1>. HIDE DEF r
  <1>6. /\ done \in [Tests -> Test] /\ done[Initial] = r
        /\ \A u \in Tests : u # Initial => done[u] = ts[u]
    BY <1>1, <1>2, <1>5, PutOK
  <1>. HIDE DEF done
  <1>7. Bounded(ts) /\ Bounded(done)
    BY <1>2, <1>5, <1>6, CountsBound DEF Bounded
  <1>8. CASE /\ simple /\ tests' = done
             /\ state' = "COMPLETED" /\ nextEvent' = "COMPLETED"
             /\ UNCHANGED <<nextTest, nextTimeout, server>>
    <2>1. Types'
      BY <1>4, <1>6, <1>8 DEF Counts, Types
    <2>2. Bounded(tests)'
      BY <1>7, <1>8 DEF Bounded
    <2>3. TypeOK'
      BY <1>4, <1>6, <1>8, <2>2, BoundCounts DEF Counts, TypeOK, Sending
    <2>4. BudgetInv'
      BY <1>8 DEF BudgetInv
    <2>5. KeptBut(Initial)
      BY <1>2, <1>6, <1>8 DEF KeptBut
    <2>. QED  BY <1>2, <1>4, <1>5, <1>6, <1>8, <2>1, <2>3, <2>4, <2>5 DEF Counts
  <1>9. CASE /\ nat.servers = "full" /\ server' = m.from.srv
             /\ SetNextTest([t \in Tests |-> IF t = Initial THEN done[t]
                                             ELSE InitMessage(ts[t])])
    <2> DEFINE new == [t \in Tests |-> IF t = Initial THEN done[t] ELSE InitMessage(ts[t])]
    <2>3. SetNextTest(new)
      BY <1>9
    <2>5. /\ Ready(new) /\ new[Initial] = done[Initial]
          /\ \A t \in Tests : t # Initial =>
               new[t].state = "NONE" /\ new[t].mapped = ts[t].mapped
      BY <1>2, <1>6, <1>7, InitializedTests
    <2>. HIDE DEF new
    <2>6. m.from.srv \in Nat
      BY DEF Answer, Endpoint
    <2>7. Counts' /\ SameBut(tests', new) /\ state' \in {"TESTING", "DEFECT_ROUTER_TEST"}
      <3>1. pinholes' \in [Socket -> SUBSET Endpoint]
        BY DEF Counts, Types
      <3>. QED  BY <3>1, <2>3, <2>5, <2>6, <1>4, <1>9, SetNextTestCounts
    <2>8. KeptBut(Initial)
      BY <2>5, <2>7, <1>2 DEF SameBut, KeptBut
    <2>9. tests'[Initial].mapped = Heard(Initial, m)
      BY <2>5, <2>7, <1>1, <1>2, <1>5, <1>6 DEF SameBut
    <2>. QED  BY <1>9, <2>7, <2>8, <2>9
  <1>10. CASE tests' = ts /\ UNCHANGED <<state, nextEvent, nextTest, nextTimeout, server>>
    <2>1. Types'
      BY <1>4, <1>2, <1>10 DEF Counts, Types
    <2>2. Bounded(tests)'
      BY <1>7, <1>10 DEF Bounded
    <2>3. TypeOK'
      BY <1>4, <1>2, <1>10, <2>2, BoundCounts DEF Counts, TypeOK, Sending
    <2>4. BudgetInv'
      <3>1. ~Exhausted(tests'[Initial], Initial)
        BY <1>2, <1>4, <1>10 DEF Exhausted, Counts, BudgetInv
      <3>. QED  BY <3>1, <1>4, <1>10 DEF Counts, BudgetInv, Sending
    <2>5. KeptBut(Initial)
      BY <1>2, <1>10 DEF KeptBut
    <2>. QED  BY <1>2, <1>4, <1>10, <2>1, <2>3, <2>4, <2>5 DEF Counts
  <1>. QED  BY <1>3, <1>8, <1>9, <1>10

(* One of the parallel tests is answered. *)
LEMMA AnsweredTests ==
  ASSUME Counts, NEW m \in Answer, HandleParallel(m)
  PROVE  /\ m.test \in Parallel /\ m.analysis = analysis
         /\ \E ts : /\ Ready(ts) /\ SetNextTest(ts)
                    /\ ts[m.test].state = "COMPLETED"
                    /\ ts[m.test].mapped = Heard(m.test, m)
                    /\ ts[m.test].retransmissions = tests[m.test].retransmissions
                    /\ \A u \in Tests : u # m.test => ts[u] = tests[u]
  <1> DEFINE t == m.test
             dec == Decoded(tests, t, m)
             r == [dec[t] EXCEPT !.state = "COMPLETED"]
             ts == [dec EXCEPT ![t] = r]
  <1>1. t \in Parallel /\ SetNextTest(ts)
    BY DEF HandleParallel, CheckTransactionId
  <1>2. tests \in [Tests -> Test] /\ t \in Tests
    BY <1>1, TestNumbers DEF Counts, Types
  <1>3. /\ dec \in [Tests -> Test] /\ dec[t].mapped = Heard(t, m)
        /\ dec[t].retransmissions = tests[t].retransmissions /\ dec[t].age = tests[t].age
        /\ \A u \in Tests : u # t => dec[u] = tests[u]
    BY <1>2, DecodedOK DEF Heard
  <1>. HIDE DEF dec
  <1>4. /\ r \in Test /\ r.mapped = dec[t].mapped /\ r.state = "COMPLETED"
        /\ r.retransmissions = dec[t].retransmissions /\ r.age = dec[t].age
    BY <1>2, <1>3, RecordsOK
  <1>. HIDE DEF r
  <1>5. /\ ts \in [Tests -> Test] /\ ts[t] = r
        /\ \A u \in Tests : u # t => ts[u] = dec[u]
    BY <1>2, <1>3, <1>4, PutOK
  <1>. HIDE DEF ts
  <1>6. Bounded(ts)
    BY <1>3, <1>4, <1>5, CountsBound DEF Bounded
  <1>7. Ready(ts)
    <2>1. Ready(tests)
      BY ReadyTests DEF HandleParallel
    <2>2. t # Defect
      BY <1>1, TestNumbers
    <2>3. \A u \in Parallel : ts[u].state = "NONE" => ts[u].retransmissions = 0
      <3>1. \A u \in Parallel : u \in Tests
        BY TestNumbers
      <3>2. ts[t].state # "NONE"
        BY <1>4, <1>5
      <3>3. \A u \in Parallel : u # t => ts[u] = tests[u]
        BY <3>1, <1>3, <1>5
      <3>4. \A u \in Parallel : tests[u].state = "NONE" => tests[u].retransmissions = 0
        BY <2>1 DEF Ready
      <3>. HIDE DEF t
      <3>. QED  BY <3>2, <3>3, <3>4
    <2>4. ts[Defect].retransmissions = 0
      <3>1. Defect \in Tests /\ tests[Defect].retransmissions = 0
        BY <2>1, TestNumbers DEF Ready
      <3>. QED  BY <3>1, <2>2, <1>3, <1>5
    <2>. QED  BY <2>3, <2>4, <1>5, <1>6 DEF Ready
  <1>8. m.analysis = analysis
    BY DEF HandleParallel, CheckTransactionId
  <1>. QED  BY <1>1, <1>3, <1>4, <1>5, <1>7, <1>8

LEMMA HandleParallelCounts ==
  ASSUME Counts, NEW m \in Answer, HandleParallel(m),
         UNCHANGED <<nat, epoch>>, pinholes' = pinholes, net' \subseteq Answer
  PROVE  /\ Counts' /\ KeptBut(m.test) /\ m.test \in Parallel
         /\ tests'[m.test].mapped = Heard(m.test, m)
         /\ state' \in {"TESTING", "DEFECT_ROUTER_TEST"}
  <1> DEFINE t == m.test
  <1>1. PICK ts : /\ Ready(ts) /\ SetNextTest(ts)
                  /\ ts[t].mapped = Heard(t, m)
                  /\ \A u \in Tests : u # t => ts[u] = tests[u]
    BY AnsweredTests
  <1>2. t \in Parallel /\ t \in Tests
    BY AnsweredTests, TestNumbers
  <1>3. Counts' /\ SameBut(tests', ts) /\ state' \in {"TESTING", "DEFECT_ROUTER_TEST"}
    <2>1. pinholes' \in [Socket -> SUBSET Endpoint] /\ server' \in Nat
      BY DEF HandleParallel, Counts, Types
    <2>. QED  BY <2>1, <1>1, SetNextTestCounts DEF HandleParallel
  <1>4. KeptBut(t)
    BY <1>1, <1>3 DEF SameBut, KeptBut
  <1>5. tests'[t].mapped = Heard(t, m)
    BY <1>1, <1>2, <1>3 DEF SameBut
  <1>. QED  BY <1>2, <1>3, <1>4, <1>5

LEMMA HandleDefectCounts ==
  ASSUME Counts, NEW m \in Answer, HandleDefect(m),
         UNCHANGED <<nat, epoch>>, pinholes' = pinholes, net' \subseteq Answer
  PROVE  /\ Counts' /\ KeptBut(Defect) /\ result' = Verdict(tests') /\ state' = "COMPLETED"
         /\ tests'[Defect].state = "COMPLETED" /\ tests'[Defect].mapped = Heard(Defect, m)
  <1> DEFINE dec == Decoded(tests, Defect, m)
             r == [dec[Defect] EXCEPT !.state = "COMPLETED"]
  <1>1. tests \in [Tests -> Test] /\ Defect \in Tests
    BY TestNumbers DEF Counts, Types
  <1>2. /\ dec \in [Tests -> Test] /\ dec[Defect].mapped = Heard(Defect, m)
        /\ dec[Defect].retransmissions = tests[Defect].retransmissions
        /\ dec[Defect].age = tests[Defect].age
        /\ \A u \in Tests : u # Defect => dec[u] = tests[u]
    BY <1>1, DecodedOK DEF Heard
  <1>3. /\ tests' = [dec EXCEPT ![Defect] = r] /\ result' = Verdict(tests')
        /\ state' = "COMPLETED" /\ nextEvent' = "COMPLETED"
        /\ UNCHANGED <<nextTimeout, nextTest, simple, initialTestsSent, server, analysis>>
    BY DEF HandleDefect, ComputeResultAndStop
  <1>. HIDE DEF dec
  <1>4. /\ r \in Test /\ r.retransmissions = dec[Defect].retransmissions
        /\ r.age = dec[Defect].age /\ r.mapped = dec[Defect].mapped
        /\ r.state = "COMPLETED"
    BY <1>1, <1>2, RecordsOK
  <1>. HIDE DEF r
  <1>5. /\ tests' \in [Tests -> Test] /\ tests'[Defect] = r
        /\ \A u \in Tests : u # Defect => tests'[u] = dec[u]
    BY <1>1, <1>2, <1>3, <1>4, PutOK
  <1>6. Bounded(tests)'
    BY <1>2, <1>4, <1>5, CountsBound DEF Bounded
  <1>7. Types'
    BY <1>3, <1>5 DEF Counts, Types
  <1>8. TypeOK'
    BY <1>3, <1>5, <1>6, BoundCounts DEF Counts, TypeOK, Sending
  <1>9. BudgetInv'
    BY <1>3 DEF BudgetInv
  <1>10. KeptBut(Defect)
    BY <1>2, <1>5 DEF KeptBut
  <1>. QED  BY <1>2, <1>3, <1>4, <1>5, <1>7, <1>8, <1>9, <1>10 DEF Counts

(* A delivered answer may come again, and is then still the same answer. *)
LEMMA DeliverOK ==
  ASSUME Types, NEW m \in net, Deliver(m)
  PROVE  /\ net' \subseteq Answer /\ UNCHANGED <<nat, epoch>> /\ pinholes' = pinholes
         /\ Passes(Sock(m.test), m.from) /\ HandlePacket(m)
         /\ \A x \in net' : \E y \in net :
              x.test = y.test /\ x.from = y.from /\ x.mapped = y.mapped
  <1> DEFINE again == [m EXCEPT !.fate = "late"]
  <1>1. m \in Answer /\ net \subseteq Answer
    BY DEF Types
  <1>2. /\ again \in Answer /\ again.test = m.test /\ again.from = m.from
        /\ again.mapped = m.mapped
    BY <1>1 DEF Answer
  <1>3. net' \in {net \ {m}, (net \ {m}) \union {again}}
    BY DEF Deliver
  <1>. HIDE DEF again
  <1>4. net' \subseteq Answer
    BY <1>1, <1>2, <1>3
  <1>5. \A x \in net' : \E y \in net : x.test = y.test /\ x.from = y.from /\ x.mapped = y.mapped
    BY <1>2, <1>3
  <1>. QED  BY <1>4, <1>5 DEF Deliver

(* What else may happen leaves the client alone. *)
Aside ==
  /\ UNCHANGED <<client, nat, epoch, pinholes>> /\ net' \subseteq net

LEMMA AsideCounts ==
  ASSUME Counts, Aside
  PROVE  Counts' /\ KeptBut(0)
  <1>1. Types'
    BY DEF Aside, client, Counts, Types
  <1>2. TypeOK'
    BY DEF Aside, client, Counts, TypeOK, Sending
  <1>3. BudgetInv'
    BY DEF Aside, client, Counts, BudgetInv, Sending
  <1>4. KeptBut(0)
    BY DEF Aside, client, KeptBut
  <1>. QED  BY <1>1, <1>2, <1>3, <1>4 DEF Counts

LEMMA UnmatchedCounts ==
  ASSUME Counts, NEW m \in Answer, Unmatched(m),
         UNCHANGED <<nat, epoch>>, pinholes' = pinholes, net' \subseteq Answer
  PROVE  Counts' /\ KeptBut(0)
  <1>1. Types'
    BY DEF Unmatched, client, Counts, Types
  <1>2. TypeOK'
    BY DEF Unmatched, client, Counts, TypeOK, Sending
  <1>3. BudgetInv'
    BY DEF Unmatched, client, Counts, BudgetInv, Sending
  <1>4. KeptBut(0)
    BY DEF Unmatched, client, KeptBut
  <1>. QED  BY <1>1, <1>2, <1>3, <1>4 DEF Counts

(* The steps of the specification, the ones that do not concern the client *)
(* taken together.                                                         *)
LEMMA StepKinds ==
  ASSUME [Next]_vars
  PROVE  \/ \E s \in BOOLEAN : AsyncAnalyze(s)
         \/ SendInitial \/ SendParallel \/ SendDefect
         \/ WaitInitial \/ WaitParallel \/ WaitDefect
         \/ \E m \in net : Deliver(m)
         \/ Tick
         \/ Forget
         \/ Aside
  <1>1. ASSUME NEW m \in net, Filtered(m) PROVE Aside
    BY <1>1 DEF Filtered, Aside
  <1>2. ASSUME GoDown PROVE Aside
    BY <1>2 DEF GoDown, Aside
  <1>3. ASSUME ComeUp PROVE Aside
    BY <1>3 DEF ComeUp, Aside
  <1>4. ASSUME UNCHANGED vars PROVE Aside
    BY <1>4 DEF vars, world, Aside
  <1>. QED  BY <1>1, <1>2, <1>3, <1>4 DEF Next, Loop

(* The NAT forgets while no analysis runs. *)
LEMMA ForgetCounts ==
  ASSUME Counts, Forget
  PROVE  Counts'
  <1>1. Types'
    BY DEF Forget, client, Counts, Types, Socket
  <1>2. TypeOK'
    BY DEF Forget, client, Counts, TypeOK, Sending
  <1>3. BudgetInv'
    BY DEF Forget, client, Counts, BudgetInv, Sending
  <1>. QED  BY <1>1, <1>2, <1>3 DEF Counts

LEMMA CountsNext ==
  ASSUME Counts, [Next]_vars
  PROVE  Counts'
  <1>1. ASSUME NEW m \in net, Deliver(m) PROVE Counts'
    <2>1. /\ m \in Answer /\ net' \subseteq Answer /\ UNCHANGED <<nat, epoch>> /\ pinholes' = pinholes
          /\ HandlePacket(m)
      BY <1>1, DeliverOK DEF Counts, Types
    <2>. QED  BY <2>1, HandleInitialCounts, HandleParallelCounts, HandleDefectCounts,
                 UnmatchedCounts DEF HandlePacket
  <1>. QED  BY <1>1, StepKinds, AsyncAnalyzeCounts, SendInitialCounts, SendParallelCounts,
               SendDefectCounts, WaitInitialCounts, WaitParallelCounts, WaitDefectCounts,
               TickCounts, ForgetCounts, AsideCounts

(* T1's answer starts the other tests. *)
LEMMA FirstTests ==
  ASSUME Counts, NEW m \in Answer, HandleInitial(m),
         state' \in {"TESTING", "DEFECT_ROUTER_TEST"}
  PROVE  \E new : /\ Ready(new) /\ SetNextTest(new)
                  /\ \A t \in Tests : t # Initial =>
                       /\ new[t].retransmissions = 0 /\ new[t].age = 0
                       /\ new[t].state = "NONE"
  <1> DEFINE ts == Decoded(tests, Initial, m)
             r == [ts[Initial] EXCEPT !.state = "COMPLETED"]
             done == [ts EXCEPT ![Initial] = r]
             new == [t \in Tests |-> IF t = Initial THEN done[t] ELSE InitMessage(ts[t])]
  <1>1. tests \in [Tests -> Test] /\ Initial \in Tests
    BY TestNumbers DEF Counts, Types
  <1>2. /\ ts \in [Tests -> Test]
        /\ ts[Initial].retransmissions = tests[Initial].retransmissions
        /\ ts[Initial].age = tests[Initial].age
        /\ \A u \in Tests : u # Initial => ts[u] = tests[u]
    BY <1>1, DecodedOK
  <1>3. SetNextTest(new)
    BY DEF HandleInitial
  <1>. HIDE DEF ts
  <1>4. /\ r \in Test /\ r.retransmissions = ts[Initial].retransmissions
        /\ r.age = ts[Initial].age
    BY <1>1, <1>2, RecordsOK
  <1>. HIDE DEF r
  <1>5. /\ done \in [Tests -> Test] /\ done[Initial] = r
        /\ \A u \in Tests : u # Initial => done[u] = ts[u]
    BY <1>1, <1>2, <1>4, PutOK
  <1>. HIDE DEF done
  <1>6. Bounded(done)
    BY <1>2, <1>4, <1>5, CountsBound DEF Bounded
  <1>7. /\ Ready(new)
        /\ \A t \in Tests : t # Initial =>
             /\ new[t].retransmissions = 0 /\ new[t].age = 0 /\ new[t].state = "NONE"
    BY <1>2, <1>5, <1>6, InitializedTests
  <1>. HIDE DEF new
  <1>. QED  BY <1>3, <1>7

-----------------------------------------------------------------------------
(* Filtering.                                                              *)

LEMMA FilterKept ==
  ASSUME NEW x, x \notin {4, 5}, KeptBut(x), UNCHANGED <<nat, epoch>>, LetThrough
  PROVE  LetThrough'
  <1>1. 4 \in Tests \ {x} /\ 5 \in Tests \ {x}
    BY TestNumbers
  <1>. QED  BY <1>1 DEF LetThrough, KeptBut

(* An answer to T4 or T5 passed a filter that only knows s1p1. *)
LEMMA PassedFilter ==
  ASSUME Types, FilterInv, Fresh, state = "TESTING", NEW m \in net, m.test \in {4, 5},
         Passes(Sock(m.test), m.from)
  PROVE  /\ nat.filtering # "PORT_DEPENDENT"
         /\ m.test = 5 => nat.filtering = "INDEPENDENT"
  <1>1. Sock(m.test) = "SECONDARY"
    BY DEF Sock
  <1>2. PICK d \in pinholes["SECONDARY"] :
          CASE nat.filtering = "INDEPENDENT" -> TRUE
            [] nat.filtering = "ADDR_DEPENDENT" ->
                 <<d.srv, d.addr>> = <<m.from.srv, m.from.addr>>
            [] OTHER -> d = m.from
    BY <1>1 DEF Passes
  <1>3. d.addr = 1 /\ d.port = 1
    BY DEF FilterInv
  <1>4. m.from = AnswerEp(m.test, m.from.srv)
    BY DEF FilterInv
  <1>5. /\ m.test = 4 => m.from.addr = 1 /\ m.from.port = 2
        /\ m.test = 5 => m.from.addr = 2
    BY <1>4 DEF AnswerEp, Ep
  <1>6. nat.filtering \in Behaviours
    BY StunAssumption DEF Types
  <1>7. nat.filtering # "PORT_DEPENDENT"
    BY <1>2, <1>3, <1>5
  <1>8. m.test = 5 => nat.filtering # "ADDR_DEPENDENT"
    BY <1>2, <1>3, <1>5
  <1>. QED  BY <1>6, <1>7, <1>8 DEF Behaviours

(* The verdict on the filtering that such answers lead to. *)
LEMMA FilterVerdict ==
  ASSUME NEW ts, NEW n \in Worlds,
         ts[4].state = "COMPLETED" => n.filtering # "PORT_DEPENDENT",
         ts[5].state = "COMPLETED" => n.filtering = "INDEPENDENT"
  PROVE  Openness(Verdict(ts).filtering) <= Openness(n.filtering)
  <1>1. n.filtering \in Behaviours
    BY StunAssumption
  <1>2. Verdict(ts).filtering = Filtering(ts)
    BY DEF Verdict
  <1>. QED  BY <1>1, <1>2 DEF Filtering, Openness, Behaviours

(* While no verdict is given the last one stays. *)
LEMMA VerdictKept ==
  ASSUME FilteringNotOverstated, UNCHANGED <<nat, epoch, analysis>>,
         \/ ~Analysed'
         \/ UNCHANGED <<state, simple, result>>
  PROVE  FilteringNotOverstated'
  BY DEF FilteringNotOverstated, Analysed, Fresh

(* What a test that is sent does to the filter and to the answers. *)
LEMMA TransmitFilter ==
  ASSUME Types, FilterInv, NEW t \in Tests, NEW s \in Nat, Transmit(t, s)
  PROVE  /\ \A m \in net' : m.from = AnswerEp(m.test, m.from.srv)
         /\ /\ Fresh /\ state \in {"INITIAL_TEST", "TESTING"} /\ t # Defect
            => \A d \in pinholes'["SECONDARY"] : d.addr = 1 /\ d.port = 1
  <1>1. /\ pinholes'["SECONDARY"] \subseteq pinholes["SECONDARY"] \union {TestEp(t, s)}
        /\ Sock(t) = "PRIMARY" => pinholes'["SECONDARY"] = pinholes["SECONDARY"]
        /\ \A m \in net' : \/ m \in net
                           \/ m.test = t /\ m.from = AnswerEp(t, s) /\ m.from.srv = s
    BY TransmitOK
  <1>2. \A m \in net' : m.from = AnswerEp(m.test, m.from.srv)
    BY <1>1 DEF FilterInv
  <1>3. Sock(t) # "PRIMARY" /\ t # Defect => TestEp(t, s).addr = 1 /\ TestEp(t, s).port = 1
    BY DEF Sock, Defect, TestEp, Ep, Tests
  <1>4. ASSUME Fresh, state \in {"INITIAL_TEST", "TESTING"}, t # Defect,
               NEW d \in pinholes'["SECONDARY"]
        PROVE  d.addr = 1 /\ d.port = 1
    BY <1>1, <1>3, <1>4 DEF FilterInv
  <1>. QED  BY <1>2, <1>4

Filters == FilterInv /\ FilteringNotOverstated

LEMMA AsyncAnalyzeFilters ==
  ASSUME Counts, Filters, NEW s \in BOOLEAN, AsyncAnalyze(s)
  PROVE  Filters'
  <1>1. /\ UNCHANGED <<nat, epoch, pinholes, net>> /\ state' = "INITIAL_TEST"
        /\ analysis' = analysis + 1 /\ analysis \in Nat /\ epoch \in Nat
    BY DEF AsyncAnalyze, world, Counts, Types
  <1>2. FilteringNotOverstated'
    BY <1>1 DEF FilteringNotOverstated, Analysed
  <1>3. epoch' <= analysis'
    <2>1. epoch > analysis => epoch = analysis + 1
      BY DEF Filters, FilterInv
    <2>. QED  BY <1>1, <2>1
  <1>4. Fresh' => pinholes'["SECONDARY"] = {}
    <2>1. Fresh' => epoch > analysis
      BY <1>1 DEF Fresh
    <2>. QED  BY <1>1, <2>1 DEF Filters, FilterInv
  <1>5. FilterInv'
    BY <1>1, <1>3, <1>4 DEF Filters, FilterInv
  <1>. QED  BY <1>2, <1>5 DEF Filters

LEMMA ForgetFilters ==
  ASSUME Counts, Filters, Forget
  PROVE  Filters'
  <1>1. /\ UNCHANGED <<state, analysis, net>> /\ Idle /\ Idle'
        /\ epoch' = analysis + 1 /\ analysis \in Nat /\ pinholes'["SECONDARY"] = {}
    BY DEF Forget, client, Counts, Types, Idle
  <1>2. ~Fresh'
    BY <1>1 DEF Fresh
  <1>3. FilterInv'
    BY <1>1, <1>2 DEF Filters, FilterInv
  <1>4. FilteringNotOverstated'
    BY <1>2 DEF FilteringNotOverstated
  <1>. QED  BY <1>3, <1>4 DEF Filters

(* Steps of an analysis. *)
LEMMA RunningFilters ==
  ASSUME FilterInv, UNCHANGED <<nat, epoch, analysis>>,
         \A m \in net' : m.from = AnswerEp(m.test, m.from.srv),
         Running \/ UNCHANGED <<state, pinholes>>,
         Fresh /\ state' \in {"INITIAL_TEST", "TESTING"} =>
           \A d \in pinholes'["SECONDARY"] : d.addr = 1 /\ d.port = 1,
         Fresh /\ state' \in {"TESTING", "DEFECT_ROUTER_TEST"} => LetThrough'
  PROVE  FilterInv'
  <1>1. epoch > analysis => ~Running
    BY DEF FilterInv, Idle, Running
  <1>2. Fresh' <=> Fresh
    BY DEF Fresh
  <1>3. Idle /\ state' = state => Idle'
    BY DEF Idle
  <1>. QED  BY <1>1, <1>2, <1>3 DEF FilterInv

LEMMA SendFilters ==
  ASSUME Counts, Filters, SendInitial \/ SendParallel \/ SendDefect
  PROVE  Filters'
  <1>1. KeptBut(0) /\ Counts'
    BY SendInitialCounts, SendParallelCounts, SendDefectCounts
  <1>2. server \in Nat
    BY DEF Counts, Types
  <1>3. LetThrough /\ UNCHANGED <<nat, epoch>> => LetThrough'
    BY <1>1, FilterKept
  <1>4. CASE SendInitial
    <2>1. /\ state = "INITIAL_TEST" /\ Transmit(Initial, initialTestsSent + 1)
          /\ UNCHANGED <<state, simple, result, analysis>>
      BY <1>4 DEF SendInitial
    <2>2. initialTestsSent + 1 \in Nat
      BY LimitsOK DEF Counts, TypeOK
    <2>3. /\ \A m \in net' : m.from = AnswerEp(m.test, m.from.srv)
          /\ Fresh => \A d \in pinholes'["SECONDARY"] : d.addr = 1 /\ d.port = 1
          /\ UNCHANGED <<nat, epoch>>
      BY <2>1, <2>2, TransmitFilter, TransmitOK, TestNumbers DEF Counts, Filters
    <2>4. FilterInv'
      BY <2>1, <2>3, RunningFilters DEF Filters, Running
    <2>. QED  BY <2>1, <2>3, <2>4, VerdictKept DEF Filters
  <1>5. CASE SendParallel
    <2>1. /\ state = "TESTING" /\ Transmit(nextTest, server)
          /\ SetNextTest([tests EXCEPT ![nextTest] = Transmitted(@)])
          /\ UNCHANGED <<simple, result, analysis>>
      BY <1>5 DEF SendParallel
    <2>2. nextTest \in Tests /\ nextTest # Defect
      BY <2>1, TestNumbers DEF Counts, BudgetInv
    <2>3. /\ \A m \in net' : m.from = AnswerEp(m.test, m.from.srv)
          /\ Fresh => \A d \in pinholes'["SECONDARY"] : d.addr = 1 /\ d.port = 1
          /\ UNCHANGED <<nat, epoch>>
      BY <2>1, <2>2, <1>2, TransmitFilter, TransmitOK DEF Counts, Filters
    <2>4. Fresh => LetThrough'
      BY <1>3, <2>1, <2>3 DEF Filters, FilterInv
    <2>5. FilterInv'
      BY <2>1, <2>3, <2>4, RunningFilters DEF Filters, Running
    <2>6. state' # "COMPLETED"
      BY <2>1 DEF SetNextTest
    <2>. QED  BY <2>1, <2>3, <2>5, <2>6, VerdictKept DEF Filters, Analysed
  <1>6. CASE SendDefect
    <2>1. /\ state = "DEFECT_ROUTER_TEST" /\ Transmit(Defect, server)
          /\ UNCHANGED <<state, simple, result, analysis>>
      BY <1>6 DEF SendDefect
    <2>2. /\ \A m \in net' : m.from = AnswerEp(m.test, m.from.srv)
          /\ UNCHANGED <<nat, epoch>>
      BY <2>1, <1>2, TransmitFilter, TransmitOK, TestNumbers DEF Counts, Filters
    <2>3. Fresh => LetThrough'
      BY <1>3, <2>1, <2>2 DEF Filters, FilterInv
    <2>4. FilterInv'
      BY <2>1, <2>2, <2>3, RunningFilters DEF Filters, Running
    <2>. QED  BY <2>1, <2>2, <2>4, VerdictKept DEF Filters
  <1>. QED  BY <1>4, <1>5, <1>6

LEMMA WaitFilters ==
  ASSUME Counts, Filters, WaitInitial \/ WaitParallel \/ WaitDefect \/ Tick \/ Aside
  PROVE  Filters'
  <1>1. KeptBut(0) /\ Counts'
    BY WaitInitialCounts, WaitParallelCounts, WaitDefectCounts, TickCounts, AsideCounts
  <1>2. UNCHANGED <<nat, epoch, analysis, pinholes>> /\ net' \subseteq net
    BY DEF WaitInitial, WaitParallel, WaitDefect, Tick, Aside, world, client
  <1>3. /\ state' \in {"INITIAL_TEST", "TESTING"} => state \in {"INITIAL_TEST", "TESTING"}
        /\ state' \in {"TESTING", "DEFECT_ROUTER_TEST"} =>
             state \in {"TESTING", "DEFECT_ROUTER_TEST"}
        /\ Running \/ state' = state
    <2>1. CASE WaitInitial
      BY <2>1 DEF WaitInitial, Running
    <2>2. CASE WaitParallel
      BY <2>2 DEF WaitParallel, SetNextTest, Running
    <2>3. CASE WaitDefect
      BY <2>3 DEF WaitDefect, ComputeResultAndStop, Running
    <2>4. CASE Tick
      BY <2>4 DEF Tick
    <2>5. CASE Aside
      BY <2>5 DEF Aside, client
    <2>. QED  BY <2>1, <2>2, <2>3, <2>4, <2>5
  <1>4. LetThrough => LetThrough'
    BY <1>1, <1>2, FilterKept
  <1>5. FilterInv'
    <2>1. /\ \A m \in net' : m.from = AnswerEp(m.test, m.from.srv)
          /\ Fresh /\ state' \in {"INITIAL_TEST", "TESTING"} =>
               \A d \in pinholes'["SECONDARY"] : d.addr = 1 /\ d.port = 1
          /\ Fresh /\ state' \in {"TESTING", "DEFECT_ROUTER_TEST"} => LetThrough'
      BY <1>2, <1>3, <1>4 DEF Filters, FilterInv
    <2>. QED  BY <1>2, <1>3, <2>1, RunningFilters DEF Filters
  <1>6. \/ ~Analysed'
        \/ UNCHANGED <<state, simple, result>>
        \/ state = "DEFECT_ROUTER_TEST" /\ result' = Verdict(tests')
    <2>1. CASE WaitInitial
      BY <2>1 DEF WaitInitial, Analysed
    <2>2. CASE WaitParallel
      BY <2>2 DEF WaitParallel, SetNextTest, Analysed
    <2>3. CASE WaitDefect
      BY <2>3 DEF WaitDefect, ComputeResultAndStop
    <2>4. CASE Tick
      BY <2>4 DEF Tick
    <2>5. CASE Aside
      BY <2>5 DEF Aside, client
    <2>. QED  BY <2>1, <2>2, <2>3, <2>4, <2>5
  <1>7. CASE state = "DEFECT_ROUTER_TEST" /\ result' = Verdict(tests')
    <2>1. nat' \in Worlds
      BY <1>1 DEF Counts, Types
    <2>2. Fresh' => Fresh
      BY <1>2 DEF Fresh
    <2>3. Fresh' => LetThrough'
      BY <1>4, <1>7, <2>2 DEF Filters, FilterInv
    <2>4. Fresh' => Openness(result'.filtering) <= Openness(nat'.filtering)
      BY <1>7, <2>1, <2>3, FilterVerdict DEF LetThrough
    <2>. QED  BY <1>5, <2>4 DEF Filters, FilteringNotOverstated
  <1>. QED  BY <1>2, <1>5, <1>6, <1>7, VerdictKept DEF Filters

LEMMA DeliverFilters ==
  ASSUME Counts, Filters, NEW m \in net, Deliver(m)
  PROVE  Filters'
  <1>1. /\ net' \subseteq Answer /\ UNCHANGED <<nat, epoch>> /\ pinholes' = pinholes
        /\ Passes(Sock(m.test), m.from) /\ HandlePacket(m) /\ m \in Answer
        /\ \A x \in net' : \E y \in net :
              x.test = y.test /\ x.from = y.from /\ x.mapped = y.mapped
    BY DeliverOK DEF Counts, Types
  <1>2. /\ \A x \in net' : x.from = AnswerEp(x.test, x.from.srv)
        /\ Fresh /\ state \in {"INITIAL_TEST", "TESTING"} =>
             \A d \in pinholes'["SECONDARY"] : d.addr = 1 /\ d.port = 1
    BY <1>1 DEF Filters, FilterInv
  <1>3. analysis' = analysis
    BY <1>1 DEF HandlePacket, HandleInitial, HandleParallel, HandleDefect, Unmatched, client
  <1>4. CASE HandleInitial(m)
    <2>1. /\ \/ state' = "COMPLETED" /\ simple'
             \/ state' \in {"TESTING", "DEFECT_ROUTER_TEST"}
             \/ state' = "INITIAL_TEST"
          /\ state = "INITIAL_TEST"
      BY <1>1, <1>4, HandleInitialCounts DEF HandleInitial
    <2>2. ~Analysed'
      BY <2>1 DEF Analysed
    <2>3. ASSUME state' \in {"TESTING", "DEFECT_ROUTER_TEST"} PROVE LetThrough'
      <3>1. PICK new : /\ Ready(new) /\ SetNextTest(new)
                       /\ \A t \in Tests : t # Initial => new[t].state = "NONE"
        BY <1>1, <1>4, <2>3, FirstTests
      <3>2. SameBut(tests', new)
        BY <3>1, SetNextTestOK DEF Counts, TypeOK
      <3>3. tests'[4].state # "COMPLETED" /\ tests'[5].state # "COMPLETED"
        BY <3>1, <3>2, TestNumbers DEF SameBut
      <3>. QED  BY <3>3 DEF LetThrough
    <2>4. FilterInv'
      BY <1>1, <1>2, <1>3, <2>1, <2>3, RunningFilters DEF Filters, Running
    <2>. QED  BY <1>1, <1>3, <2>2, <2>4, VerdictKept DEF Filters
  <1>5. CASE HandleParallel(m)
    <2>1. /\ KeptBut(m.test) /\ m.test \in Parallel
          /\ state' \in {"TESTING", "DEFECT_ROUTER_TEST"}
          /\ state = "TESTING"
      BY <1>1, <1>5, HandleParallelCounts DEF HandleParallel
    <2>2. ~Analysed'
      BY <2>1 DEF Analysed
    <2>3. ASSUME Fresh PROVE LetThrough'
      <3>0. LetThrough
        BY <2>1, <2>3 DEF Filters, FilterInv
      <3>1. CASE m.test \notin {4, 5}
        BY <1>1, <2>1, <3>0, <3>1, FilterKept
      <3>2. CASE m.test \in {4, 5}
        <4>1. /\ nat.filtering # "PORT_DEPENDENT"
              /\ m.test = 5 => nat.filtering = "INDEPENDENT"
          BY <1>1, <2>1, <2>3, <3>2, PassedFilter DEF Counts, Filters
        <4>2. m.test = 4 => (tests'[5].state = "COMPLETED" => tests[5].state = "COMPLETED")
          <5>1. m.test = 4 => 5 \in Tests \ {m.test}
            BY TestNumbers
          <5>. QED  BY <5>1, <2>1 DEF KeptBut
        <4>. QED  BY <1>1, <3>0, <3>2, <4>1, <4>2 DEF LetThrough
      <3>. QED  BY <3>1, <3>2
    <2>4. FilterInv'
      BY <1>1, <1>2, <1>3, <2>1, <2>3, RunningFilters DEF Filters, Running
    <2>. QED  BY <1>1, <1>3, <2>2, <2>4, VerdictKept DEF Filters
  <1>6. CASE HandleDefect(m)
    <2>1. /\ Counts' /\ KeptBut(Defect) /\ result' = Verdict(tests') /\ state' = "COMPLETED"
          /\ state = "DEFECT_ROUTER_TEST"
      BY <1>1, <1>6, HandleDefectCounts DEF HandleDefect
    <2>2. Fresh => LetThrough'
      BY <1>1, <2>1, FilterKept, TestNumbers DEF Filters, FilterInv
    <2>3. FilterInv'
      BY <1>1, <1>2, <1>3, <2>1, RunningFilters DEF Filters, Running
    <2>4. nat' \in Worlds
      BY <2>1 DEF Counts, Types
    <2>5. Fresh' => Fresh
      BY <1>1, <1>3 DEF Fresh
    <2>6. Fresh' => Openness(result'.filtering) <= Openness(nat'.filtering)
      BY <2>1, <2>2, <2>4, <2>5, FilterVerdict DEF LetThrough
    <2>. QED  BY <2>3, <2>6 DEF Filters, FilteringNotOverstated
  <1>7. CASE Unmatched(m)
    <2>1. UNCHANGED client
      BY <1>7 DEF Unmatched
    <2>2. state' = state /\ (LetThrough => LetThrough')
      BY <1>1, <2>1 DEF client, LetThrough
    <2>3. FilterInv'
      BY <1>1, <1>2, <1>3, <2>2, RunningFilters DEF Filters, FilterInv
    <2>. QED  BY <1>1, <1>3, <2>1, <2>3, VerdictKept DEF client, Filters
  <1>. QED  BY <1>1, <1>4, <1>5, <1>6, <1>7 DEF HandlePacket

LEMMA FiltersNext ==
  ASSUME Counts, Filters, [Next]_vars
  PROVE  Filters'
  BY StepKinds, AsyncAnalyzeFilters, SendFilters, WaitFilters, DeliverFilters, ForgetFilters

-----------------------------------------------------------------------------
(* Mapping.                                                                *)

Ports == PortInv /\ MappingNotOverstated

(* Ports towards the three endpoints T1 to T3 are sent to tell the mapping. *)
LEMMA PortsTell ==
  ASSUME NEW n \in Worlds, NEW s \in Nat, NEW e \in Nat
  PROVE  LET P(t) == PortOf(n, e, "PRIMARY", TestEp(t, s))
         IN  /\ P(1) # 0
             /\ n.mapping = "PORT_DEPENDENT" => P(2) # P(1)
             /\ n.mapping = "ADDR_DEPENDENT" => P(3) # P(1)
  <1> DEFINE P(t) == PortOf(n, e, "PRIMARY", TestEp(t, s))
             b == 1000 * e + 1
  <1>1. /\ TestEp(1, s).srv = s /\ TestEp(1, s).addr = 1 /\ TestEp(1, s).port = 1
        /\ TestEp(2, s).srv = s /\ TestEp(2, s).addr = 1 /\ TestEp(2, s).port = 2
        /\ TestEp(3, s).srv = s /\ TestEp(3, s).addr = 2 /\ TestEp(3, s).port = 1
    BY DEF TestEp, Ep
  <1>2. n.mapping \in Behaviours /\ b \in Nat /\ b # 0
    BY StunAssumption
  <1>3. CASE n.mapping = "INDEPENDENT"
    <2>1. P(1) = b
      BY <1>3 DEF PortOf
    <2>. QED  BY <1>2, <1>3, <2>1
  <1>4. CASE n.mapping = "ADDR_DEPENDENT"
    <2>1. P(1) = b + 3 * (2 * s + 1)
      BY <1>1, <1>4 DEF PortOf
    <2>2. P(3) = b + 3 * (2 * s + 2)
      BY <1>1, <1>4 DEF PortOf
    <2>. HIDE DEF P, b
    <2>3. P(1) # 0 /\ P(3) # P(1)
      BY <2>1, <2>2, <1>2
    <2>. QED  BY <1>4, <2>3 DEF P
  <1>5. CASE n.mapping = "PORT_DEPENDENT"
    <2>1. P(1) = b + 3 * (100 + 4 * s + 2 + 1)
      BY <1>1, <1>5 DEF PortOf
    <2>2. P(2) = b + 3 * (100 + 4 * s + 2 + 2)
      BY <1>1, <1>5 DEF PortOf
    <2>. HIDE DEF P, b
    <2>3. P(1) # 0 /\ P(2) # P(1)
      BY <2>1, <2>2, <1>2
    <2>. QED  BY <1>5, <2>3 DEF P
  <1>. QED  BY <1>2, <1>3, <1>4, <1>5 DEF Behaviours

LEMMA MappingVerdict ==
  ASSUME NEW ts, NEW n \in Worlds, NEW s \in Nat, NEW e \in Nat,
         \A t \in {2, 3} : ts[t].mapped \in {0, PortOf(n, e, "PRIMARY", TestEp(t, s))},
         ts[1].mapped = PortOf(n, e, "PRIMARY", TestEp(1, s))
  PROVE  Openness(Verdict(ts).mapping) <= Openness(n.mapping)
  <1> DEFINE P(t) == PortOf(n, e, "PRIMARY", TestEp(t, s))
  <1>1. /\ P(1) # 0
        /\ n.mapping = "PORT_DEPENDENT" => P(2) # P(1)
        /\ n.mapping = "ADDR_DEPENDENT" => P(3) # P(1)
    BY PortsTell
  <1>2. ts[2].mapped \in {0, P(2)} /\ ts[3].mapped \in {0, P(3)} /\ ts[1].mapped = P(1)
    OBVIOUS
  <1>. HIDE DEF P
  <1>3. /\ n.mapping = "PORT_DEPENDENT" => ts[2].mapped # ts[1].mapped
        /\ n.mapping = "ADDR_DEPENDENT" => ts[3].mapped # ts[1].mapped
    BY <1>1, <1>2
  <1>4. n.mapping \in Behaviours
    BY StunAssumption
  <1>5. Verdict(ts).mapping = Mapping(ts)
    BY DEF Verdict
  <1>6. /\ Mapping(ts) \in Behaviours
        /\ ts[2].mapped # ts[1].mapped => Mapping(ts) = "PORT_DEPENDENT"
        /\ ts[3].mapped # ts[1].mapped => Mapping(ts) # "INDEPENDENT"
    BY DEF Mapping, Behaviours
  <1>7. /\ n.mapping = "PORT_DEPENDENT" => Mapping(ts) = "PORT_DEPENDENT"
        /\ n.mapping = "ADDR_DEPENDENT" => Mapping(ts) # "INDEPENDENT"
    BY <1>3, <1>6
  <1>. QED  BY <1>4, <1>5, <1>6, <1>7 DEF Openness, Behaviours

LEMMA MappingKept ==
  ASSUME MappingNotOverstated, UNCHANGED <<nat, epoch>>, analysis' = analysis,
         \/ ~Analysed'
         \/ UNCHANGED <<state, simple, result>>
  PROVE  MappingNotOverstated'
  BY DEF MappingNotOverstated, Analysed

(* Ports that no answer changes. *)
LEMMA PortsKept ==
  ASSUME PortInv, NEW x, x \notin {1, 2, 3}, KeptBut(x)
  PROVE  \A t \in {1, 2, 3} : tests'[t].mapped = tests[t].mapped
  <1>1. \A t \in {1, 2, 3} : t \in Tests \ {x}
    BY TestNumbers
  <1>. QED  BY <1>1 DEF KeptBut

LEMMA AsyncAnalyzePorts ==
  ASSUME Counts, Ports, NEW s \in BOOLEAN, AsyncAnalyze(s)
  PROVE  Ports'
  <1>1. KeptBut(0) /\ analysis' = analysis + 1 /\ analysis \in Nat
    BY AsyncAnalyzeCounts DEF AsyncAnalyze, Counts, Types
  <1>2. MappingNotOverstated'
    BY DEF AsyncAnalyze, MappingNotOverstated, Analysed
  <1>3. CASE analysis' = 1
    <2>1. analysis = 0
      BY <1>1, <1>3
    <2>2. net = {} /\ \A t \in Tests : tests[t].mapped = 0
      BY <2>1 DEF Ports, PortInv
    <2>3. net' = {} /\ state' = "INITIAL_TEST"
      BY <2>2 DEF AsyncAnalyze, world
    <2>4. \A t \in {1, 2, 3} : tests'[t].mapped = 0
      BY <1>1, <2>2, PortsKept, TestNumbers DEF Ports
    <2>5. PortInv'
      BY <1>3, <2>3, <2>4 DEF PortInv
    <2>. QED  BY <1>2, <2>5 DEF Ports
  <1>4. CASE analysis' # 1
    <2>1. analysis' # 0
      BY <1>1
    <2>. QED  BY <1>2, <1>4, <2>1 DEF Ports, PortInv
  <1>. QED  BY <1>3, <1>4

LEMMA ForgetPorts ==
  ASSUME Counts, Ports, Forget
  PROVE  Ports'
  <1>1. UNCHANGED <<client, nat, net>> /\ ~Running
    BY DEF Forget, Idle, Running
  <1>2. ~Running'
    BY <1>1 DEF client, Running
  <1>3. PortInv'
    BY <1>1, <1>2 DEF client, Ports, PortInv
  <1>4. MappingNotOverstated'
    BY <1>1 DEF client, Ports, MappingNotOverstated, Analysed
  <1>. QED  BY <1>3, <1>4 DEF Ports

LEMMA SendPorts ==
  ASSUME Counts, Ports, SendInitial \/ SendParallel \/ SendDefect
  PROVE  Ports'
  <1>1. KeptBut(0) /\ Counts'
    BY SendInitialCounts, SendParallelCounts, SendDefectCounts
  <1>2. server \in Nat /\ initialTestsSent + 1 \in Nat
    BY LimitsOK DEF Counts, Types, TypeOK
  <1>3. /\ UNCHANGED <<analysis, server, simple, result>>
        /\ state \in {"INITIAL_TEST", "TESTING", "DEFECT_ROUTER_TEST"}
        /\ state' \in {"INITIAL_TEST", "TESTING", "DEFECT_ROUTER_TEST"}
        /\ state' = "INITIAL_TEST" <=> state = "INITIAL_TEST"
    <2>1. CASE SendInitial
      BY <2>1 DEF SendInitial
    <2>2. CASE SendParallel
      BY <2>2 DEF SendParallel, SetNextTest
    <2>3. CASE SendDefect
      BY <2>3 DEF SendDefect
    <2>. QED  BY <2>1, <2>2, <2>3
  <1>4. /\ UNCHANGED <<nat, epoch>>
        /\ \A m \in net' : \/ m \in net
                           \/ /\ m.mapped = Told(nat, epoch, m)
                              /\ m.test # Initial =>
                                   m.from.srv = server /\ state # "INITIAL_TEST"
    <2>1. CASE SendInitial
      BY <2>1, <1>2, TransmitOK, TestNumbers DEF SendInitial, Counts
    <2>2. CASE SendParallel
      <3>1. nextTest \in Tests /\ state = "TESTING" /\ Transmit(nextTest, server)
        BY <2>2, TestNumbers DEF SendParallel, Counts, BudgetInv
      <3>. QED  BY <3>1, <1>2, TransmitOK DEF Counts
    <2>3. CASE SendDefect
      BY <2>3, <1>2, TransmitOK, TestNumbers DEF SendDefect, Counts
    <2>. QED  BY <2>1, <2>2, <2>3
  <1>5. \A t \in {1, 2, 3} : tests'[t].mapped = tests[t].mapped
    BY <1>1, PortsKept DEF Ports
  <1>6. analysis # 0
    BY <1>3 DEF Ports, PortInv
  <1>7. PortInv'
    BY <1>3, <1>4, <1>5, <1>6 DEF Ports, PortInv, Running, Initial
  <1>8. MappingNotOverstated'
    BY <1>3 DEF MappingNotOverstated, Analysed
  <1>. QED  BY <1>7, <1>8 DEF Ports

LEMMA WaitPorts ==
  ASSUME Counts, Ports, WaitInitial \/ WaitParallel \/ WaitDefect \/ Tick \/ Aside
  PROVE  Ports'
  <1>1. KeptBut(0) /\ Counts'
    BY WaitInitialCounts, WaitParallelCounts, WaitDefectCounts, TickCounts, AsideCounts
  <1>2. UNCHANGED <<nat, epoch>> /\ analysis' = analysis /\ server' = server /\ net' \subseteq net
    BY DEF WaitInitial, WaitParallel, WaitDefect, Tick, Aside, world, client
  <1>3. /\ state' = "INITIAL_TEST" => state = "INITIAL_TEST"
        /\ state' \in {"TESTING", "DEFECT_ROUTER_TEST"} =>
             state \in {"TESTING", "DEFECT_ROUTER_TEST"}
        /\ state = "NOT_STARTED" => tests' = tests /\ state' = state
        /\ Running' => Running
    <2>1. CASE WaitInitial
      BY <2>1 DEF WaitInitial, Running
    <2>2. CASE WaitParallel
      BY <2>2 DEF WaitParallel, SetNextTest, Running
    <2>3. CASE WaitDefect
      BY <2>3 DEF WaitDefect, ComputeResultAndStop, Running
    <2>4. CASE Tick
      BY <2>4 DEF Tick, Running
    <2>5. CASE Aside
      BY <2>5 DEF Aside, client, Running
    <2>. QED  BY <2>1, <2>2, <2>3, <2>4, <2>5
  <1>4. \A t \in {1, 2, 3} : tests'[t].mapped = tests[t].mapped
    BY <1>1, PortsKept DEF Ports
  <1>5. PortInv'
    BY <1>2, <1>3, <1>4 DEF Ports, PortInv, Initial
  <1>6. \/ ~Analysed'
        \/ UNCHANGED <<state, simple, result>>
        \/ state = "DEFECT_ROUTER_TEST" /\ result' = Verdict(tests')
    <2>1. CASE WaitInitial
      BY <2>1 DEF WaitInitial, Analysed
    <2>2. CASE WaitParallel
      BY <2>2 DEF WaitParallel, SetNextTest, Analysed
    <2>3. CASE WaitDefect
      BY <2>3 DEF WaitDefect, ComputeResultAndStop
    <2>4. CASE Tick
      BY <2>4 DEF Tick
    <2>5. CASE Aside
      BY <2>5 DEF Aside, client
    <2>. QED  BY <2>1, <2>2, <2>3, <2>4, <2>5
  <1>7. CASE state = "DEFECT_ROUTER_TEST" /\ result' = Verdict(tests')
    <2>1. ASSUME analysis' = 1
          PROVE  Openness(result'.mapping) <= Openness(nat'.mapping)
      <3>1. /\ \A t \in {2, 3} :
                 tests'[t].mapped \in {0, PortOf(nat', epoch', "PRIMARY", TestEp(t, server'))}
            /\ tests'[1].mapped = PortOf(nat', epoch', "PRIMARY", TestEp(1, server'))
        BY <1>2, <1>4, <1>7, <2>1 DEF Ports, PortInv, Running, Initial
      <3>2. nat' \in Worlds /\ server' \in Nat /\ epoch' \in Nat
        BY <1>1 DEF Counts, Types
      <3>. QED  BY <1>7, <3>1, <3>2, MappingVerdict
    <2>. QED  BY <1>5, <2>1 DEF Ports, MappingNotOverstated
  <1>. QED  BY <1>2, <1>5, <1>6, <1>7, MappingKept DEF Ports

LEMMA DeliverPorts ==
  ASSUME Counts, Ports, NEW m \in net, Deliver(m)
  PROVE  Ports'
  <1>1. /\ net' \subseteq Answer /\ UNCHANGED <<nat, epoch>> /\ pinholes' = pinholes
        /\ HandlePacket(m) /\ m \in Answer
        /\ \A x \in net' : \E y \in net :
              x.test = y.test /\ x.from = y.from /\ x.mapped = y.mapped
    BY DeliverOK DEF Counts, Types
  <1>2. analysis # 0
    BY DEF Ports, PortInv, Running
  <1>3. analysis' = analysis
    BY <1>1 DEF HandlePacket, HandleInitial, HandleParallel, HandleDefect, Unmatched, client
  <1>4. CASE analysis # 1 \/ ~Running
    <2>1. CASE analysis # 1
      BY <1>2, <1>3, <2>1 DEF Ports, PortInv, MappingNotOverstated
    <2>2. CASE ~Running
      <3>1. UNCHANGED client
        BY <1>1, <2>2 DEF HandlePacket, HandleInitial, HandleParallel, HandleDefect,
                          Unmatched, Running
      <3>2. ~Running'
        BY <2>2, <3>1 DEF client, Running
      <3>3. PortInv'
        BY <1>2, <1>3, <3>2 DEF PortInv
      <3>. QED  BY <1>1, <1>3, <3>1, <3>3, MappingKept DEF client, Ports
    <2>. QED  BY <1>4, <2>1, <2>2
  <1>5. CASE analysis = 1 /\ Running
    <2>0. /\ m.mapped = Told(nat, epoch, m)
          /\ m.test # Initial => m.from.srv = server /\ state # "INITIAL_TEST"
      BY <1>5 DEF Ports, PortInv, Running
    <2>1. \A x \in net' :
            /\ x.mapped = Told(nat', epoch', x)
            /\ x.test # Initial => x.from.srv = server /\ state # "INITIAL_TEST"
      <3>1. SUFFICES ASSUME NEW x \in net'
                     PROVE  /\ x.mapped = Told(nat, epoch, x)
                            /\ x.test # Initial => x.from.srv = server /\ state # "INITIAL_TEST"
        BY <1>1, <1>3, <1>5
      <3>2. PICK y \in net : x.test = y.test /\ x.from = y.from /\ x.mapped = y.mapped
        BY <1>1
      <3>3. /\ y.mapped = Told(nat, epoch, y)
            /\ y.test # Initial => y.from.srv = server /\ state # "INITIAL_TEST"
        BY <1>5 DEF Ports, PortInv, Running
      <3>4. Told(nat, epoch, x) = Told(nat, epoch, y)
        BY <3>2 DEF Told
      <3>. QED  BY <3>2, <3>3, <3>4
    <2>2. CASE HandleInitial(m)
      <3>1. /\ Counts' /\ KeptBut(Initial)
            /\ tests'[Initial].mapped = Heard(Initial, m)
            /\ \/ state' = "COMPLETED" /\ simple'
               \/ /\ state' \in {"TESTING", "DEFECT_ROUTER_TEST"}
                  /\ nat.servers = "full" /\ server' = m.from.srv
               \/ state' = "INITIAL_TEST" /\ server' = server
            /\ state = "INITIAL_TEST" /\ m.test = Initial
        BY <1>1, <2>2, HandleInitialCounts DEF HandleInitial, CheckTransactionId
      <3>2. /\ tests'[2].mapped = 0 /\ tests'[3].mapped = 0
        <4>1. 2 \in Tests \ {Initial} /\ 3 \in Tests \ {Initial}
          BY DEF Tests, Initial
        <4>. QED  BY <4>1, <3>1, <1>5 DEF KeptBut, Ports, PortInv, Running
      <3>3. \A x \in net' : x.test = Initial
        BY <2>1, <3>1
      <3>4. state' \in {"TESTING", "DEFECT_ROUTER_TEST"} =>
              tests'[Initial].mapped =
                PortOf(nat', epoch', "PRIMARY", TestEp(Initial, server'))
        <4>1. SUFFICES ASSUME state' \in {"TESTING", "DEFECT_ROUTER_TEST"}
                       PROVE  tests'[Initial].mapped =
                                PortOf(nat, epoch, "PRIMARY", TestEp(Initial, m.from.srv))
          BY <3>1, <1>1, <1>3, <1>5
        <4>2. nat.servers = "full"
          BY <3>1, <4>1
        <4>3. Sock(Initial) = "PRIMARY"
          BY DEF Sock, Initial
        <4>4. m.mapped = PortOf(nat, epoch, "PRIMARY", TestEp(Initial, m.from.srv))
          BY <2>0, <3>1, <4>2, <4>3 DEF Told
        <4>5. m.mapped # 0
          BY <4>4, <1>1, PortsTell DEF Counts, Types, Initial, Answer, Endpoint
        <4>. QED  BY <3>1, <4>4, <4>5 DEF Heard
      <3>5. PortInv'
        BY <1>2, <1>3, <2>1, <3>2, <3>3, <3>4 DEF PortInv
      <3>6. ~Analysed'
        BY <3>1 DEF Analysed
      <3>. QED  BY <1>1, <1>3, <3>5, <3>6, MappingKept DEF Ports
    <2>3. CASE HandleParallel(m)
      <3>1. /\ Counts' /\ KeptBut(m.test) /\ m.test \in Parallel
            /\ tests'[m.test].mapped = Heard(m.test, m)
            /\ state' \in {"TESTING", "DEFECT_ROUTER_TEST"}
            /\ state = "TESTING" /\ server' = server
        BY <1>1, <2>3, HandleParallelCounts DEF HandleParallel
      <3>2. m.from.srv = server
        BY <2>0, <3>1, TestNumbers
      <3>3. tests'[Initial].mapped = tests[Initial].mapped
        BY <3>1, TestNumbers DEF KeptBut
      <3>4. ASSUME NEW t \in {2, 3}
            PROVE  tests'[t].mapped \in {0, PortOf(nat, epoch, "PRIMARY", TestEp(t, server))}
        <4>1. tests[t].mapped \in {0, PortOf(nat, epoch, "PRIMARY", TestEp(t, server))}
          BY <1>5 DEF Ports, PortInv, Running
        <4>2. CASE t = m.test
          <5>1. Sock(m.test) = "PRIMARY"
            BY <4>2 DEF Sock
          <5>2. m.mapped \in {0, PortOf(nat, epoch, "PRIMARY", TestEp(t, server))}
            BY <2>0, <3>2, <4>2, <5>1 DEF Told
          <5>. QED  BY <3>1, <4>1, <4>2, <5>2 DEF Heard
        <4>3. CASE t # m.test
          <5>1. t \in Tests \ {m.test}
            BY <4>3, TestNumbers
          <5>. QED  BY <5>1, <4>1, <3>1 DEF KeptBut
        <4>. QED  BY <4>2, <4>3
      <3>5. tests[Initial].mapped = PortOf(nat, epoch, "PRIMARY", TestEp(Initial, server))
        BY <1>5, <3>1 DEF Ports, PortInv, Running
      <3>6. PortInv'
        BY <1>1, <1>3, <1>5, <2>1, <3>1, <3>3, <3>4, <3>5 DEF PortInv
      <3>7. ~Analysed'
        BY <3>1 DEF Analysed
      <3>. QED  BY <1>1, <1>3, <3>6, <3>7, MappingKept DEF Ports
    <2>4. CASE HandleDefect(m)
      <3>1. /\ Counts' /\ KeptBut(Defect) /\ result' = Verdict(tests')
            /\ state' = "COMPLETED" /\ state = "DEFECT_ROUTER_TEST" /\ server' = server
        BY <1>1, <2>4, HandleDefectCounts DEF HandleDefect
      <3>2. \A t \in {1, 2, 3} : tests'[t].mapped = tests[t].mapped
        BY <3>1, PortsKept, TestNumbers DEF Ports
      <3>3. PortInv'
        BY <1>1, <1>3, <1>5, <2>1, <3>1, <3>2 DEF Ports, PortInv, Running
      <3>4. /\ \A t \in {2, 3} :
                 tests'[t].mapped \in {0, PortOf(nat', epoch', "PRIMARY", TestEp(t, server'))}
            /\ tests'[1].mapped = PortOf(nat', epoch', "PRIMARY", TestEp(1, server'))
        BY <1>1, <1>5, <3>1, <3>2 DEF Ports, PortInv, Running, Initial
      <3>5. nat' \in Worlds /\ server' \in Nat /\ epoch' \in Nat
        BY <3>1 DEF Counts, Types
      <3>6. Openness(result'.mapping) <= Openness(nat'.mapping)
        BY <3>1, <3>4, <3>5, MappingVerdict
      <3>. QED  BY <3>3, <3>6 DEF Ports, MappingNotOverstated
    <2>5. CASE Unmatched(m)
      <3>1. UNCHANGED client
        BY <2>5 DEF Unmatched
      <3>2. PortInv'
        BY <1>1, <1>2, <2>1, <3>1 DEF client, Ports, PortInv, Running
      <3>. QED  BY <1>1, <1>3, <3>1, <3>2, MappingKept DEF client, Ports
    <2>. QED  BY <1>1, <2>2, <2>3, <2>4, <2>5 DEF HandlePacket
  <1>. QED  BY <1>4, <1>5

LEMMA PortsNext ==
  ASSUME Counts, Ports, [Next]_vars
  PROVE  Ports'
  BY StepKinds, AsyncAnalyzePorts, ForgetPorts, SendPorts, WaitPorts, DeliverPorts

-----------------------------------------------------------------------------

(* The invariant holds at first. *)
LEMMA InitOK ==
  ASSUME Init
  PROVE  SInv
  <1>1. \A t \in Tests : /\ tests[t] \in Test /\ tests[t].state = "NONE"
                         /\ tests[t].retransmissions = 0 /\ tests[t].age = 0
                         /\ tests[t].mapped = 0
    BY DEF Init, Test
  <1>2. tests \in [Tests -> Test]
    BY <1>1 DEF Init
  <1>3. Types
    BY <1>2 DEF Init, Types, Socket
  <1>4. TypeOK
    BY <1>1, LimitsOK DEF Init, TypeOK, Sending
  <1>5. BudgetInv
    BY DEF Init, BudgetInv
  <1>6. FilterInv
    BY <1>1, TestNumbers DEF Init, FilterInv, LetThrough, Idle, Fresh
  <1>7. PortInv
    BY <1>1 DEF Init, PortInv
  <1>8. FilteringNotOverstated /\ MappingNotOverstated
    BY DEF Init, FilteringNotOverstated, MappingNotOverstated, Analysed
  <1>. QED  BY <1>3, <1>4, <1>5, <1>6, <1>7, <1>8 DEF SInv

(* The tests, the answers under way and the NAT agree throughout.          *)
THEOREM StunInvariance == Spec => []SInv
  <1>1. Init => SInv
    BY InitOK
  <1>2. SInv /\ [Next]_vars => SInv'
    <2>1. SUFFICES ASSUME SInv, [Next]_vars PROVE SInv'
      OBVIOUS
    <2>2. Counts /\ Filters /\ Ports
      BY <2>1 DEF SInv, Counts, Filters, Ports
    <2>3. Counts' /\ Filters' /\ Ports'
      BY <2>1, <2>2, CountsNext, FiltersNext, PortsNext
    <2>. QED  BY <2>3 DEF SInv, Counts, Filters, Ports
  <1>. QED  BY <1>1, <1>2, PTL DEF Spec

(* No test is transmitted more often than its limit allows, and the client *)
(* only asks for a transmission of a test that nabto_stun_set_next_test    *)
(* chose.                                                                  *)
THEOREM TestsWithinLimits == Spec => []TypeOK
  <1>1. SInv => TypeOK
    BY DEF SInv
  <1>. QED  BY <1>1, StunInvariance, PTL

(* nabto_stun_compute_result never says that a NAT that knew nothing of    *)
(* the sockets filters less than it does, whatever the network loses,      *)
(* delays or repeats.                                                      *)
THEOREM FilteringIsSafe == Spec => []FilteringNotOverstated
  <1>1. SInv => FilteringNotOverstated
    BY DEF SInv
  <1>. QED  BY <1>1, StunInvariance, PTL

(* nabto_stun_compute_result never says, in the first analysis, that the   *)
(* mapping of the NAT depends on less than it does.                        *)
THEOREM MappingIsSafe == Spec => []MappingNotOverstated
  <1>1. SInv => MappingNotOverstated
    BY DEF SInv
  <1>. QED  BY <1>1, StunInvariance, PTL

-----------------------------------------------------------------------------
(***************************************************************************)
(* When the verdict is exact.  TallyInv relates the transmissions of each  *)
(* test with the faults of the network, which are counted for all tests    *)
(* together: that is enough, since each is below the number of faults by   *)
(* itself.  AnswersInv and LearnedInv say where the ports come from.       *)
(***************************************************************************)

(* The answer to test t is one that the NAT lets in. *)
Heeded(t) == /\ t = 4 => nat.filtering # "PORT_DEPENDENT"
             /\ t = 5 => nat.filtering = "INDEPENDENT"

(* An answer to t is under way that comes before time passes. *)
OnTime(t) == \E m \in net : m.test = t /\ m.analysis = analysis /\ m.fate = "soon"

(* All but one of a test's transmissions, or all of them, cost a fault. *)
Tally(r, f, timely) ==
  /\ r.retransmissions <= f + 1
  /\ r.state = "SENT" => r.retransmissions <= f \/ timely
  /\ RetriesLeft(f) => r.state # "FAILED"

Due(r) == r.state = "NONE" \/ (r.state = "SENT" /\ r.age >= SendTimeout)

(* While an analysis runs, its answers under way come from the server it   *)
(* has chosen and find the NAT open for them.                              *)
AnswersInv ==
  /\ faults \in Nat /\ outages \in Nat /\ (down => outages > 0)
  /\ \A m \in net : m.analysis <= analysis
  /\ \A m \in net : m.analysis = analysis /\ Running =>
       /\ m.mapped = Told(nat, epoch, m)
       /\ m.test # Initial =>
            /\ state # "INITIAL_TEST" /\ m.from = AnswerEp(m.test, server)
            /\ TestEp(m.test, server) \in pinholes[Sock(m.test)]
       /\ m.test = Defect => state # "TESTING"

(* Every port that this analysis has learned is the one the NAT gave. *)
LearnedInv ==
  state \in {"TESTING", "DEFECT_ROUTER_TEST"} =>
    /\ nat.servers = "full"
    /\ tests[Initial].mapped = PortOf(nat, epoch, "PRIMARY", TestEp(Initial, server))
    /\ \A t \in Tests \ {Initial} : tests[t].state = "COMPLETED" =>
         tests[t].mapped = PortOf(nat, epoch, Sock(t), TestEp(t, server))

(* A test is sent again only after its answer was lost or late, so that a  *)
(* test runs out of transmissions only when there were that many faults.   *)
TallyInv ==
  outages = 0 =>
    /\ state = "TESTING" =>
         /\ \A t \in Parallel :
              /\ Heeded(t) => Tally(tests[t], faults, OnTime(t))
              /\ (OnTime(t) /\ tests[t].state = "SENT" => tests[t].age = 0)
         /\ Sending => Due(tests[nextTest])
    /\ state = "DEFECT_ROUTER_TEST" =>
         /\ RetriesLeft(faults) =>
              \A t \in Parallel : Heeded(t) => tests[t].state = "COMPLETED"
         /\ tests[Defect].retransmissions <= faults + 1
         /\ tests[Defect].retransmissions <= faults \/ OnTime(Defect)
         /\ OnTime(Defect) => nextEvent = "WAIT" /\ nextTimeout = SendTimeout

-----------------------------------------------------------------------------

(* Fewer faults leave more retries. *)
LEMMA FewerFaults ==
  ASSUME NEW f \in Nat, NEW g \in Nat, f <= g, RetriesLeft(g)
  PROVE  RetriesLeft(f)
  BY LimitsOK DEF RetriesLeft

(* What a transmission costs. *)
LEMMA TransmitCosts ==
  ASSUME Types, faults \in Nat, NEW t \in Tests, NEW s \in Nat, Transmit(t, s)
  PROVE  /\ \A m \in net' : \/ m \in net
                            \/ /\ m.test = t /\ m.analysis = analysis
                               /\ m.from = AnswerEp(t, s) /\ m.from.srv = s
                               /\ m.mapped = Told(nat, epoch, m)
         /\ \A m \in net : m \in net'
         /\ \A k \in Socket : pinholes[k] \subseteq pinholes'[k]
         /\ TestEp(t, s) \in pinholes'[Sock(t)]
         /\ UNCHANGED <<nat, epoch, outages, down>>
         /\ faults' \in Nat /\ faults <= faults'
         /\ \/ down
            \/ \E m \in net' : m.test = t /\ m.analysis = analysis /\ m.fate = "soon"
            \/ faults' = faults + 1
  <1> DEFINE a(fate) == [test |-> t, analysis |-> analysis, from |-> AnswerEp(t, s),
                         fate |-> fate,
                         mapped |-> IF nat.servers = "old" THEN 0
                                    ELSE NatPort(Sock(t), TestEp(t, s))]
  <1>1. AnswerEp(t, s).srv = s
    BY EndpointsOK
  <1>2. /\ pinholes' = [pinholes EXCEPT ![Sock(t)] = @ \union {TestEp(t, s)}]
        /\ \/ down /\ net' = net /\ faults' = faults
           \/ net' = net \union {a("soon")} /\ faults' = faults
           \/ faults' = faults + 1 /\ net' \in {net, net \union {a("late")}}
        /\ UNCHANGED <<nat, epoch, outages, down>>
    BY DEF Transmit
  <1>3. Sock(t) \in Socket
    BY DEF Sock, Socket
  <1>4. ASSUME NEW f
        PROVE  /\ a(f).test = t /\ a(f).analysis = analysis
               /\ a(f).from = AnswerEp(t, s) /\ a(f).fate = f
               /\ a(f).from.srv = s /\ a(f).mapped = Told(nat, epoch, a(f))
    <2>1. NatPort(Sock(t), TestEp(t, s)) = PortOf(nat, epoch, Sock(t), TestEp(t, s))
      BY DEF NatPort, PortOf
    <2>. QED  BY <2>1, <1>1 DEF Told
  <1>. HIDE DEF a
  <1>5. /\ \A k \in Socket : pinholes[k] \subseteq pinholes'[k]
        /\ TestEp(t, s) \in pinholes'[Sock(t)]
    BY <1>2, <1>3 DEF Types
  <1>6. /\ \A m \in net' : \/ m \in net
                           \/ /\ m.test = t /\ m.analysis = analysis
                              /\ m.from = AnswerEp(t, s) /\ m.from.srv = s
                              /\ m.mapped = Told(nat, epoch, m)
        /\ \A m \in net : m \in net'
    BY <1>2, <1>4
  <1>7. /\ faults' \in Nat /\ faults <= faults'
        /\ \/ down
           \/ \E m \in net' : m.test = t /\ m.analysis = analysis /\ m.fate = "soon"
           \/ faults' = faults + 1
    <2>1. CASE net' = net \union {a("soon")} /\ faults' = faults
      <3>1. a("soon") \in net'
        BY <2>1
      <3>. QED  BY <2>1, <3>1, <1>4
    <2>2. CASE down /\ net' = net /\ faults' = faults
      BY <2>2
    <2>3. CASE faults' = faults + 1
      BY <2>3
    <2>. QED  BY <1>2, <2>1, <2>2, <2>3
  <1>. QED  BY <1>2, <1>5, <1>6, <1>7

(* The NAT lets in every answer that is heeded. *)
LEMMA HeededPasses ==
  ASSUME Types, AnswersInv, Running, NEW m \in net, m.analysis = analysis,
         m.test # Initial, Heeded(m.test)
  PROVE  Passes(Sock(m.test), m.from)
  <1> DEFINE d == TestEp(m.test, server)
  <1>1. m.test \in Tests
    BY DEF Types, Answer
  <1>2. d \in pinholes[Sock(m.test)] /\ m.from = AnswerEp(m.test, server)
    BY DEF AnswersInv
  <1>3. nat.filtering \in Behaviours
    BY StunAssumption DEF Types
  <1>4. CASE m.test \notin {4, 5}
    <2>1. m.from = d
      BY <1>1, <1>2, <1>4 DEF AnswerEp, Tests
    <2>. HIDE DEF d
    <2>. QED  BY <1>2, <2>1 DEF Passes
  <1>5. CASE m.test = 4
    <2>1. <<d.srv, d.addr>> = <<m.from.srv, m.from.addr>>
      BY <1>2, <1>5 DEF AnswerEp, TestEp, Ep
    <2>2. nat.filtering # "PORT_DEPENDENT"
      BY <1>5 DEF Heeded
    <2>. HIDE DEF d
    <2>. QED  BY <1>2, <1>3, <2>1, <2>2 DEF Passes, Behaviours
  <1>6. CASE m.test = 5
    <2>1. nat.filtering = "INDEPENDENT"
      BY <1>6 DEF Heeded
    <2>. HIDE DEF d
    <2>. QED  BY <1>2, <2>1 DEF Passes
  <1>. QED  BY <1>4, <1>5, <1>6

(* No port is 0. *)
LEMMA ToldIsPort ==
  ASSUME Types, NEW t \in Tests, NEW s \in Nat, NEW k
  PROVE  PortOf(nat, epoch, k, TestEp(t, s)) # 0
  <1>1. TestEp(t, s) \in Endpoint
    BY EndpointsOK
  <1>2. NatPort(k, TestEp(t, s)) = PortOf(nat, epoch, k, TestEp(t, s))
    BY DEF NatPort, PortOf
  <1>. HIDE DEF PortOf
  <1>. QED  BY <1>1, <1>2, PortsAreNumbers

-----------------------------------------------------------------------------

(* nabto_stun_set_next_test keeps the tally. *)
LEMMA SetNextTally ==
  ASSUME Counts, NEW ts, Ready(ts), SetNextTest(ts), faults' \in Nat,
         \A t \in Parallel : /\ Heeded(t)' => Tally(ts[t], faults', OnTime(t)')
                             /\ (OnTime(t)' /\ ts[t].state = "SENT" => ts[t].age = 0),
         ~OnTime(Defect)'
  PROVE  TallyInv'
  <1>1. nextTimeout \in 0..SendTimeout
    BY DEF Counts, TypeOK
  <1>2. Ready(tests') /\ SameBut(tests', ts)
    BY <1>1, SetNextTestOK
  <1>3. /\ tests' = GiveUp(ts, GivenUp(ts)) /\ ts \in [Tests -> Test]
        /\ tests' \in [Tests -> Test]
    BY <1>2 DEF SetNextTest, Ready
  <1>4. \A t \in Parallel : t \notin GivenUp(ts) => tests'[t] = ts[t]
    <2>1. \A t \in Tests : t \notin GivenUp(ts) => GiveUp(ts, GivenUp(ts))[t] = ts[t]
      BY <1>3, GiveUpKeeps
    <2>. QED  BY <2>1, <1>3, TestNumbers
  <1>5. ASSUME NEW t \in Parallel, Heeded(t)'
        PROVE  Tally(tests'[t], faults', OnTime(t)')
    <2>0. Tally(ts[t], faults', OnTime(t)')
      BY <1>5
    <2>1. CASE t \notin GivenUp(ts)
      BY <2>0, <2>1, <1>4
    <2>2. CASE t \in GivenUp(ts)
      <3>1. ts[t].retransmissions >= MaxRetransmissions(t)
        BY <2>2 DEF GivenUp, Exhausted
      <3>2. t \in Tests /\ MaxRetransmissions(t) \in Nat
        BY TestNumbers, LimitsOK
      <3>3. ts[t].retransmissions \in Nat /\ ts[t].retransmissions <= faults' + 1
        BY <3>2, <2>0, <1>3 DEF Tally, Test
      <3>4. ~RetriesLeft(faults')
        BY <3>1, <3>2, <3>3 DEF RetriesLeft
      <3>5. /\ tests'[t].retransmissions = ts[t].retransmissions
            /\ tests'[t].state \in {ts[t].state, "FAILED"}
        BY <3>2, <1>2 DEF SameBut
      <3>. QED  BY <2>0, <3>4, <3>5 DEF Tally
    <2>. QED  BY <2>1, <2>2
  <1>6. ASSUME NEW t \in Parallel
        PROVE  (OnTime(t)' /\ tests'[t].state = "SENT" => tests'[t].age = 0)
    <2>1. /\ tests'[t].age = ts[t].age
          /\ tests'[t].state \in {ts[t].state, "FAILED"}
      BY <1>2, TestNumbers DEF SameBut
    <2>2. (OnTime(t)' /\ ts[t].state = "SENT" => ts[t].age = 0)
      OBVIOUS
    <2>. QED  BY <2>1, <2>2
  <1>7. state' = "TESTING" /\ Sending' => Due(tests'[nextTest'])
    <2>1. CASE \E t \in Unsent(tests') :
                 /\ t = Min(Unsent(tests'))
                 /\ state' = "TESTING" /\ nextTest' = t /\ nextEvent' = Event(t)
                 /\ UNCHANGED nextTimeout
      BY <2>1 DEF Unsent, Due
    <2>2. CASE state' = "DEFECT_ROUTER_TEST"
      BY <2>2
    <2>3. CASE /\ Unsent(tests') = {} /\ Outstanding(tests') # {}
               /\ state' = "TESTING" /\ nextTest' = Oldest(tests')
               /\ \E waited \in {tests'[nextTest'].age} :
                    IF waited >= SendTimeout
                    THEN nextEvent' = Event(nextTest') /\ nextTimeout' = 0
                    ELSE nextEvent' = "WAIT" /\ nextTimeout' = SendTimeout - waited
      <3>1. \A t \in Tests : tests'[t].age <= SendTimeout + MaxLateness
        BY <1>2 DEF Ready, Bounded
      <3>2. nextTest' \in Outstanding(tests')
        <4>1. SendTimeout + MaxLateness \in Nat
          BY LimitsOK
        <4>. QED  BY <2>3, <3>1, <4>1, <1>3, OldestIsOutstanding
      <3>3. tests'[nextTest'].state = "SENT"
        BY <3>2 DEF Outstanding
      <3>4. Sending' => tests'[nextTest'].age >= SendTimeout
        BY <2>3 DEF Sending
      <3>. QED  BY <3>3, <3>4 DEF Due
    <2>. QED  BY <2>1, <2>2, <2>3 DEF SetNextTest
  <1>8. ASSUME state' = "DEFECT_ROUTER_TEST", RetriesLeft(faults'),
               NEW t \in Parallel, Heeded(t)'
        PROVE  tests'[t].state = "COMPLETED"
    <2>1. Unsent(tests') = {} /\ Outstanding(tests') = {}
      BY <1>8 DEF SetNextTest
    <2>2. tests'[t].state # "NONE" /\ tests'[t].state # "SENT"
      BY <2>1 DEF Unsent, Outstanding
    <2>3. tests'[t].state # "FAILED"
      BY <1>5, <1>8 DEF Tally
    <2>4. tests'[t] \in Test
      BY <1>3, TestNumbers
    <2>. QED  BY <2>2, <2>3, <2>4 DEF Test
  <1>9. tests'[Defect].retransmissions = 0
    BY <1>2 DEF Ready
  <1>10. tests'[Defect].retransmissions <= faults' + 1 /\ tests'[Defect].retransmissions <= faults'
    <2>1. \A f \in Nat : 0 <= f + 1 /\ 0 <= f
      OBVIOUS
    <2>. QED  BY <2>1, <1>9
  <1>. QED  BY <1>5, <1>6, <1>7, <1>8, <1>10 DEF TallyInv

(* A step that leaves the client alone and takes no answer on time from a  *)
(* test that heeds it.                                                     *)
LEMMA TallyKept ==
  ASSUME Counts, TallyInv, UNCHANGED <<client, nat, epoch, outages>>,
         faults \in Nat, faults' \in Nat, faults <= faults',
         \A t \in Tests : OnTime(t)' => OnTime(t),
         \A t \in Tests \ {Initial} : 
           OnTime(t) /\ Heeded(t) /\ (state = "TESTING" <=> t # Defect) => OnTime(t)',
         state \in {"TESTING", "DEFECT_ROUTER_TEST"}
  PROVE  TallyInv'
  <1>0. /\ tests' = tests /\ state' = state /\ nextEvent' = nextEvent
        /\ nextTest' = nextTest /\ nextTimeout' = nextTimeout /\ UNCHANGED <<nat, epoch>>
        /\ outages' = outages /\ (Sending' <=> Sending)
    BY DEF client, Sending
  <1>1. \A t \in Tests : Heeded(t)' <=> Heeded(t)
    BY <1>0 DEF Heeded
  <1>2. tests \in [Tests -> Test]
    BY DEF Counts, Types
  <1>. SUFFICES ASSUME outages = 0 PROVE TallyInv'
    BY <1>0 DEF TallyInv
  <1>3. CASE state = "TESTING"
    <2>1. ASSUME NEW t \in Parallel
          PROVE  /\ Heeded(t)' => Tally(tests'[t], faults', OnTime(t)')
                 /\ (OnTime(t)' /\ tests'[t].state = "SENT" => tests'[t].age = 0)
      <3>1. t \in Tests /\ t # Initial /\ t # Defect
        BY TestNumbers
      <3>2. /\ Heeded(t) => Tally(tests[t], faults, OnTime(t))
            /\ (OnTime(t) /\ tests[t].state = "SENT" => tests[t].age = 0)
        BY <1>3 DEF TallyInv
      <3>3. (OnTime(t)' /\ tests'[t].state = "SENT" => tests'[t].age = 0)
        BY <3>1, <3>2, <1>0
      <3>4. tests[t].retransmissions \in Nat
        BY <3>1, <1>2 DEF Test
      <3>5. RetriesLeft(faults') => RetriesLeft(faults)
        BY FewerFaults
      <3>6. OnTime(t) /\ Heeded(t) => OnTime(t)'
        BY <3>1, <1>3
      <3>7. Heeded(t)' => Tally(tests'[t], faults', OnTime(t)')
        BY <3>1, <3>2, <3>4, <3>5, <3>6, <1>0, <1>1 DEF Tally
      <3>. QED  BY <3>3, <3>7
    <2>. QED  BY <2>1, <1>0, <1>3 DEF TallyInv
  <1>4. CASE state = "DEFECT_ROUTER_TEST"
    <2>1. OnTime(Defect) <=> OnTime(Defect)'
      <3>1. Heeded(Defect) /\ Defect \in Tests \ {Initial} /\ Defect \in Tests
        BY TestNumbers DEF Heeded
      <3>. QED  BY <3>1, <1>4
    <2>2. tests[Defect].retransmissions \in Nat
      BY <1>2, TestNumbers DEF Test
    <2>3. RetriesLeft(faults') => RetriesLeft(faults)
      BY FewerFaults
    <2>4. /\ tests[Defect].retransmissions <= faults + 1
          /\ tests[Defect].retransmissions <= faults \/ OnTime(Defect)
          /\ OnTime(Defect) => nextEvent = "WAIT" /\ nextTimeout = SendTimeout
          /\ RetriesLeft(faults) =>
               \A t \in Parallel : Heeded(t) => tests[t].state = "COMPLETED"
      BY <1>4 DEF TallyInv
    <2>5. /\ tests'[Defect].retransmissions <= faults' + 1
          /\ tests'[Defect].retransmissions <= faults' \/ OnTime(Defect)'
      BY <1>0, <2>1, <2>2, <2>4
    <2>6. RetriesLeft(faults') =>
            \A t \in Parallel : Heeded(t)' => tests'[t].state = "COMPLETED"
      BY <1>0, <1>1, <2>3, <2>4, TestNumbers
    <2>. QED  BY <2>1, <2>4, <2>5, <2>6, <1>0, <1>4 DEF TallyInv
  <1>. QED  BY <1>3, <1>4
-----------------------------------------------------------------------------
(* The answers under way.                                                  *)

(* A repeated answer is the same answer, and is late. *)
LEMMA RepeatedAnswers ==
  ASSUME Types, NEW m \in net, Deliver(m)
  PROVE  /\ \A x \in net' : \E y \in net :
              /\ x.test = y.test /\ x.analysis = y.analysis
              /\ x.from = y.from /\ x.mapped = y.mapped
         /\ \A x \in net' : x.fate = "soon" => x \in net
         /\ \A y \in net : y # m => y \in net'
         /\ UNCHANGED <<nat, epoch, pinholes, outages, down>>
         /\ faults' = faults \/ faults' = faults + 1
  <1> DEFINE again == [m EXCEPT !.fate = "late"]
  <1>1. m \in Answer
    BY DEF Types
  <1>2. /\ again.test = m.test /\ again.analysis = m.analysis /\ again.from = m.from
        /\ again.mapped = m.mapped /\ again.fate = "late"
    BY <1>1 DEF Answer
  <1>3. /\ net' \in {net \ {m}, (net \ {m}) \union {again}}
        /\ UNCHANGED <<nat, epoch, pinholes, outages, down>>
        /\ faults' = faults \/ faults' = faults + 1
    BY DEF Deliver
  <1>. HIDE DEF again
  <1>. QED  BY <1>2, <1>3

(* Steps of one analysis. *)
LEMMA AnswersKept ==
  ASSUME AnswersInv, UNCHANGED <<nat, epoch>>, analysis' = analysis,
         faults' \in Nat, outages' \in Nat, down' => outages' > 0,
         \A k \in Socket : pinholes[k] \subseteq pinholes'[k],
         \A x \in net' :
           \/ \E y \in net : /\ x.test = y.test /\ x.analysis = y.analysis
                            /\ x.from = y.from /\ x.mapped = y.mapped
           \/ /\ x.analysis = analysis /\ x.mapped = Told(nat, epoch, x)
              /\ x.test # Initial =>
                   /\ state # "INITIAL_TEST" /\ x.from = AnswerEp(x.test, server)
                   /\ TestEp(x.test, server) \in pinholes'[Sock(x.test)]
              /\ x.test = Defect => state # "TESTING",
         server' = server \/ state = "INITIAL_TEST",
         Running' => Running,
         state' = "INITIAL_TEST" => state = "INITIAL_TEST",
         state' = "TESTING" => state \in {"INITIAL_TEST", "TESTING"},
         analysis \in Nat
  PROVE  AnswersInv'
  <1>1. ASSUME NEW x \in net'
        PROVE  /\ x.analysis <= analysis
               /\ x.analysis = analysis /\ Running =>
                    /\ x.mapped = Told(nat, epoch, x)
                    /\ x.test # Initial =>
                         /\ state # "INITIAL_TEST" /\ x.from = AnswerEp(x.test, server)
                         /\ TestEp(x.test, server) \in pinholes'[Sock(x.test)]
                    /\ x.test = Defect => state # "TESTING"
    <2>1. ASSUME NEW y \in net, x.test = y.test, x.analysis = y.analysis,
                 x.from = y.from, x.mapped = y.mapped
          PROVE  /\ x.analysis <= analysis
                 /\ x.analysis = analysis /\ Running =>
                      /\ x.mapped = Told(nat, epoch, x)
                      /\ x.test # Initial =>
                           /\ state # "INITIAL_TEST" /\ x.from = AnswerEp(x.test, server)
                           /\ TestEp(x.test, server) \in pinholes'[Sock(x.test)]
                      /\ x.test = Defect => state # "TESTING"
      <3>1. Told(nat, epoch, x) = Told(nat, epoch, y)
        BY <2>1 DEF Told
      <3>2. Sock(x.test) \in Socket
        BY DEF Sock, Socket
      <3>. QED  BY <2>1, <3>1, <3>2 DEF AnswersInv
    <2>2. \A a \in Nat : a <= a
      OBVIOUS
    <2>. QED  BY <2>1, <2>2
  <1>2. ASSUME NEW x \in net', x.analysis = analysis, Running, x.test # Initial
        PROVE  /\ state' # "INITIAL_TEST" /\ server' = server
               /\ x.test = Defect => state' # "TESTING"
    BY <1>1, <1>2
  <1>3. Defect # Initial
    BY TestNumbers
  <1>. QED  BY <1>1, <1>2, <1>3 DEF AnswersInv

LEMMA AsyncAnalyzeAnswers ==
  ASSUME Counts, AnswersInv, NEW s \in BOOLEAN, AsyncAnalyze(s)
  PROVE  AnswersInv'
  <1>1. analysis \in Nat /\ \A m \in net : m.analysis \in Nat
    BY DEF Counts, Types, Answer
  <1>2. /\ analysis' = analysis + 1 /\ net' = net /\ faults' = faults
        /\ outages' = outages /\ down' = down
    BY DEF AsyncAnalyze, world
  <1>3. \A m \in net' : m.analysis <= analysis' /\ m.analysis # analysis'
    BY <1>1, <1>2 DEF AnswersInv
  <1>. QED  BY <1>2, <1>3 DEF AnswersInv

LEMMA ForgetAnswers ==
  ASSUME AnswersInv, Forget
  PROVE  AnswersInv'
  <1>1. UNCHANGED <<client, net, faults, outages, down>> /\ ~Running
    BY DEF Forget, Idle, Running
  <1>2. ~Running'
    BY <1>1 DEF client, Running
  <1>. QED  BY <1>1, <1>2 DEF client, AnswersInv

LEMMA SendAnswers ==
  ASSUME Counts, AnswersInv, SendInitial \/ SendParallel \/ SendDefect
  PROVE  AnswersInv'
  <1>1. /\ server \in Nat /\ initialTestsSent + 1 \in Nat /\ Types /\ faults \in Nat
        /\ analysis \in Nat
    BY LimitsOK DEF Counts, Types, TypeOK, AnswersInv
  <1>2. ASSUME NEW t \in Tests, NEW s \in Nat, Transmit(t, s),
               analysis' = analysis, server' = server,
               t # Initial => s = server /\ state # "INITIAL_TEST",
               t = Defect => state # "TESTING", Running' => Running,
               state' = "INITIAL_TEST" => state = "INITIAL_TEST",
               state' = "TESTING" => state \in {"INITIAL_TEST", "TESTING"}
        PROVE  AnswersInv'
    <2>1. /\ \A m \in net' : \/ m \in net
                            \/ /\ m.test = t /\ m.analysis = analysis
                               /\ m.from = AnswerEp(t, s) /\ m.from.srv = s
                               /\ m.mapped = Told(nat, epoch, m)
          /\ \A k \in Socket : pinholes[k] \subseteq pinholes'[k]
          /\ TestEp(t, s) \in pinholes'[Sock(t)]
          /\ UNCHANGED <<nat, epoch, outages, down>>
          /\ faults' \in Nat
      BY <1>1, <1>2, TransmitCosts
    <2>2. outages' \in Nat /\ (down' => outages' > 0)
      BY <2>1 DEF AnswersInv
    <2>. QED  BY <2>1, <2>2, <1>1, <1>2, AnswersKept
  <1>3. CASE SendInitial
    BY <1>1, <1>2, <1>3, TestNumbers DEF SendInitial, Running
  <1>4. CASE SendParallel
    <2>1. /\ nextTest \in Tests /\ nextTest # Defect /\ state = "TESTING"
          /\ Transmit(nextTest, server) /\ analysis' = analysis /\ server' = server
          /\ state' # "INITIAL_TEST" /\ Running
      BY <1>4, TestNumbers DEF SendParallel, SetNextTest, Counts, BudgetInv, Running
    <2>. QED  BY <2>1, <1>1, <1>2
  <1>5. CASE SendDefect
    BY <1>1, <1>2, <1>5, TestNumbers DEF SendDefect, Running
  <1>. QED  BY <1>3, <1>4, <1>5

LEMMA RestAnswers ==
  ASSUME Counts, AnswersInv,
         WaitInitial \/ WaitParallel \/ WaitDefect \/ Tick \/ GoDown \/ ComeUp
           \/ (\E m \in net : Filtered(m)) \/ UNCHANGED vars
  PROVE  AnswersInv'
  <1>1. UNCHANGED <<nat, epoch, analysis, server>> /\ net' \subseteq net
        /\ pinholes' = pinholes /\ faults' = faults /\ analysis \in Nat
    BY DEF WaitInitial, WaitParallel, WaitDefect, Tick, GoDown, ComeUp, Filtered, vars,
           world, client, Counts, Types
  <1>2. outages' \in Nat /\ (down' => outages' > 0)
    <2>1. CASE GoDown
      BY <2>1 DEF GoDown, AnswersInv
    <2>2. CASE ~GoDown
      <3>1. outages' = outages /\ (down' => down)
        BY <2>2 DEF WaitInitial, WaitParallel, WaitDefect, Tick, ComeUp, Filtered, vars, world
      <3>. QED  BY <3>1 DEF AnswersInv
    <2>. QED  BY <2>1, <2>2
  <1>3. /\ state' = "INITIAL_TEST" => state = "INITIAL_TEST"
        /\ state' = "TESTING" => state = "TESTING"
        /\ Running' => Running
    <2>1. CASE WaitInitial
      BY <2>1 DEF WaitInitial, Running
    <2>2. CASE WaitParallel
      BY <2>2 DEF WaitParallel, SetNextTest, Running
    <2>3. CASE WaitDefect
      BY <2>3 DEF WaitDefect, ComputeResultAndStop, Running
    <2>4. CASE ~WaitInitial /\ ~WaitParallel /\ ~WaitDefect
      BY <2>4 DEF Tick, GoDown, ComeUp, Filtered, vars, client, Running
    <2>. QED  BY <2>1, <2>2, <2>3, <2>4
  <1>4. faults' \in Nat
    BY <1>1 DEF AnswersInv
  <1>. QED  BY <1>1, <1>2, <1>3, <1>4, AnswersKept

LEMMA DeliverAnswers ==
  ASSUME Counts, AnswersInv, NEW m \in net, Deliver(m)
  PROVE  AnswersInv'
  <1>1. /\ \A x \in net' : \E y \in net :
              /\ x.test = y.test /\ x.analysis = y.analysis
              /\ x.from = y.from /\ x.mapped = y.mapped
        /\ UNCHANGED <<nat, epoch, pinholes, outages, down>>
        /\ faults' = faults \/ faults' = faults + 1
    BY RepeatedAnswers DEF Counts
  <1>2. faults' \in Nat /\ outages' \in Nat /\ (down' => outages' > 0) /\ analysis \in Nat
    BY <1>1 DEF AnswersInv, Counts, Types
  <1>3. HandlePacket(m)
    BY DEF Deliver
  <1>4. /\ analysis' = analysis
        /\ server' = server \/ state = "INITIAL_TEST"
        /\ Running' => Running
        /\ state' = "INITIAL_TEST" => state = "INITIAL_TEST"
        /\ state' = "TESTING" => state \in {"INITIAL_TEST", "TESTING"}
    <2>1. CASE HandleInitial(m)
      BY <2>1 DEF HandleInitial, Running
    <2>2. CASE HandleParallel(m)
      BY <2>2 DEF HandleParallel, SetNextTest, Running
    <2>3. CASE HandleDefect(m)
      BY <2>3 DEF HandleDefect, ComputeResultAndStop, Running
    <2>4. CASE Unmatched(m)
      BY <2>4 DEF Unmatched, client, Running
    <2>. QED  BY <1>3, <2>1, <2>2, <2>3, <2>4 DEF HandlePacket
  <1>. QED  BY <1>1, <1>2, <1>4, AnswersKept

(* The steps, with each of those that leave the client alone. *)
LEMMA StepNames ==
  ASSUME [Next]_vars
  PROVE  \/ \E s \in BOOLEAN : AsyncAnalyze(s)
         \/ SendInitial \/ SendParallel \/ SendDefect
         \/ WaitInitial \/ WaitParallel \/ WaitDefect
         \/ \E m \in net : Deliver(m)
         \/ \E m \in net : Filtered(m)
         \/ Tick \/ Forget \/ GoDown \/ ComeUp \/ UNCHANGED vars
  BY DEF Next, Loop

LEMMA AnswersNext ==
  ASSUME Counts, AnswersInv, [Next]_vars
  PROVE  AnswersInv'
  BY StepNames, AsyncAnalyzeAnswers, ForgetAnswers, SendAnswers, RestAnswers, DeliverAnswers
-----------------------------------------------------------------------------
(* The ports.                                                              *)

LEMMA LearnedKept ==
  ASSUME LearnedInv, KeptBut(0), UNCHANGED <<nat, epoch, analysis, server>>,
         state' \in {"TESTING", "DEFECT_ROUTER_TEST"} =>
           state \in {"TESTING", "DEFECT_ROUTER_TEST"}
  PROVE  LearnedInv'
  <1>1. \A t \in Tests : t \in Tests \ {0}
    BY DEF Tests
  <1>2. \A t \in Tests : /\ tests'[t].mapped = tests[t].mapped
                         /\ tests'[t].state = "COMPLETED" => tests[t].state = "COMPLETED"
    BY <1>1 DEF KeptBut
  <1>. QED  BY <1>2, TestNumbers DEF LearnedInv

LEMMA OthersLearned ==
  ASSUME Counts, LearnedInv,
         \/ SendInitial \/ SendParallel \/ SendDefect
         \/ WaitInitial \/ WaitParallel \/ WaitDefect \/ Tick \/ Aside
  PROVE  LearnedInv'
  <1>1. KeptBut(0)
    BY SendInitialCounts, SendParallelCounts, SendDefectCounts, WaitInitialCounts,
       WaitParallelCounts, WaitDefectCounts, TickCounts, AsideCounts
  <1>2. UNCHANGED <<nat, epoch, analysis, server>>
    BY DEF SendInitial, SendParallel, SendDefect, Transmit, WaitInitial, WaitParallel,
           WaitDefect, Tick, Aside, world, client
  <1>3. state' \in {"TESTING", "DEFECT_ROUTER_TEST"} =>
          state \in {"TESTING", "DEFECT_ROUTER_TEST"}
    BY DEF SendInitial, SendParallel, SendDefect, WaitInitial, WaitParallel,
           WaitDefect, ComputeResultAndStop, Tick, Aside, client
  <1>. QED  BY <1>1, <1>2, <1>3, LearnedKept

(* What an answer says. *)
LEMMA AnswerTells ==
  ASSUME Counts, AnswersInv, FilterInv, PortInv, Running, NEW m \in net,
         m.analysis = analysis, nat.servers = "full"
  PROVE  /\ m.mapped = PortOf(nat, epoch, Sock(m.test), TestEp(m.test, m.from.srv))
         /\ m.mapped # 0
         /\ m.test # Initial => m.from.srv = server
  <1>1. m \in Answer /\ m.test \in Tests /\ m.from.srv \in Nat /\ server \in Nat
    BY DEF Counts, Types, Answer, Endpoint
  <1>2. m.mapped = PortOf(nat, epoch, Sock(m.test), TestEp(m.test, m.from.srv))
    BY DEF AnswersInv, Told
  <1>3. m.test # Initial => m.from.srv = server
    BY <1>1, EndpointsOK DEF AnswersInv
  <1>. QED  BY <1>1, <1>2, <1>3, ToldIsPort DEF Counts

LEMMA DeliverLearned ==
  ASSUME Counts, AnswersInv, FilterInv, PortInv, LearnedInv, NEW m \in net, Deliver(m)
  PROVE  LearnedInv'
  <1>1. /\ net' \subseteq Answer /\ UNCHANGED <<nat, epoch>> /\ pinholes' = pinholes
        /\ HandlePacket(m) /\ m \in Answer
    BY DeliverOK DEF Counts, Types
  <1>2. CASE HandleInitial(m)
    <2>1. SUFFICES ASSUME state' \in {"TESTING", "DEFECT_ROUTER_TEST"} PROVE LearnedInv'
      BY DEF LearnedInv
    <2>2. /\ tests'[Initial].mapped = Heard(Initial, m)
          /\ nat.servers = "full" /\ server' = m.from.srv
          /\ m.test = Initial /\ m.analysis = analysis /\ analysis' = analysis
      BY <1>1, <1>2, <2>1, HandleInitialCounts DEF HandleInitial, CheckTransactionId
    <2>3. Sock(Initial) = "PRIMARY"
      BY DEF Sock, Initial
    <2>4. tests'[Initial].mapped =
            PortOf(nat, epoch, "PRIMARY", TestEp(Initial, server'))
      BY <1>2, <2>2, <2>3, AnswerTells DEF HandleInitial, Running, Heard
    <2>5. \A t \in Tests \ {Initial} : tests'[t].state # "COMPLETED"
      <3>1. PICK new : /\ Ready(new) /\ SetNextTest(new)
                       /\ \A t \in Tests : t # Initial => new[t].state = "NONE"
        BY <1>1, <1>2, <2>1, FirstTests
      <3>2. SameBut(tests', new)
        BY <3>1, SetNextTestOK DEF Counts, TypeOK
      <3>. QED  BY <3>1, <3>2 DEF SameBut
    <2>. QED  BY <1>1, <2>2, <2>4, <2>5 DEF LearnedInv
  <1>3. CASE HandleParallel(m)
    <2>1. /\ KeptBut(m.test) /\ m.test \in Parallel
          /\ tests'[m.test].mapped = Heard(m.test, m)
          /\ state = "TESTING" /\ m.analysis = analysis
          /\ analysis' = analysis /\ server' = server
      BY <1>1, <1>3, HandleParallelCounts DEF HandleParallel, CheckTransactionId
    <2>2. nat.servers = "full" /\ m.test # Initial
      BY <2>1, TestNumbers DEF LearnedInv
    <2>3. tests'[m.test].mapped = PortOf(nat, epoch, Sock(m.test), TestEp(m.test, server))
      BY <2>1, <2>2, AnswerTells DEF Heard, Running
    <2>4. \A t \in Tests \ {m.test} :
            /\ tests'[t].mapped = tests[t].mapped
            /\ tests'[t].state = "COMPLETED" => tests[t].state = "COMPLETED"
      BY <2>1 DEF KeptBut
    <2>5. tests'[Initial].mapped = PortOf(nat, epoch, "PRIMARY", TestEp(Initial, server))
      BY <2>1, <2>2, <2>4, TestNumbers DEF LearnedInv
    <2>6. ASSUME NEW t \in Tests \ {Initial}, tests'[t].state = "COMPLETED"
          PROVE  tests'[t].mapped = PortOf(nat, epoch, Sock(t), TestEp(t, server))
      BY <2>1, <2>3, <2>4, <2>6 DEF LearnedInv
    <2>. QED  BY <1>1, <2>1, <2>2, <2>5, <2>6 DEF LearnedInv
  <1>4. CASE HandleDefect(m)
    <2>1. state' = "COMPLETED"
      BY <1>4 DEF HandleDefect, ComputeResultAndStop
    <2>. QED  BY <2>1 DEF LearnedInv
  <1>5. CASE Unmatched(m)
    BY <1>1, <1>5 DEF Unmatched, client, LearnedInv
  <1>. QED  BY <1>1, <1>2, <1>3, <1>4, <1>5 DEF HandlePacket

LEMMA LearnedNext ==
  ASSUME Counts, AnswersInv, FilterInv, PortInv, LearnedInv, [Next]_vars
  PROVE  LearnedInv'
  <1>1. ASSUME NEW s \in BOOLEAN, AsyncAnalyze(s) PROVE LearnedInv'
    BY <1>1 DEF AsyncAnalyze, LearnedInv
  <1>2. ASSUME Forget PROVE LearnedInv'
    BY <1>2 DEF Forget, Idle, client, LearnedInv
  <1>. QED  BY <1>1, <1>2, StepKinds, OthersLearned, DeliverLearned
-----------------------------------------------------------------------------
(* The faults.                                                             *)

(* Faults and outages only grow in number. *)
LEMMA FaultsGrow ==
  ASSUME Counts, AnswersInv, [Next]_vars
  PROVE  /\ faults \in Nat /\ faults' \in Nat /\ faults <= faults'
         /\ outages' = 0 => outages = 0
  <1>1. faults \in Nat /\ outages \in Nat /\ server \in Nat /\ initialTestsSent + 1 \in Nat
    BY LimitsOK DEF AnswersInv, Counts, Types, TypeOK
  <1>2. \A f \in Nat : f <= f /\ f <= f + 1 /\ f + 1 \in Nat /\ f + 1 # 0
    OBVIOUS
  <1>3. CASE SendInitial \/ SendParallel \/ SendDefect
    <2>1. \E t \in Tests, s \in Nat : Transmit(t, s)
      BY <1>1, <1>3, TestNumbers
         DEF SendInitial, SendParallel, SendDefect, Counts, BudgetInv
    <2>2. PICK t \in Tests, s \in Nat : Transmit(t, s)
      BY <2>1
    <2>. QED  BY <2>2, <1>1, TransmitCosts DEF Counts
  <1>4. ASSUME NEW m \in net, Deliver(m)
        PROVE  /\ faults' = faults \/ faults' = faults + 1
               /\ outages' = outages
    BY <1>4, RepeatedAnswers DEF Counts
  <1>5. CASE GoDown
    BY <1>1, <1>2, <1>5 DEF GoDown
  <1>6. CASE WaitInitial \/ WaitParallel \/ WaitDefect \/ Tick \/ ComeUp \/ Forget
               \/ (\E m \in net : Filtered(m)) \/ UNCHANGED vars
               \/ (\E s \in BOOLEAN : AsyncAnalyze(s))
    BY <1>1, <1>2, <1>6 DEF WaitInitial, WaitParallel, WaitDefect, Tick, ComeUp, Forget, Filtered,
                            vars, world, AsyncAnalyze
  <1>. QED  BY <1>1, <1>2, <1>3, <1>4, <1>5, <1>6, StepNames

(* A transmission that finds no earlier one outstanding. *)
LEMMA TransmitTally ==
  ASSUME Types, faults \in Nat, ~down, NEW t \in Tests, NEW s \in Nat, Transmit(t, s),
         analysis' = analysis
  PROVE  /\ \A u \in Tests : u # t => (OnTime(u)' <=> OnTime(u))
         /\ \A n \in Nat : n <= faults => n + 1 <= faults' \/ OnTime(t)'
         /\ faults' \in Nat /\ faults <= faults'
  <1>1. /\ \A m \in net' : m \in net \/ m.test = t
        /\ \A m \in net : m \in net'
        /\ faults' \in Nat /\ faults <= faults'
        /\ \/ \E m \in net' : m.test = t /\ m.analysis = analysis /\ m.fate = "soon"
           \/ faults' = faults + 1
    BY TransmitCosts
  <1>2. \A u \in Tests : u # t => (OnTime(u)' <=> OnTime(u))
    BY <1>1 DEF OnTime
  <1>3. OnTime(t)' \/ faults' = faults + 1
    BY <1>1 DEF OnTime
  <1>4. faults' = faults + 1 => \A n \in Nat : n <= faults => n + 1 <= faults'
    OBVIOUS
  <1>. QED  BY <1>1, <1>2, <1>3, <1>4

LEMMA SendParallelTally ==
  ASSUME Counts, AnswersInv, TallyInv, SendParallel
  PROVE  TallyInv'
  <1>0. PICK x : x = nextTest
    OBVIOUS
  <1> DEFINE r == Transmitted(tests[x])
             ts == [tests EXCEPT ![x] = r]
  <1>1. /\ tests \in [Tests -> Test] /\ x \in Tests /\ x \in Parallel
        /\ tests[x] \in Test /\ Types /\ server \in Nat /\ faults \in Nat
    BY <1>0, TestNumbers DEF SendParallel, Counts, Types, BudgetInv, AnswersInv
  <1>2. /\ r \in Test /\ r.state = "SENT" /\ r.age = 0
        /\ r.retransmissions = tests[x].retransmissions + 1
    BY <1>1, RecordsOK
  <1>3. /\ SetNextTest(ts) /\ Transmit(x, server) /\ state = "TESTING" /\ Sending
        /\ analysis' = analysis
    BY <1>0 DEF SendParallel
  <1>. HIDE DEF r
  <1>4. /\ ts \in [Tests -> Test] /\ ts[x] = r
        /\ \A u \in Tests : u # x => ts[u] = tests[u]
    BY <1>1, <1>2, PutOK
  <1>. HIDE DEF ts
  <1>5. Ready(ts)
    <2>1. r.retransmissions <= MaxRetransmissions(x)
      <3>1. ~Exhausted(tests[x], x)
        BY <1>0 DEF SendParallel, Counts, BudgetInv
      <3>2. tests[x].retransmissions \in Nat
        BY <1>1 DEF Test
      <3>. QED  BY <3>1, <3>2, <1>1, <1>2, LimitsOK DEF Exhausted
    <2>2. 0 <= SendTimeout + MaxLateness
      BY LimitsOK
    <2>3. Bounded(ts)
      BY <2>1, <2>2, <1>2, <1>4, CountsBound DEF Bounded
    <2>4. Ready(tests)
      BY ReadyTests DEF SendParallel
    <2>5. x # Defect
      BY <1>1, TestNumbers
    <2>. QED  BY <2>3, <2>4, <2>5, <1>2, <1>4, TestNumbers DEF Ready
  <1>6. UNCHANGED <<nat, epoch, outages, down>>
    BY <1>1, <1>3, TransmitCosts
  <1>. SUFFICES ASSUME outages = 0 PROVE TallyInv'
    BY <1>6 DEF TallyInv
  <1>7. ~down
    BY DEF AnswersInv
  <1>8. /\ \A u \in Tests : u # x => (OnTime(u)' <=> OnTime(u))
        /\ \A n \in Nat : n <= faults => n + 1 <= faults' \/ OnTime(x)'
        /\ faults' \in Nat /\ faults <= faults'
    BY <1>1, <1>3, <1>7, TransmitTally
  <1>9. \A t \in Parallel : Heeded(t) => Tally(tests[t], faults, OnTime(t))
    BY <1>3 DEF TallyInv
  <1>9a. /\ \A t \in Parallel : OnTime(t) /\ tests[t].state = "SENT" => tests[t].age = 0
         /\ Due(tests[x])
    BY <1>0, <1>3 DEF TallyInv
  <1>10. ASSUME NEW t \in Parallel, t # x
         PROVE  /\ Heeded(t)' => Tally(ts[t], faults', OnTime(t)')
                /\ (OnTime(t)' /\ ts[t].state = "SENT" => ts[t].age = 0)
    <2>1. t \in Tests /\ ts[t] = tests[t] /\ (OnTime(t)' <=> OnTime(t))
      BY <1>4, <1>8, <1>10, TestNumbers
    <2>2. Heeded(t)' <=> Heeded(t)
      BY <1>6 DEF Heeded
    <2>3. (OnTime(t)' /\ ts[t].state = "SENT" => ts[t].age = 0)
      <3>1. OnTime(t) /\ tests[t].state = "SENT" => tests[t].age = 0
        BY <1>9a
      <3>. QED  BY <2>1, <3>1
    <2>4. /\ tests[t].retransmissions \in Nat
          /\ RetriesLeft(faults') => RetriesLeft(faults)
      BY <1>1, <1>8, <2>1, FewerFaults DEF Test
    <2>5. Heeded(t)' => Tally(ts[t], faults', OnTime(t)')
      BY <2>1, <2>2, <2>4, <1>1, <1>8, <1>9 DEF Tally
    <2>. QED  BY <2>3, <2>5
  <1>11. Heeded(x)' => Tally(ts[x], faults', OnTime(x)')
    <2>1. SUFFICES ASSUME Heeded(x)
                   PROVE  Tally(ts[x], faults', OnTime(x)')
      BY <1>6 DEF Heeded
    <2>2. tests[x].retransmissions \in Nat
      BY <1>1 DEF Test
    <2>3. tests[x].retransmissions <= faults
      <3>1. CASE tests[x].state = "NONE"
        <4>1. tests[x].retransmissions = 0
          BY <3>1, <1>1, <1>3 DEF Counts, BudgetInv
        <4>. QED  BY <4>1, <1>1
      <3>2. CASE tests[x].state = "SENT" /\ tests[x].age >= SendTimeout
        <4>1. tests[x].age # 0
          BY <3>2, LimitsOK
        <4>2. ~OnTime(x)
          <5>1. OnTime(x) /\ tests[x].state = "SENT" => tests[x].age = 0
            BY <1>1, <1>9a
          <5>. QED  BY <3>2, <4>1, <5>1
        <4>. QED  BY <3>2, <4>2, <2>1, <1>1, <1>9 DEF Tally
      <3>. QED  BY <3>1, <3>2, <1>9a DEF Due
    <2>4. /\ ts[x].retransmissions = tests[x].retransmissions + 1
          /\ ts[x].state = "SENT"
      BY <1>2, <1>4
    <2>5. ts[x].retransmissions <= faults' \/ OnTime(x)'
      BY <2>2, <2>3, <2>4, <1>8
    <2>6. ts[x].retransmissions <= faults' + 1
      BY <2>2, <2>3, <2>4, <1>1, <1>8
    <2>. QED  BY <2>4, <2>5, <2>6 DEF Tally
  <1>12. (OnTime(x)' /\ ts[x].state = "SENT" => ts[x].age = 0)
    BY <1>2, <1>4
  <1>13. ~OnTime(Defect)'
    <2>1. ~OnTime(Defect)
      BY <1>3 DEF AnswersInv, OnTime, Running
    <2>2. Defect \in Tests /\ Defect # x
      BY <1>1, TestNumbers
    <2>. QED  BY <2>1, <2>2, <1>8
  <1>14. \A t \in Parallel : /\ Heeded(t)' => Tally(ts[t], faults', OnTime(t)')
                             /\ (OnTime(t)' /\ ts[t].state = "SENT" => ts[t].age = 0)
    BY <1>10, <1>11, <1>12
  <1>. QED  BY <1>3, <1>5, <1>8, <1>13, <1>14, SetNextTally

LEMMA SendDefectTally ==
  ASSUME Counts, AnswersInv, TallyInv, SendDefect
  PROVE  TallyInv'
  <1> DEFINE r == Transmitted(tests[Defect])
  <1>1. /\ tests \in [Tests -> Test] /\ Defect \in Tests /\ Defect \notin Parallel
        /\ tests[Defect] \in Test /\ Types /\ server \in Nat /\ faults \in Nat
    BY TestNumbers DEF Counts, Types, AnswersInv
  <1>2. r \in Test /\ r.retransmissions = tests[Defect].retransmissions + 1
    BY <1>1, RecordsOK
  <1>3. /\ tests' = [tests EXCEPT ![Defect] = r] /\ Transmit(Defect, server)
        /\ state = "DEFECT_ROUTER_TEST" /\ Sending /\ analysis' = analysis
        /\ state' = state /\ nextEvent' = "WAIT" /\ nextTimeout' = SendTimeout
    BY DEF SendDefect
  <1>. HIDE DEF r
  <1>4. /\ tests'[Defect] = r /\ \A u \in Tests : u # Defect => tests'[u] = tests[u]
    BY <1>1, <1>2, <1>3, PutOK
  <1>5. UNCHANGED <<nat, epoch, outages, down>>
    BY <1>1, <1>3, TransmitCosts
  <1>. SUFFICES ASSUME outages = 0 PROVE TallyInv'
    BY <1>5 DEF TallyInv
  <1>6. ~down
    BY DEF AnswersInv
  <1>7. /\ \A n \in Nat : n <= faults => n + 1 <= faults' \/ OnTime(Defect)'
        /\ faults' \in Nat /\ faults <= faults'
    BY <1>1, <1>3, <1>6, TransmitTally
  <1>8. ~OnTime(Defect)
    BY <1>3 DEF TallyInv, Sending
  <1>9. tests[Defect].retransmissions <= faults /\ tests[Defect].retransmissions \in Nat
    BY <1>1, <1>3, <1>8 DEF TallyInv, Test
  <1>10. tests'[Defect].retransmissions <= faults' \/ OnTime(Defect)'
    BY <1>2, <1>4, <1>7, <1>9
  <1>11. tests'[Defect].retransmissions <= faults' + 1
    BY <1>1, <1>2, <1>4, <1>7, <1>9
  <1>12. RetriesLeft(faults') => RetriesLeft(faults)
    BY <1>1, <1>7, FewerFaults
  <1>13. RetriesLeft(faults') =>
           \A t \in Parallel : Heeded(t)' => tests'[t].state = "COMPLETED"
    <2>1. RetriesLeft(faults) =>
            \A t \in Parallel : Heeded(t) => tests[t].state = "COMPLETED"
      BY <1>3 DEF TallyInv
    <2>2. \A t \in Parallel : Heeded(t)' <=> Heeded(t)
      BY <1>5 DEF Heeded
    <2>3. \A t \in Parallel : tests'[t] = tests[t]
      BY <1>1, <1>4, TestNumbers
    <2>. QED  BY <2>1, <2>2, <2>3, <1>12
  <1>. QED  BY <1>3, <1>10, <1>11, <1>13 DEF TallyInv

LEMMA WaitParallelTally ==
  ASSUME Counts, AnswersInv, TallyInv, WaitParallel
  PROVE  TallyInv'
  <1>1. /\ state = "TESTING" /\ SetNextTest(tests) /\ UNCHANGED world /\ analysis' = analysis
    BY DEF WaitParallel
  <1>2. UNCHANGED <<nat, epoch>> /\ net' = net /\ faults' = faults /\ outages' = outages
    BY <1>1 DEF world
  <1>. SUFFICES ASSUME outages = 0 PROVE TallyInv'
    BY <1>2 DEF TallyInv
  <1>3. \A t \in Tests : (OnTime(t)' <=> OnTime(t)) /\ (Heeded(t)' <=> Heeded(t))
    BY <1>1, <1>2 DEF OnTime, Heeded
  <1>4. ~OnTime(Defect)'
    <2>1. ~OnTime(Defect)
      BY <1>1 DEF AnswersInv, OnTime, Running
    <2>. QED  BY <2>1, <1>3, TestNumbers
  <1>5. ASSUME NEW t \in Parallel
        PROVE  /\ Heeded(t)' => Tally(tests[t], faults', OnTime(t)')
               /\ OnTime(t)' /\ tests[t].state = "SENT" => tests[t].age = 0
    <2>1. Heeded(t) => Tally(tests[t], faults, OnTime(t))
      BY <1>1 DEF TallyInv
    <2>2. (OnTime(t)' <=> OnTime(t)) /\ (Heeded(t)' <=> Heeded(t))
      BY <1>3, TestNumbers
    <2>3. OnTime(t)' /\ tests[t].state = "SENT" => tests[t].age = 0
      BY <1>1, <2>2 DEF TallyInv
    <2>. QED  BY <1>2, <2>1, <2>2, <2>3 DEF Tally
  <1>6. Ready(tests) /\ faults' \in Nat
    BY <1>1, <1>2, ReadyTests DEF AnswersInv
  <1>. QED  BY <1>1, <1>4, <1>5, <1>6, SetNextTally

LEMMA WaitDefectTally ==
  ASSUME Counts, AnswersInv, TallyInv, WaitDefect
  PROVE  TallyInv'
  <1>1. CASE state' = "COMPLETED"
    BY <1>1 DEF TallyInv
  <1>2. CASE state' # "COMPLETED"
    <2>1. /\ state = "DEFECT_ROUTER_TEST" /\ state' = state /\ tests' = tests
          /\ nextTimeout = 0 /\ analysis' = analysis /\ UNCHANGED world
      BY <1>2 DEF WaitDefect, ComputeResultAndStop, Waited
    <2>2. UNCHANGED <<nat, epoch>> /\ net' = net /\ faults' = faults /\ outages' = outages
      BY <2>1 DEF world
    <2>. SUFFICES ASSUME outages = 0 PROVE TallyInv'
      BY <2>2 DEF TallyInv
    <2>3. (OnTime(Defect)' <=> OnTime(Defect)) /\ \A t \in Parallel : Heeded(t)' <=> Heeded(t)
      BY <2>1, <2>2 DEF OnTime, Heeded, Defect
    <2>4. ~OnTime(Defect)
      BY <2>1, LimitsOK DEF TallyInv
    <2>. QED  BY <2>1, <2>2, <2>3, <2>4 DEF TallyInv
  <1>. QED  BY <1>1, <1>2

(* Time passes when no answer on time is under way. *)
LEMMA TickTally ==
  ASSUME Counts, AnswersInv, TallyInv, Tick
  PROVE  TallyInv'
  <1>1. /\ \A m \in net : m.fate # "soon"
        /\ tests' = [t \in Tests |-> IF t \in Parallel /\ tests[t].state = "SENT"
                                     THEN [tests[t] EXCEPT !.age = @ + 1] ELSE tests[t]]
        /\ UNCHANGED <<state, nextEvent, nextTest, analysis, world>>
    BY DEF Tick
  <1>2. UNCHANGED <<nat, epoch>> /\ net' = net /\ faults' = faults /\ outages' = outages
    BY <1>1 DEF world
  <1>. SUFFICES ASSUME outages = 0 PROVE TallyInv'
    BY <1>2 DEF TallyInv
  <1>3. \A t \in Tests : /\ ~OnTime(t) /\ ~OnTime(t)'
                         /\ Heeded(t)' <=> Heeded(t)
    BY <1>1, <1>2 DEF OnTime, Heeded
  <1>4. ASSUME NEW t \in Tests
        PROVE  /\ tests'[t].state = tests[t].state
               /\ tests'[t].retransmissions = tests[t].retransmissions
               /\ t \notin Parallel => tests'[t] = tests[t]
               /\ tests[t].age \in Nat /\ tests'[t].age \in Nat
               /\ tests[t].age <= tests'[t].age
    <2> DEFINE r == [tests[t] EXCEPT !.age = @ + 1]
    <2>1. tests[t] \in Test /\ tests[t].age \in Nat
      BY DEF Counts, Types, Test
    <2>2. /\ r.state = tests[t].state /\ r.age = tests[t].age + 1
          /\ r.retransmissions = tests[t].retransmissions
      BY <2>1 DEF Test
    <2>3. tests'[t] = IF t \in Parallel /\ tests[t].state = "SENT" THEN r ELSE tests[t]
      BY <1>1
    <2>. HIDE DEF r
    <2>. QED  BY <2>1, <2>2, <2>3
  <1>5. CASE state = "TESTING"
    <2>1. ASSUME NEW t \in Parallel
          PROVE  Heeded(t)' => Tally(tests'[t], faults', OnTime(t)')
      <3>1. Heeded(t) => Tally(tests[t], faults, OnTime(t))
        BY <1>5 DEF TallyInv
      <3>. QED  BY <3>1, <1>2, <1>3, <1>4, TestNumbers DEF Tally
    <2>2. Sending' => Due(tests'[nextTest'])
      <3>1. nextTest \in Tests /\ nextTest' = nextTest /\ (Sending' <=> Sending)
        BY <1>1, <1>5, TestNumbers DEF Counts, BudgetInv, Sending
      <3>2. /\ tests'[nextTest].state = tests[nextTest].state
            /\ tests[nextTest].age \in Nat /\ tests'[nextTest].age \in Nat
            /\ tests[nextTest].age <= tests'[nextTest].age
        BY <3>1, <1>4
      <3>3. Sending => Due(tests[nextTest])
        BY <1>5 DEF TallyInv
      <3>4. Sending => Due(tests'[nextTest])
        BY <3>2, <3>3, LimitsOK DEF Due
      <3>. QED  BY <3>1, <3>4
    <2>3. state' = "TESTING"
      BY <1>1, <1>5
    <2>. QED  BY <2>1, <2>2, <2>3, <1>3, TestNumbers DEF TallyInv
  <1>6. CASE state = "DEFECT_ROUTER_TEST"
    <2>1. \A t \in Parallel : (Heeded(t)' <=> Heeded(t)) /\ tests'[t].state = tests[t].state
      BY <1>3, <1>4, TestNumbers
    <2>2. tests'[Defect] = tests[Defect] /\ ~OnTime(Defect) /\ ~OnTime(Defect)'
      BY <1>3, <1>4, TestNumbers
    <2>. QED  BY <2>1, <2>2, <1>1, <1>2, <1>6 DEF TallyInv
  <1>7. CASE state \notin {"TESTING", "DEFECT_ROUTER_TEST"}
    BY <1>1, <1>7 DEF TallyInv
  <1>. QED  BY <1>5, <1>6, <1>7

(* Answers that are filtered, and a network that comes back. *)
LEMMA AsideTally ==
  ASSUME Counts, AnswersInv, TallyInv, [Next]_vars,
         (\E m \in net : Filtered(m)) \/ GoDown \/ ComeUp \/ UNCHANGED vars
  PROVE  TallyInv'
  <1>1. CASE GoDown
    <2>1. outages' # 0
      BY <1>1 DEF GoDown, AnswersInv
    <2>. QED  BY <2>1 DEF TallyInv
  <1>2. CASE (\E m \in net : Filtered(m)) \/ ComeUp \/ UNCHANGED vars
    <2>1. /\ UNCHANGED <<client, nat, epoch, outages>> /\ net' \subseteq net
          /\ analysis' = analysis /\ state' = state
      BY <1>2 DEF Filtered, ComeUp, vars, world, client
    <2>2. faults \in Nat /\ faults' \in Nat /\ faults <= faults'
      BY FaultsGrow
    <2>3. \A t \in Tests : OnTime(t)' => OnTime(t)
      BY <2>1 DEF OnTime
    <2>4. ASSUME NEW t \in Tests \ {Initial}, OnTime(t), Heeded(t), Running
          PROVE  OnTime(t)'
      <3>1. PICK m \in net : m.test = t /\ m.analysis = analysis /\ m.fate = "soon"
        BY <2>4 DEF OnTime
      <3>2. Passes(Sock(m.test), m.from)
        BY <2>4, <3>1, HeededPasses DEF Counts
      <3>3. m \in net'
        BY <1>2, <3>2 DEF Filtered, ComeUp, vars, world
      <3>. QED  BY <2>1, <3>1, <3>3 DEF OnTime
    <2>5. CASE state \in {"TESTING", "DEFECT_ROUTER_TEST"}
      BY <2>1, <2>2, <2>3, <2>4, <2>5, TallyKept DEF Running
    <2>6. CASE state \notin {"TESTING", "DEFECT_ROUTER_TEST"}
      BY <2>1, <2>6 DEF TallyInv
    <2>. QED  BY <2>5, <2>6
  <1>. QED  BY <1>1, <1>2

LEMMA DeliverTally ==
  ASSUME Counts, AnswersInv, FilterInv, PortInv, LearnedInv, TallyInv,
         NEW m \in net, Deliver(m), [Next]_vars
  PROVE  TallyInv'
  <1>1. /\ \A x \in net' : x.fate = "soon" => x \in net
        /\ \A y \in net : y # m => y \in net'
        /\ UNCHANGED <<nat, epoch, outages>>
    BY RepeatedAnswers DEF Counts
  <1>2. HandlePacket(m) /\ m \in Answer
    BY DEF Deliver, Counts, Types
  <1>3. faults \in Nat /\ faults' \in Nat /\ faults <= faults'
    BY FaultsGrow
  <1>4. analysis' = analysis
    BY <1>2 DEF HandlePacket, HandleInitial, HandleParallel, HandleDefect, Unmatched, client
  <1>5. /\ \A t \in Tests : OnTime(t)' => OnTime(t)
        /\ \A t \in Tests : ~(t = m.test /\ m.analysis = analysis) =>
             (OnTime(t)' <=> OnTime(t))
        /\ \A t \in Tests : Heeded(t)' <=> Heeded(t)
    BY <1>1, <1>4 DEF OnTime, Heeded
  <1>6. state \in {"INITIAL_TEST", "TESTING"} => ~OnTime(Defect)'
    <2>1. state \in {"INITIAL_TEST", "TESTING"} => ~OnTime(Defect)
      BY TestNumbers DEF AnswersInv, OnTime, Running
    <2>. QED  BY <2>1, <1>5, TestNumbers
  <1>. SUFFICES ASSUME outages = 0 PROVE TallyInv'
    BY <1>1 DEF TallyInv
  <1>7. CASE HandleInitial(m)
    <2>1. CASE state' \notin {"TESTING", "DEFECT_ROUTER_TEST"}
      BY <2>1 DEF TallyInv
    <2>2. CASE state' \in {"TESTING", "DEFECT_ROUTER_TEST"}
      <3>1. PICK new : /\ Ready(new) /\ SetNextTest(new)
                       /\ \A t \in Tests : t # Initial =>
                            new[t].retransmissions = 0 /\ new[t].state = "NONE"
        BY <1>2, <1>7, <2>2, FirstTests
      <3>2. \A f \in Nat : 0 <= f + 1
        OBVIOUS
      <3>3. \A t \in Parallel : new[t].retransmissions = 0 /\ new[t].state = "NONE"
        BY <3>1, TestNumbers
      <3>4. \A t \in Parallel : /\ Heeded(t)' => Tally(new[t], faults', OnTime(t)')
                                /\ OnTime(t)' /\ new[t].state = "SENT" => new[t].age = 0
        BY <3>2, <3>3, <1>3 DEF Tally
      <3>5. ~OnTime(Defect)'
        BY <1>6, <1>7 DEF HandleInitial
      <3>. QED  BY <3>1, <3>4, <3>5, <1>3, SetNextTally
    <2>. QED  BY <2>1, <2>2
  <1>8. CASE HandleParallel(m)
    <2>1. state = "TESTING" /\ m.test \in Parallel /\ m.test \in Tests
      BY <1>2, <1>8, AnsweredTests, TestNumbers DEF HandleParallel
    <2>2. PICK ts : /\ Ready(ts) /\ SetNextTest(ts)
                    /\ ts[m.test].state = "COMPLETED"
                    /\ ts[m.test].retransmissions = tests[m.test].retransmissions
                    /\ \A u \in Tests : u # m.test => ts[u] = tests[u]
      BY <1>2, <1>8, AnsweredTests
    <2>3. /\ \A t \in Parallel : Heeded(t) => Tally(tests[t], faults, OnTime(t))
          /\ tests \in [Tests -> Test]
          /\ RetriesLeft(faults') => RetriesLeft(faults)
      BY <2>1, <1>3, FewerFaults DEF TallyInv, Counts, Types
    <2>4. \A t \in Parallel : OnTime(t) /\ tests[t].state = "SENT" => tests[t].age = 0
      BY <2>1 DEF TallyInv
    <2>5. ASSUME NEW t \in Parallel
          PROVE  /\ Heeded(t)' => Tally(ts[t], faults', OnTime(t)')
                 /\ OnTime(t)' /\ ts[t].state = "SENT" => ts[t].age = 0
      <3>1. t \in Tests /\ tests[t].retransmissions \in Nat
        BY <2>3, TestNumbers DEF Test
      <3>2. ts[t].retransmissions = tests[t].retransmissions
        BY <2>2, <3>1
      <3>3. CASE t = m.test
        BY <2>2, <2>3, <3>1, <3>2, <3>3, <1>3, <1>5 DEF Tally
      <3>4. CASE t # m.test
        <4>1. ts[t] = tests[t] /\ (OnTime(t)' <=> OnTime(t))
          BY <2>2, <3>1, <3>4, <1>5
        <4>2. OnTime(t)' /\ ts[t].state = "SENT" => ts[t].age = 0
          BY <4>1, <2>4
        <4>. QED  BY <4>1, <4>2, <2>3, <3>1, <1>3, <1>5 DEF Tally
      <3>. QED  BY <3>3, <3>4
    <2>6. ~OnTime(Defect)'
      BY <1>6, <2>1
    <2>. QED  BY <2>2, <2>5, <2>6, <1>3, SetNextTally
  <1>9. CASE HandleDefect(m)
    <2>1. state' = "COMPLETED"
      BY <1>9 DEF HandleDefect, ComputeResultAndStop
    <2>. QED  BY <2>1 DEF TallyInv
  <1>10. CASE Unmatched(m)
    <2>1. UNCHANGED client /\ state' = state
      BY <1>10 DEF Unmatched, client
    <2>2. CASE state \notin {"TESTING", "DEFECT_ROUTER_TEST"}
      BY <2>1, <2>2 DEF TallyInv
    <2>3. CASE state \in {"TESTING", "DEFECT_ROUTER_TEST"}
      <3>1. ASSUME NEW t \in Tests \ {Initial}, OnTime(t), state = "TESTING" <=> t # Defect,
                   t = m.test, m.analysis = analysis
            PROVE  FALSE
        <4>1. CASE state = "TESTING"
          BY <4>1, <3>1, <1>10 DEF Unmatched, CheckTransactionId, Parallel, Tests, Initial, Defect
        <4>2. CASE state = "DEFECT_ROUTER_TEST"
          <5>1. m.test = Defect
            BY <4>2, <3>1
          <5>2. Decoded(tests, Defect, m)[Defect].mapped = 0
            BY <4>2, <5>1, <3>1, <1>10 DEF Unmatched, CheckTransactionId
          <5>3. m.mapped # 0
            <6>1. nat.servers = "full"
              BY <4>2 DEF LearnedInv
            <6>2. Running
              BY <4>2 DEF Running
            <6>. QED  BY <6>1, <6>2, <3>1, AnswerTells
          <5>. QED  BY <5>2, <5>3, <1>2, DecodedOK, TestNumbers DEF Counts, Types
        <4>. QED  BY <2>3, <4>1, <4>2
      <3>2. \A t \in Tests \ {Initial} :
              OnTime(t) /\ Heeded(t) /\ (state = "TESTING" <=> t # Defect) => OnTime(t)'
        BY <3>1, <1>5
      <3>. QED  BY <2>1, <2>3, <3>2, <1>1, <1>3, <1>5, TallyKept
    <2>. QED  BY <2>2, <2>3
  <1>. QED  BY <1>2, <1>7, <1>8, <1>9, <1>10 DEF HandlePacket

LEMMA TallyNext ==
  ASSUME Counts, AnswersInv, FilterInv, PortInv, LearnedInv, TallyInv, [Next]_vars
  PROVE  TallyInv'
  <1>1. ASSUME NEW s \in BOOLEAN, AsyncAnalyze(s) PROVE TallyInv'
    BY <1>1 DEF AsyncAnalyze, TallyInv
  <1>2. CASE SendInitial
    BY <1>2 DEF SendInitial, TallyInv
  <1>3. CASE WaitInitial
    BY <1>3 DEF WaitInitial, TallyInv
  <1>4. CASE Forget
    BY <1>4 DEF Forget, Idle, client, TallyInv
  <1>. QED  BY <1>1, <1>2, <1>3, <1>4, StepNames, SendParallelTally, SendDefectTally,
               WaitParallelTally, WaitDefectTally, TickTally, AsideTally, DeliverTally
-----------------------------------------------------------------------------
(* The verdict.                                                            *)

(* The ports of T1 to T3 are as different as the mapping says, and those   *)
(* of T6 and T7 tell a defect NAT.                                         *)
LEMMA PortsDiffer ==
  ASSUME NEW n \in Worlds, NEW s \in Nat, NEW e \in Nat
  PROVE  LET P(t) == PortOf(n, e, Sock(t), TestEp(t, s))
         IN  /\ P(2) # P(1) <=> n.mapping = "PORT_DEPENDENT"
             /\ P(3) # P(1) <=> n.mapping # "INDEPENDENT"
             /\ n.mapping = "INDEPENDENT" => (P(7) # P(6) <=> n.defect)
  <1> DEFINE P(t) == PortOf(n, e, Sock(t), TestEp(t, s))
             b == 1000 * e + 1
  <1>1. /\ TestEp(1, s).srv = s /\ TestEp(1, s).addr = 1 /\ TestEp(1, s).port = 1
        /\ TestEp(2, s).srv = s /\ TestEp(2, s).addr = 1 /\ TestEp(2, s).port = 2
        /\ TestEp(3, s).srv = s /\ TestEp(3, s).addr = 2 /\ TestEp(3, s).port = 1
        /\ TestEp(6, s).addr = 1 /\ TestEp(7, s).addr = 2
    BY DEF TestEp, Ep
  <1>2. /\ Sock(1) = "PRIMARY" /\ Sock(2) = "PRIMARY" /\ Sock(3) = "PRIMARY"
        /\ Sock(6) = "SECONDARY" /\ Sock(7) = "SECONDARY"
    BY DEF Sock
  <1>3. n.mapping \in Behaviours /\ n.defect \in BOOLEAN /\ b \in Nat
    BY StunAssumption
  <1>4. CASE n.mapping = "INDEPENDENT"
    <2>1. P(1) = b /\ P(2) = b /\ P(3) = b
      BY <1>2, <1>4 DEF PortOf
    <2>2. P(6) = b + 1
      BY <1>1, <1>2, <1>4 DEF PortOf
    <2>3. P(7) = IF n.defect THEN b + 501 ELSE b + 1
      BY <1>1, <1>2, <1>3, <1>4 DEF PortOf
    <2>. HIDE DEF P, b
    <2>4. P(7) # P(6) <=> n.defect
      BY <2>2, <2>3, <1>3
    <2>5. /\ P(2) # P(1) <=> n.mapping = "PORT_DEPENDENT"
          /\ P(3) # P(1) <=> n.mapping # "INDEPENDENT"
      BY <1>4, <2>1
    <2>. QED  BY <2>4, <2>5 DEF P
  <1>5. CASE n.mapping = "ADDR_DEPENDENT"
    <2>1. P(1) = b + 3 * (2 * s + 1) /\ P(2) = b + 3 * (2 * s + 1)
      BY <1>1, <1>2, <1>5 DEF PortOf
    <2>2. P(3) = b + 3 * (2 * s + 2)
      BY <1>1, <1>2, <1>5 DEF PortOf
    <2>. HIDE DEF P, b
    <2>3. P(2) = P(1) /\ P(3) # P(1)
      BY <2>1, <2>2, <1>3
    <2>. QED  BY <1>5, <2>3 DEF P
  <1>6. CASE n.mapping = "PORT_DEPENDENT"
    <2>1. P(1) = b + 3 * (100 + 4 * s + 2 + 1)
      BY <1>1, <1>2, <1>6 DEF PortOf
    <2>2. P(2) = b + 3 * (100 + 4 * s + 2 + 2)
      BY <1>1, <1>2, <1>6 DEF PortOf
    <2>3. P(3) = b + 3 * (100 + 4 * s + 4 + 1)
      BY <1>1, <1>2, <1>6 DEF PortOf
    <2>. HIDE DEF P, b
    <2>4. P(2) # P(1) /\ P(3) # P(1)
      BY <2>1, <2>2, <2>3, <1>3
    <2>. QED  BY <1>6, <2>4 DEF P
  <1>. QED  BY <1>3, <1>4, <1>5, <1>6 DEF Behaviours

(* nabto_stun_compute_result tells the truth when every test that the NAT  *)
(* lets through was answered, and no other.                                *)
LEMMA TrueVerdict ==
  ASSUME NEW n \in Worlds, NEW s \in Nat, NEW e \in Nat, NEW ts,
         \A t \in {1, 2, 3, 6, 7} : ts[t].mapped = PortOf(n, e, Sock(t), TestEp(t, s)),
         ts[7].state = "COMPLETED",
         n.filtering # "PORT_DEPENDENT" => ts[4].state = "COMPLETED",
         n.filtering = "INDEPENDENT" => ts[5].state = "COMPLETED"
  PROVE  LET v == Verdict(ts)
         IN  /\ v.mapping = n.mapping
             /\ Openness(n.filtering) <= Openness(v.filtering)
             /\ Openness(v.filtering) <= Openness(n.filtering) => v.filtering = n.filtering
             /\ v.hasDefectNatAnswer
             /\ v.defectNat = (n.defect /\ n.mapping = "INDEPENDENT")
             /\ v.ext = PortOf(n, e, "PRIMARY", TestEp(1, s))
  <1> DEFINE P(t) == PortOf(n, e, Sock(t), TestEp(t, s))
  <1>1. /\ ts[1].mapped = P(1) /\ ts[2].mapped = P(2) /\ ts[3].mapped = P(3)
        /\ ts[6].mapped = P(6) /\ ts[7].mapped = P(7)
    OBVIOUS
  <1>2. /\ P(2) # P(1) <=> n.mapping = "PORT_DEPENDENT"
        /\ P(3) # P(1) <=> n.mapping # "INDEPENDENT"
        /\ n.mapping = "INDEPENDENT" => (P(7) # P(6) <=> n.defect)
    BY PortsDiffer
  <1>3. P(1) = PortOf(n, e, "PRIMARY", TestEp(1, s))
    BY DEF Sock
  <1>4. n.mapping \in Behaviours /\ n.filtering \in Behaviours /\ n.defect \in BOOLEAN
    BY StunAssumption
  <1>. HIDE DEF P
  <1>5. Mapping(ts) = n.mapping
    BY <1>1, <1>2, <1>4 DEF Mapping, Behaviours
  <1>6. /\ Openness(n.filtering) <= Openness(Filtering(ts))
        /\ Openness(Filtering(ts)) <= Openness(n.filtering) => Filtering(ts) = n.filtering
    BY <1>4 DEF Filtering, Openness, Behaviours
  <1>7. (ts[7].mapped # ts[6].mapped /\ n.mapping = "INDEPENDENT")
          = (n.defect /\ n.mapping = "INDEPENDENT")
    BY <1>1, <1>2, <1>4
  <1>8. /\ Verdict(ts).mapping = Mapping(ts) /\ Verdict(ts).filtering = Filtering(ts)
        /\ Verdict(ts).ext = ts[1].mapped
        /\ Verdict(ts).hasDefectNatAnswer = (ts[7].state = "COMPLETED")
        /\ Verdict(ts).defectNat = (/\ ts[7].state = "COMPLETED"
                                    /\ Mapping(ts) = "INDEPENDENT"
                                    /\ ts[7].mapped # ts[6].mapped)
    BY DEF Verdict, Defect
  <1>9. Verdict(ts).defectNat = (n.defect /\ n.mapping = "INDEPENDENT")
    BY <1>5, <1>7, <1>8
  <1>. QED  BY <1>1, <1>3, <1>5, <1>6, <1>8, <1>9

LEMMA ExactKept ==
  ASSUME Counts, AnswersInv, ExactVerdict, [Next]_vars,
         \/ ~Analysed'
         \/ UNCHANGED <<nat, epoch, analysis, server, state, simple, result>>
  PROVE  ExactVerdict'
  <1>1. CASE ~Analysed'
    BY <1>1 DEF ExactVerdict
  <1>2. CASE UNCHANGED <<nat, epoch, analysis, server, state, simple, result>>
    <2>1. RetriesLeft(faults') /\ outages' = 0 =>
            RetriesLeft(faults) /\ outages = 0
      BY FaultsGrow, FewerFaults
    <2>2. NatPort("PRIMARY", TestEp(Initial, server))'
            = NatPort("PRIMARY", TestEp(Initial, server))
      BY <1>2 DEF NatPort, TestEp
    <2>. QED  BY <1>2, <2>1, <2>2 DEF ExactVerdict, Analysed, Fresh
  <1>. QED  BY <1>1, <1>2

(* T7 is answered: every test before it that can be answered was. *)
LEMMA HandleDefectExact ==
  ASSUME Counts, AnswersInv, FilterInv, PortInv, LearnedInv, TallyInv,
         NEW m \in net, Deliver(m), HandleDefect(m), [Next]_vars
  PROVE  ExactVerdict'
  <1>1. /\ net' \subseteq Answer /\ UNCHANGED <<nat, epoch>> /\ pinholes' = pinholes /\ m \in Answer
    BY DeliverOK DEF Counts, Types
  <1>2. /\ KeptBut(Defect) /\ result' = Verdict(tests')
        /\ tests'[Defect].state = "COMPLETED" /\ tests'[Defect].mapped = Heard(Defect, m)
    BY <1>1, HandleDefectCounts
  <1>3. /\ state = "DEFECT_ROUTER_TEST" /\ m.test = Defect /\ m.analysis = analysis
        /\ analysis' = analysis /\ server' = server
    BY DEF HandleDefect, CheckTransactionId
  <1>4. SUFFICES ASSUME RetriesLeft(faults'), outages' = 0
                 PROVE  ExactVerdict'
    BY DEF ExactVerdict
  <1>5. RetriesLeft(faults) /\ outages = 0
    BY <1>4, FaultsGrow, FewerFaults
  <1>6. \A t \in Parallel : Heeded(t) => tests[t].state = "COMPLETED"
    BY <1>3, <1>5 DEF TallyInv
  <1>7. /\ nat.servers = "full"
        /\ tests[Initial].mapped = PortOf(nat, epoch, "PRIMARY", TestEp(Initial, server))
        /\ \A t \in Tests \ {Initial} : tests[t].state = "COMPLETED" =>
             tests[t].mapped = PortOf(nat, epoch, Sock(t), TestEp(t, server))
    BY <1>3 DEF LearnedInv
  <1>8. /\ \A t \in Tests : t # Defect => tests'[t].mapped = tests[t].mapped
        /\ tests'[4].state = "COMPLETED" => tests[4].state = "COMPLETED"
        /\ tests'[5].state = "COMPLETED" => tests[5].state = "COMPLETED"
        /\ \A t \in Parallel : tests'[t].state = tests[t].state
    <2>1. \A t \in Tests : t # Defect => tests'[t] = tests[t]
      <3>1. /\ tests' = [Decoded(tests, Defect, m) EXCEPT ![Defect].state = "COMPLETED"]
            /\ tests \in [Tests -> Test]
        BY DEF HandleDefect, ComputeResultAndStop, Counts, Types
      <3>2. /\ Decoded(tests, Defect, m) \in [Tests -> Test]
            /\ \A u \in Tests : u # Defect => Decoded(tests, Defect, m)[u] = tests[u]
        BY <1>1, <3>1, DecodedOK, TestNumbers
      <3>. HIDE DEF Decoded
      <3>. QED  BY <3>1, <3>2
    <2>2. 4 \in Tests /\ 5 \in Tests /\ 4 # Defect /\ 5 # Defect
      BY TestNumbers
    <2>3. tests'[4] = tests[4] /\ tests'[5] = tests[5]
      BY <2>1, <2>2
    <2>4. \A t \in Parallel : t \in Tests /\ t # Defect
      BY TestNumbers
    <2>5. \A t \in Parallel : tests'[t] = tests[t]
      BY <2>1, <2>4
    <2>. QED  BY <2>1, <2>3, <2>5
  <1>9. tests'[7].mapped = PortOf(nat, epoch, Sock(7), TestEp(7, server))
    <2>1. /\ m.mapped = PortOf(nat, epoch, Sock(Defect), TestEp(Defect, server))
          /\ m.mapped # 0
      BY <1>3, <1>7, AnswerTells, TestNumbers DEF Running
    <2>. QED  BY <2>1, <1>2, TestNumbers DEF Heard
  <1>10. \A t \in {1, 2, 3, 6, 7} :
           tests'[t].mapped = PortOf(nat, epoch, Sock(t), TestEp(t, server))
    <2>1. ASSUME NEW t \in {2, 3, 6}
          PROVE  tests'[t].mapped = PortOf(nat, epoch, Sock(t), TestEp(t, server))
      <3>1. t \in Parallel /\ Heeded(t) /\ t \in Tests \ {Initial} /\ t # Defect
        BY DEF Parallel, Heeded, Tests, Initial, Defect
      <3>. QED  BY <3>1, <1>6, <1>7, <1>8
    <2>2. Sock(1) = "PRIMARY"
      BY DEF Sock
    <2>3. tests'[1].mapped = PortOf(nat, epoch, Sock(1), TestEp(1, server))
      BY <2>2, <1>7, <1>8, TestNumbers
    <2>. QED  BY <2>1, <2>3, <1>9
  <1>11. /\ nat.filtering # "PORT_DEPENDENT" => tests'[4].state = "COMPLETED"
         /\ nat.filtering = "INDEPENDENT" => tests'[5].state = "COMPLETED"
    <2>1. 4 \in Parallel /\ 5 \in Parallel
      BY DEF Parallel
    <2>2. /\ Heeded(4) <=> nat.filtering # "PORT_DEPENDENT"
          /\ Heeded(5) <=> nat.filtering = "INDEPENDENT"
      BY DEF Heeded
    <2>. QED  BY <2>1, <2>2, <1>6, <1>8
  <1>12. nat \in Worlds /\ server \in Nat /\ epoch \in Nat
    BY DEF Counts, Types
  <1>13. tests'[7].state = "COMPLETED"
    BY <1>2, TestNumbers
  <1>14. LET v == Verdict(tests')
         IN  /\ v.mapping = nat.mapping
             /\ Openness(nat.filtering) <= Openness(v.filtering)
             /\ Openness(v.filtering) <= Openness(nat.filtering) => v.filtering = nat.filtering
             /\ v.hasDefectNatAnswer
             /\ v.defectNat = (nat.defect /\ nat.mapping = "INDEPENDENT")
             /\ v.ext = PortOf(nat, epoch, "PRIMARY", TestEp(1, server))
    BY <1>10, <1>11, <1>12, <1>13, TrueVerdict
  <1>15. NatPort("PRIMARY", TestEp(Initial, server))'
           = PortOf(nat, epoch, "PRIMARY", TestEp(1, server))
    BY <1>1, <1>3 DEF NatPort, PortOf, Initial
  <1>16. Fresh' => result'.filtering = nat.filtering
    <2>1. Fresh' => Fresh
      BY <1>1, <1>3 DEF Fresh
    <2>2. Fresh' => LetThrough
      BY <2>1, <1>3 DEF FilterInv
    <2>3. Fresh' => Openness(Verdict(tests').filtering) <= Openness(nat.filtering)
      BY <2>2, <1>8, <1>12, FilterVerdict DEF LetThrough
    <2>. QED  BY <2>3, <1>2, <1>14
  <1>. QED  BY <1>1, <1>2, <1>14, <1>15, <1>16 DEF ExactVerdict

(* T7 is not given up while it was lost too seldom. *)
LEMMA WaitDefectExact ==
  ASSUME Counts, AnswersInv, TallyInv, WaitDefect, [Next]_vars
  PROVE  ExactVerdict'
  <1>1. SUFFICES ASSUME Analysed', RetriesLeft(faults'), outages' = 0
                 PROVE  FALSE
    BY DEF ExactVerdict
  <1>2. /\ state = "DEFECT_ROUTER_TEST" /\ nextTimeout = 0
        /\ Exhausted(tests[Defect], Defect)
    BY <1>1 DEF WaitDefect, Waited, Analysed
  <1>3. RetriesLeft(faults) /\ outages = 0 /\ faults \in Nat
    BY <1>1, FaultsGrow, FewerFaults
  <1>4. tests[Defect].retransmissions <= faults
    BY <1>2, <1>3, LimitsOK DEF TallyInv
  <1>5. tests[Defect].retransmissions \in Nat
    BY TestNumbers DEF Counts, Types, Test
  <1>6. /\ MaxRetransmissions(Defect) \in Nat
        /\ faults <= MaxRetransmissions(Defect) - 2
    BY <1>3, LimitsOK, TestNumbers DEF RetriesLeft
  <1>7. tests[Defect].retransmissions >= MaxRetransmissions(Defect)
    BY <1>2 DEF Exhausted
  <1>. QED  BY <1>3, <1>4, <1>5, <1>6, <1>7

(* The NAT forgets: the ports it gave are of the past. *)
LEMMA ForgetExact ==
  ASSUME Counts, AnswersInv, ExactVerdict, Forget
  PROVE  ExactVerdict'
  <1>1. /\ UNCHANGED <<client, nat, faults, outages>>
        /\ epoch' = analysis + 1 /\ analysis \in Nat
    BY DEF Forget, Counts, Types
  <1>2. ~Fresh' /\ ~(epoch' <= analysis')
    BY <1>1 DEF client, Fresh
  <1>3. (Analysed' <=> Analysed) /\ result' = result
    BY <1>1 DEF client, Analysed
  <1>. QED  BY <1>1, <1>2, <1>3 DEF ExactVerdict

LEMMA ExactNext ==
  ASSUME Counts, AnswersInv, FilterInv, PortInv, LearnedInv, TallyInv, ExactVerdict,
         [Next]_vars
  PROVE  ExactVerdict'
  <1>1. ASSUME NEW s \in BOOLEAN, AsyncAnalyze(s) PROVE ~Analysed'
    BY <1>1 DEF AsyncAnalyze, Analysed
  <1>2. CASE SendInitial \/ SendParallel \/ SendDefect \/ WaitInitial \/ WaitParallel
    <2>1. state' # "COMPLETED"
      BY <1>2 DEF SendInitial, SendParallel, SendDefect, WaitInitial, WaitParallel, SetNextTest
    <2>. QED  BY <2>1, ExactKept DEF Analysed
  <1>3. CASE Tick \/ Aside
    <2>1. UNCHANGED <<nat, epoch, analysis, server, state, simple, result>>
      BY <1>3 DEF Tick, Aside, world, client
    <2>. QED  BY <2>1, ExactKept
  <1>4. ASSUME NEW m \in net, Deliver(m) PROVE ExactVerdict'
    <2>1. HandlePacket(m) /\ UNCHANGED <<nat, epoch>>
      BY <1>4 DEF Deliver
    <2>2. CASE HandleInitial(m)
      <3>1. ~Analysed'
        BY <2>2 DEF HandleInitial, SetNextTest, Analysed
      <3>. QED  BY <3>1, ExactKept
    <2>3. CASE HandleParallel(m)
      <3>1. ~Analysed'
        BY <2>3 DEF HandleParallel, SetNextTest, Analysed
      <3>. QED  BY <3>1, ExactKept
    <2>4. CASE HandleDefect(m)
      BY <1>4, <2>4, HandleDefectExact
    <2>5. CASE Unmatched(m)
      <3>1. UNCHANGED <<nat, epoch, analysis, server, state, simple, result>>
        BY <2>1, <2>5 DEF Unmatched, client
      <3>. QED  BY <3>1, ExactKept
    <2>. QED  BY <2>1, <2>2, <2>3, <2>4, <2>5 DEF HandlePacket
  <1>. QED  BY <1>1, <1>2, <1>3, <1>4, StepKinds, ForgetExact, WaitDefectExact, ExactKept

(* The answers under way, the ports learned and the faults of an analysis  *)
(* account for every transmission.                                         *)
EInv == SInv /\ AnswersInv /\ LearnedInv /\ TallyInv /\ ExactVerdict

(* nabto_stun_set_next_test sends a test again only when an answer of it   *)
(* was lost or came late, and every port that nabto_stun_handle_packet     *)
(* keeps is one the NAT gives in this analysis.                            *)
THEOREM FaultsAccounted == Spec => []EInv
  <1>1. Init => EInv
    <2>1. SUFFICES ASSUME Init PROVE AnswersInv /\ LearnedInv /\ TallyInv /\ ExactVerdict
      BY InitOK DEF EInv
    <2>. QED  BY <2>1 DEF Init, AnswersInv, LearnedInv, TallyInv, ExactVerdict, Analysed
  <1>2. EInv /\ SInv' /\ [Next]_vars => EInv'
    <2>1. SUFFICES ASSUME EInv, SInv', [Next]_vars PROVE EInv'
      OBVIOUS
    <2>2. /\ Counts /\ FilterInv /\ PortInv
          /\ AnswersInv /\ LearnedInv /\ TallyInv /\ ExactVerdict
      BY <2>1 DEF EInv, SInv, Counts
    <2>3. AnswersInv' /\ LearnedInv' /\ TallyInv' /\ ExactVerdict'
      BY <2>1, <2>2, AnswersNext, LearnedNext, TallyNext, ExactNext
    <2>. QED  BY <2>1, <2>3 DEF EInv
  <1>. QED  BY <1>1, <1>2, StunInvariance, PTL DEF Spec

(* nabto_stun_compute_result tells the truth about the NAT whenever fewer  *)
(* answers were lost, late or repeated than a test has retries to spend.   *)
(* Where the NAT still knew the sockets from an earlier analysis it may    *)
(* report a more open filter than there is.                                *)
THEOREM VerdictIsExact == Spec => []ExactVerdict
  <1>1. EInv => ExactVerdict
    BY DEF EInv
  <1>. QED  BY <1>1, FaultsAccounted, PTL
=============================================================================
