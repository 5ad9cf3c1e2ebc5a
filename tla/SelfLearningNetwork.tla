------------------------- MODULE SelfLearningNetwork -------------------------
(***************************************************************************)
(* Several forwarders running the current SelfLearningStrategy             *)
(* (src/unnamed/part_000), joined by point-to-point links, with a consumer *)
(* application on one forwarder and a producer application on another.     *)
(* Each forwarder is an instance of SelfLearningStrategy whose variables   *)
(* are the fields of node[n]; a step of forwarder n is one of the pure     *)
(* forwarder steps of that module applied to node[n], and the packets it   *)
(* sends (the sent field of the record it returns) go onto the links.      *)
(*                                                                         *)
(* Links may lose or duplicate a packet, up to a bound, and deliver the    *)
(* packets in flight in any order.  The Content Store is taken to miss     *)
(* (spec.md section 1 leaves it out of scope), and the PIT entry's         *)
(* lifetime and 1 s hold are taken to outlast the round trip: they fire    *)
(* only once nothing is in flight and no thread has work queued.           *)
(***************************************************************************)
EXTENDS Naturals, FiniteSets, Sequences, SequencesExt

CONSTANTS
  Node,          \* the forwarders
  Consumer,      \* the forwarder whose application expresses the Interest
  Producer,      \* the forwarder whose application serves the name
  NodeFaces,     \* NodeFaces[n]: the faces of forwarder n
  AppFaces,      \* faces with local scope (the applications' faces)
  Peer,          \* Peer[<<n, f>>]: the forwarder and face at the other end
                 \* of non-local face f of n
  InitFib,       \* InitFib[n]: the FIB next hops of n at start
  MaxInterests,  \* bound on the Interests the consumer application sends
  MaxLoss,       \* bound on packets the links lose
  MaxDup,        \* bound on packets the links duplicate
  MaxPitGen,     \* bound on PIT entries per forwarder
  NoRecord, NoFace

ASSUME /\ Consumer \in Node /\ Producer \in Node
       /\ \A n \in Node : \A f \in NodeFaces[n] \ AppFaces :
            /\ Peer[<<n, f>>][1] \in Node /\ Peer[<<n, f>>][2] \in NodeFaces[Peer[<<n, f>>][1]]
            /\ Peer[Peer[<<n, f>>]] = <<n, f>>

VARIABLES
  node,    \* node[n]: the state record of forwarder n (SelfLearningCommon)
  msgs,    \* packets in flight: [at, face, pkt, app]; app: from forwarder
           \* at to its application on face, else arriving at forwarder at
  app,     \* the consumer application: Interests sent, Data and Nacks got
  lost,    \* packets the links lost
  dups     \* packets the links duplicated

netVars == <<node, msgs, app, lost, dups>>

\* Forwarder n: SelfLearningStrategy on the faces of n, its variables the
\* fields of node[n]
F(n) == INSTANCE SelfLearningStrategy WITH
  Faces <- NodeFaces[n], LocalFaces <- NodeFaces[n] \cap AppFaces,
  MultiAccessFaces <- {}, AdHocFaces <- {}, ChannelPeer <- [m \in {} |-> NoFace],
  InitFibs <- {InitFib[n]}, MaxEvents <- 0,
  faceTable <- node[n].faces, fib <- node[n].fib, pit <- node[n].pit,
  inRecords <- node[n].in, outRecords <- node[n].out, sendOrder <- node[n].order,
  ribQueue <- node[n].rib, mainQueue <- node[n].main, dataSent <- node[n].data,
  nacksSent <- node[n].nacks, connecting <- node[n].conn, events <- 0,
  fault <- node[n].fault

Packet == F(Consumer)!Packet
Message == {m \in UNION {[at : {n}, face : NodeFaces[n], pkt : Packet, app : BOOLEAN] : n \in Node} :
              m.app => m.face \in AppFaces}
Interest(tagged) == [kind |-> "Interest", tagged |-> tagged]
Data(pa) == [kind |-> "Data", pa |-> pa]

\* Where a packet that forwarder n sends on face f arrives: at the
\* application of a local face, or at the forwarder on the link's far end
Deliver(n, f, p) ==
  IF f \in AppFaces THEN [at |-> n, face |-> f, pkt |-> p, app |-> TRUE]
  ELSE [at |-> Peer[<<n, f>>][1], face |-> Peer[<<n, f>>][2], pkt |-> p, app |-> FALSE]

\* The packets of the step of forwarder n that led to state record t
Sent(n, t) == {Deliver(n, e.to, e.pkt) : e \in t.sent}

\* Forwarder n takes state record t after receiving m: t's packets leave
Take(n, t, m, keep) ==
  /\ node' = [node EXCEPT ![n] = [t EXCEPT !.sent = {}]]
  /\ msgs' = (IF keep THEN msgs ELSE msgs \ {m}) \cup Sent(n, t)

\* The faces of n that lead to the producer: its application face at the
\* producer, and the links whose far end reaches the producer without
\* passing through n
Rel == INSTANCE Relation
Link == UNION {{<<x, Peer[<<x, f>>][1]>> : f \in NodeFaces[x] \ AppFaces} : x \in Node}
Reaches(n) ==
  Rel!ReflexiveTransitiveClosure([x, y \in Node \ {n} |-> <<x, y>> \in Link], Node \ {n})
TowardProducer ==
  [n \in Node |->
     {f \in NodeFaces[n] : IF f \in AppFaces THEN n = Producer
                           ELSE n # Producer /\ Peer[<<n, f>>][1] # n
                                /\ Reaches(n)[Peer[<<n, f>>][1], Producer]}]

\* The lifetime and 1 s timers outlast the time the network needs to answer
Quiet == msgs = {} /\ \A n \in Node : node[n].rib = <<>> /\ node[n].main = <<>>

-----------------------------------------------------------------------------

Init ==
  /\ node = [n \in Node |-> F(n)!InitState(InitFib[n])]
  /\ msgs = {}
  /\ app = [interests |-> 0, data |-> 0, nacks |-> 0]
  /\ lost = 0
  /\ dups = 0

\* The consumer application sends the Interest (again) until it has Data
Express ==
  /\ app.interests < MaxInterests /\ app.data = 0
  /\ \E f \in NodeFaces[Consumer] \cap AppFaces :
       msgs' = msgs \cup {[at |-> Consumer, face |-> f, pkt |-> Interest(FALSE), app |-> FALSE]}
  /\ app' = [app EXCEPT !.interests = @ + 1]
  /\ UNCHANGED <<node, lost, dups>>

\* A packet reaches forwarder n on face f: Forwarder::onIncomingInterest,
\* onIncomingData or onIncomingNack with the strategy trigger.  Data and
\* Nacks for a name without PIT entry are dropped.  With keep, a link
\* delivers a duplicate Data or Nack and the packet stays in flight (a
\* duplicated Interest repeats its nonce and the forwarder's loop detection
\* drops it, so it is left out; application faces do not duplicate).
Receive(m, keep) ==
  /\ m \in msgs /\ ~m.app
  /\ keep => dups < MaxDup /\ m.pkt.kind # "Interest" /\ m.face \notin AppFaces
  /\ dups' = IF keep THEN dups + 1 ELSE dups
  /\ LET n == m.at
         s == F(n)!St
     IN CASE m.pkt.kind = "Interest" ->
               /\ s.pit.alive \/ s.pit.gen < MaxPitGen
               /\ \E t \in F(n)!OnIncomingInterest(s, m.face, m.pkt.tagged, {}, TRUE) :
                    Take(n, t, m, keep)
          [] ~s.pit.alive -> Take(n, s, m, keep)
          [] m.pkt.kind = "Data" ->
               \E t \in F(n)!OnIncomingData(s, m.face, m.pkt.pa) : Take(n, t, m, keep)
          [] OTHER -> Take(n, F(n)!OnIncomingNack(s, m.face, m.pkt.reason), m, keep)
  /\ UNCHANGED <<app, lost>>

\* An application takes a packet from its face: the consumer counts Data
\* and Nacks, the producer answers each Interest with Data
AppReceive(m) ==
  /\ m \in msgs /\ m.app
  /\ CASE m.at = Consumer /\ m.pkt.kind = "Data" ->
            /\ app' = [app EXCEPT !.data = @ + 1] /\ msgs' = msgs \ {m}
       [] m.at = Consumer /\ m.pkt.kind = "Nack" ->
            /\ app' = [app EXCEPT !.nacks = @ + 1] /\ msgs' = msgs \ {m}
       [] m.at = Producer /\ m.pkt.kind = "Interest" ->
            /\ msgs' = (msgs \ {m}) \cup {[at |-> m.at, face |-> m.face,
                                           pkt |-> Data(FALSE), app |-> FALSE]}
            /\ UNCHANGED app
       [] OTHER -> msgs' = msgs \ {m} /\ UNCHANGED app
  /\ UNCHANGED <<node, lost, dups>>

\* A link loses a packet
Lose(m) ==
  /\ m \in msgs /\ ~m.app /\ m.face \notin AppFaces /\ lost < MaxLoss
  /\ msgs' = msgs \ {m}
  /\ lost' = lost + 1
  /\ UNCHANGED <<node, app, dups>>

\* The RIB thread of forwarder n runs a task
RibStep(n) ==
  /\ node[n].rib # <<>>
  /\ node' = [node EXCEPT ![n] = F(n)!OnRibTask(@)]
  /\ UNCHANGED <<msgs, app, lost, dups>>

\* The forwarding thread of n runs a PA continuation
PaContinuationStep(n) ==
  /\ node[n].main # <<>>
  /\ LET t == F(n)!OnPaContinuation(node[n])
     IN /\ node' = [node EXCEPT ![n] = [t EXCEPT !.sent = {}]]
        /\ msgs' = msgs \cup Sent(n, t)
  /\ UNCHANGED <<app, lost, dups>>

\* The PIT entry of n expires: at once when its timer was set to zero,
\* otherwise only when the network is quiet
PitExpires(n) ==
  /\ node[n].pit.alive
  /\ node[n].pit.timer = "zero" \/ Quiet
  /\ node' = [node EXCEPT ![n] = F(n)!OnPitExpiry(@)]
  /\ UNCHANGED <<msgs, app, lost, dups>>

Next ==
  \/ Express
  \/ \E m \in msgs : Receive(m, FALSE) \/ Receive(m, TRUE) \/ AppReceive(m) \/ Lose(m)
  \/ \E n \in Node : RibStep(n) \/ PaContinuationStep(n) \/ PitExpires(n)

\* Every packet in flight is eventually taken by its forwarder or
\* application (unless the link loses it); each forwarder's RIB and
\* forwarding threads run their queued tasks; a zero expiry timer fires.
Fairness ==
  /\ \A m \in {x \in Message : ~x.app} : WF_netVars(Receive(m, FALSE))
  /\ \A m \in {x \in Message : x.app} : WF_netVars(AppReceive(m))
  /\ \A n \in Node : /\ WF_netVars(RibStep(n)) /\ WF_netVars(PaContinuationStep(n))
                     /\ WF_netVars(node[n].pit.timer = "zero" /\ PitExpires(n))

Spec == Init /\ [][Next]_netVars /\ Fairness

-----------------------------------------------------------------------------
(* Properties.                                                             *)

TypeOK ==
  /\ \A n \in Node : F(n)!TypeOK
  /\ msgs \subseteq Message
  /\ app \in [interests : 0..MaxInterests, data : Nat, nacks : Nat]
  /\ lost \in 0..MaxLoss /\ dups \in 0..MaxDup

\* The network implements SelfLearningService: the FIBs change one next hop
\* per step and only ever gain next hops towards the producer (the Data
\* that teaches a route comes back along the Interest's path, addRoute in
\* afterReceiveData), and the consumer application never gets more Data
\* than it sent Interests (sendDataToAll erases each in-record it answers).
Service == INSTANCE SelfLearningService WITH
  Toward <- TowardProducer,
  InitRoutes <- [n \in Node |-> ToSet(InitFib[n])],
  routes <- [n \in Node |-> ToSet(node[n].fib)],
  requests <- app.interests,
  answered <- app.data

ImplementsService == Service!Spec

\* Unless a link loses a packet, the consumer that sent the Interest gets
\* the Data: the discovery flood reaches the producer, which attaches a PA
\* through its RIB thread (asyncProcessData), and the Data returns along
\* the in-records.
\* (lost only grows, so "or a packet was lost" stands for the premise.)
DataEventuallyDelivered == app.interests > 0 ~> (app.data > 0 \/ lost > 0)

=============================================================================
