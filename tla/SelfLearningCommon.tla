-------------------------- MODULE SelfLearningCommon --------------------------
(***************************************************************************)
(* The self-learning forwarding strategy of NFD for one Interest name,    *)
(* seen from one forwarder: the state, the forwarder services and the      *)
(* strategy code that src/unnamed/part_000 and the 2019 version            *)
(* src/daemon/fw/self-learning-strategy.cpp share.  SelfLearningStrategy   *)
(* and SelfLearningStrategy2019 add the triggers in which they differ.     *)
(*                                                                         *)
(* The forwarding thread F runs the four strategy triggers and the PA      *)
(* continuations posted back from the RIB thread R; R runs the RIB tasks   *)
(* the strategy posts (slFindAnn, slAnnounce, slRenew).  Packets arrive    *)
(* from the faces in any order; the forwarder pipeline around the          *)
(* strategy (PIT insertion, in/out-record bookkeeping, retransmission      *)
(* suppression, sendDataToAll, processNack) is modelled from spec.md.      *)
(*                                                                         *)
(* Every strategy handler and every forwarder step is a pure operator from *)
(* a state record to the state record after it, so that a trigger that     *)
(* calls several handlers in a row (afterReceiveNack then processNack)     *)
(* composes them, and so that SelfLearningNetwork can run the same steps   *)
(* on several forwarders.  The actions of this module apply them to St,   *)
(* the record of this forwarder's variables.  A state record also carries  *)
(* sent, the packets the step put on the faces.                            *)
(***************************************************************************)
EXTENDS Naturals, Sequences, SequencesExt, FiniteSets

CONSTANTS
  Faces,             \* every face id that may ever exist
  LocalFaces,        \* faces with FACE_SCOPE_LOCAL (applications)
  MultiAccessFaces,  \* faces with LINK_TYPE_MULTI_ACCESS
  AdHocFaces,        \* faces with LINK_TYPE_AD_HOC
  ChannelPeer,       \* ChannelPeer[m]: the on-demand unicast face that the
                     \* channel of multi-access face m opens to the Data sender
  InitFibs,          \* possible FIB next-hop lists (cost order) at start
  MaxEvents,         \* bound on packets and face failures from the network
  MaxPitGen,         \* bound on PIT entries created for the name
  NoRecord,          \* model value: no in-record, out-record or Data
  NoFace             \* model value: no eligible next hop

OnDemandFaces == {ChannelPeer[m] : m \in MultiAccessFaces}

ASSUME /\ LocalFaces \subseteq Faces /\ MultiAccessFaces \subseteq Faces
       /\ AdHocFaces \subseteq Faces /\ MultiAccessFaces \cap AdHocFaces = {}
       /\ ChannelPeer \in [MultiAccessFaces -> Faces \ (LocalFaces \cup MultiAccessFaces)]
       /\ \A fib \in InitFibs : IsInjective(fib) /\ ToSet(fib) \subseteq Faces \ OnDemandFaces
       /\ MaxEvents \in Nat /\ MaxPitGen \in Nat

VARIABLES
  faceTable,   \* ids of the faces in the face table
  fib,         \* FIB next hops of the name, in cost order
  pit,         \* the PIT entry: alive, generation (weak_ptr identity), the
               \* NonDiscoveryTag on its stored Interest, and its expiry timer
  inRecords,   \* in-record per downstream face, or NoRecord
  outRecords,  \* out-record per upstream face, or NoRecord
  sendOrder,   \* upstream faces in order of out-record lastRenewed
  ribQueue,    \* tasks posted to the RIB thread (runOnRibIoService)
  mainQueue,   \* PA continuations posted to F (runOnMainIoService)
  dataSent,    \* Data sent to each downstream of the current PIT entry
  nacksSent,   \* number of Nacks sent to each downstream of the entry
  connecting,  \* unicast face creations requested from the channel of a
               \* multi-access face and not completed: [gen, face]
  events,      \* network events and record expiries so far (<= MaxEvents)
  fault        \* the undefined behaviours the strategy has run into

vars == <<faceTable, fib, pit, inRecords, outRecords, sendOrder, ribQueue,
          mainQueue, dataSent, nacksSent, connecting, events, fault>>

\* InRecordInfo / OutRecordInfo: absent, isNonDiscoveryInterest true, false
Info == {"none", "nd", "disc"}
InfoOf(tagged) == IF tagged THEN "nd" ELSE "disc"

NackReason == {"NoRoute", "Other"}

\* Undefined behaviour: dereferencing pit::Entry::in_end(), and reading a
\* stack frame that has returned through a reference capture
UndefinedBehaviour == {"in_end", "dangling"}

\* What a step puts on a face: an Interest (with or without
\* NonDiscoveryTag), Data (with or without a PA) or a Nack
Packet == [kind : {"Interest"}, tagged : BOOLEAN] \cup [kind : {"Data"}, pa : BOOLEAN]
            \cup [kind : {"Nack"}, reason : NackReason]

\* wire: the Interest last received/sent carried NonDiscoveryTag;
\* by: which handler sent the out-record's last Interest (history)
InRecord == [wire : BOOLEAN, info : Info, live : BOOLEAN]
OutRecord == [wire : BOOLEAN, info : Info, nack : {"none"} \cup NackReason,
              live : BOOLEAN, by : {"unicast", "flood", "retx"}]

\* Data given to a downstream: with a PA or not, and what answered it
DataRecord == [pa : BOOLEAN, upstream : {"nd", "disc", "cs"}]

FindAnnTask == [op : {"findAnn"}, gen : Nat, inFace : Faces, from : Faces \cup {"cs"}]
AnnounceTask == [op : {"announce"}, face : Faces, origin : Faces]
RenewTask == [op : {"renew"}, face : Faces]
PaContinuation == [gen : Nat, inFace : Faces, from : Faces \cup {"cs"}]

NoRecords == [f \in Faces |-> NoRecord]
Live(r) == r # NoRecord /\ r.live

-----------------------------------------------------------------------------
(* State records: the variables the strategy and the forwarder change.     *)

St == [pit |-> pit, in |-> inRecords, out |-> outRecords, order |-> sendOrder,
       rib |-> ribQueue, main |-> mainQueue, data |-> dataSent,
       nacks |-> nacksSent, fault |-> fault, faces |-> faceTable, fib |-> fib,
       conn |-> connecting, sent |-> {}]

Commit(s) ==
  /\ pit' = s.pit /\ inRecords' = s.in /\ outRecords' = s.out
  /\ sendOrder' = s.order /\ ribQueue' = s.rib /\ mainQueue' = s.main
  /\ dataSent' = s.data /\ nacksSent' = s.nacks /\ fault' = s.fault
  /\ faceTable' = s.faces /\ fib' = s.fib /\ connecting' = s.conn

\* The packet p leaves on face f
Emit(s, f, p) == [s EXCEPT !.sent = @ \cup {[to |-> f, pkt |-> p]}]

-----------------------------------------------------------------------------
(* Forwarder services used by the strategy (spec.md sections 4.1, 4.2, 6). *)

\* RetxSuppressionExponential::decidePerPitEntry: NEW while nothing is
\* pending upstream; otherwise SUPPRESS or FORWARD depending on the time
\* since the last forward, which the model leaves open.
Suppression(s) ==
  IF \E f \in Faces : Live(s.out[f]) /\ s.out[f].nack = "none"
  THEN {"SUPPRESS", "FORWARD"}
  ELSE {"NEW"}

\* isNextHopEligible: not back to the ingress unless ad hoc; with wantUnused,
\* no unexpired out-record on the next hop.  The name is not under
\* /localhost or /localhop, so wouldViolateScope is false.
IsNextHopEligible(s, inFace, h, wantUnused) ==
  /\ h # inFace \/ h \in AdHocFaces
  /\ wantUnused => ~Live(s.out[h])

\* std::find_if over the next-hop list; 0 stands for nexthops.end()
FindEligible(s, inFace, wantUnused) ==
  SelectInSeq(s.fib, LAMBDA h : IsNextHopEligible(s, inFace, h, wantUnused))

\* findEligibleNextHopWithEarliestOutRecord
EarliestEligible(s, inFace) ==
  LET cands == {h \in ToSet(s.fib) : IsNextHopEligible(s, inFace, h, FALSE)}
      age(h) == SelectInSeq(s.order, LAMBDA x : x = h)
  IN IF cands = {} THEN NoFace
     ELSE CHOOSE h \in cands : \A g \in cands : age(h) <= age(g)

\* Mutation analysis: the face is appended without leaving its old place
SendInterestKeepsOldPlace(s, f, tagged, info, by) ==
  [Emit(s, f, [kind |-> "Interest", tagged |-> tagged])
     EXCEPT !.out[f] = [wire |-> tagged, info |-> info, nack |-> "none",
                        live |-> TRUE, by |-> by],
            !.order = @ \o <<f>>]

\* sendInterest: insert or update the out-record, renewing lastRenewed
SendInterest(s, f, tagged, info, by) ==
  [Emit(s, f, [kind |-> "Interest", tagged |-> tagged])
     EXCEPT !.out[f] = [wire |-> tagged, info |-> info, nack |-> "none",
                        live |-> TRUE, by |-> by],
            !.order = Remove(@, f) \o <<f>>]

\* sendDataToAll: Data to every unexpired downstream except the ingress
\* (unless ad hoc); sendData erases the in-record of the face it sends on
SendDataToAll(s, inFace, pa, upstream) ==
  LET to == {f \in Faces : Live(s.in[f]) /\ (f # inFace \/ f \in AdHocFaces)}
  IN [s EXCEPT !.data = [f \in Faces |-> IF f \in to THEN [pa |-> pa, upstream |-> upstream]
                                                   ELSE @[f]],
               !.in = [f \in Faces |-> IF f \in to THEN NoRecord ELSE @[f]],
               !.sent = @ \cup {[to |-> f, pkt |-> [kind |-> "Data", pa |-> pa]] : f \in to}]

\* The reason processNack gives downstreams: the least severe reason among
\* the upstream Nacks ("Other" stands for Congestion and Duplicate, both
\* less severe than NoRoute)
LeastSevereNack(s) ==
  IF \A f \in Faces : s.out[f] # NoRecord => s.out[f].nack # "Other"
  THEN "NoRoute" ELSE "Other"

\* Mutation analysis: Nacks that leave the in-records in place
ProcessNackKeepsInRecords(s) ==
  IF \E f \in Faces : s.out[f] # NoRecord /\ s.out[f].nack = "none"
  THEN s
  ELSE LET to == {f \in Faces : s.in[f] # NoRecord}
       IN [s EXCEPT !.nacks = [f \in Faces |-> IF f \in to THEN @[f] + 1 ELSE @[f]],
                    !.sent = @ \cup {[to |-> f, pkt |-> [kind |-> "Nack",
                                      reason |-> LeastSevereNack(s)]] : f \in to}]

\* Forwarder::onIncomingData, after the strategy: the out-record of the
\* face the Data came in on is deleted
DeleteOutRecord(s, f) == [s EXCEPT !.out[f] = NoRecord, !.order = Remove(@, f)]

\* sendNack: a Nack goes to a downstream only while it has an in-record,
\* and the forwarder erases that in-record as it sends (so the Nack is
\* propagated once, spec.md 4.13)
SendNack(s, f, reason) ==
  IF s.in[f] = NoRecord THEN s
  ELSE [Emit(s, f, [kind |-> "Nack", reason |-> reason])
          EXCEPT !.nacks[f] = @ + 1, !.in[f] = NoRecord]

\* ProcessNackTraits::processNack: wait while an out-record is not Nacked,
\* otherwise Nack every downstream that has an in-record
ProcessNack(s) ==
  IF \E f \in Faces : s.out[f] # NoRecord /\ s.out[f].nack = "none"
  THEN s
  ELSE LET to == {f \in Faces : s.in[f] # NoRecord}
       IN [s EXCEPT !.nacks = [f \in Faces |-> IF f \in to THEN @[f] + 1 ELSE @[f]],
                    !.in = NoRecords,
                    !.sent = @ \cup {[to |-> f, pkt |-> [kind |-> "Nack",
                                      reason |-> LeastSevereNack(s)]] : f \in to}]

-----------------------------------------------------------------------------
(* Strategy operations (src/unnamed/part_000).                             *)

\* isThisConsumer: exactly one in-record, on a local face
IsThisConsumer(s) ==
  \E c \in LocalFaces : /\ s.in[c] # NoRecord
                        /\ \A g \in Faces \ {c} : s.in[g] = NoRecord

NeedPrefixAnn(s) ==
  LET recs == {f \in Faces : Live(s.in[f])}
  IN (\E f \in recs : s.in[f].info = "disc") /\ (\E f \in recs : f \notin LocalFaces)

\* broadcastInterest: every non-local face but the ingress (unless ad hoc)
BroadcastInterest(s, inFace, tagged) ==
  LET targets == {f \in s.faces : (f # inFace \/ f \in AdHocFaces) /\ f \notin LocalFaces}
      records == [f \in Faces |-> IF f \in targets
                                  THEN [wire |-> tagged, info |-> "disc", nack |-> "none",
                                        live |-> TRUE, by |-> "flood"]
                                  ELSE s.out[f]]
  IN [s EXCEPT !.out = records,
               !.order = SelectSeq(@, LAMBDA x : x \notin targets) \o SetToSeq(targets),
               !.sent = @ \cup {[to |-> f, pkt |-> [kind |-> "Interest", tagged |-> tagged]]
                                 : f \in targets}]

\* hasUntriedNexthopHandler: record InRecordInfo on the ingress in-record,
\* tag the Interest non-discovery and send it; when the Interest object is
\* the one the PIT entry stores, setTag changes the stored Interest too.
\* pitEntry->getInRecord(ingress) may be in_end(): the dereference is
\* undefined behaviour, recorded in fault.
HasUntriedNexthopHandler(s, inFace, outFace, tagged, isStored) ==
  LET s1 == IF s.in[inFace] = NoRecord
            THEN [s EXCEPT !.fault = @ \cup {"in_end"}]
            ELSE [s EXCEPT !.in[inFace].info = InfoOf(tagged)]
      s2 == IF isStored THEN [s1 EXCEPT !.pit.tagged = TRUE] ELSE s1
  IN SendInterest(s2, outFace, TRUE, "nd", "unicast")

\* noNexthopHandler: Nack a non-discovery Interest, flood a discovery one
NoNexthopHandler(s, ingress, tagged) ==
  LET s1 == [s EXCEPT !.in[ingress].info = InfoOf(tagged)]
  IN IF tagged
     THEN [SendNack(s1, ingress, "NoRoute") EXCEPT !.pit.timer = "zero"]
     ELSE BroadcastInterest(s1, ingress, tagged)

\* allNexthopTriedHandler: resend the Interest as received to the eligible
\* next hop used earliest; its out-record keeps its OutRecordInfo
AllNexthopTriedHandler(s, ingress, tagged) ==
  LET h == EarliestEligible(s, ingress)
  IN IF h = NoFace THEN s
     ELSE SendInterest(s, h, tagged, s.out[h].info, "retx")

\* afterReceiveInterest.  The 2019 version has the same control and calls
\* withNexthopHandler(ingress.face, ...), which does what
\* hasUntriedNexthopHandler does on the ingress in-record; the PitEntryInfo
\* it inserts is read only by code that is commented out.
AfterReceiveInterest(s, ingress, tagged, isStored, suppression) ==
  CASE suppression = "SUPPRESS" -> s
    [] suppression = "NEW" ->
         LET i == FindEligible(s, ingress, FALSE)
         IN IF i = 0 THEN NoNexthopHandler(s, ingress, tagged)
            ELSE HasUntriedNexthopHandler(s, ingress, s.fib[i], tagged, isStored)
    [] OTHER ->
         LET i == FindEligible(s, ingress, TRUE)
         IN IF i = 0 THEN AllNexthopTriedHandler(s, ingress, tagged)
            ELSE HasUntriedNexthopHandler(s, ingress, s.fib[i], tagged, isStored)

\* Mutation analysis: slFindAnn posted without extending the expiry timer
AsyncProcessDataNoHold(s, inFace, from) ==
  [s EXCEPT !.rib = Append(@, [op |-> "findAnn", gen |-> s.pit.gen,
                               inFace |-> inFace, from |-> from])]

\* asyncProcessData, first half on F: hold the PIT entry for 1 s and post
\* slFindAnn to R with a weak reference to the entry and the face id
AsyncProcessData(s, inFace, from) ==
  [s EXCEPT !.pit.timer = "1s",
            !.rib = Append(@, [op |-> "findAnn", gen |-> s.pit.gen,
                               inFace |-> inFace, from |-> from])]

\* addRoute: post slAnnounce(pa, face, ROUTE_RENEW_LIFETIME) to R
AddRoute(s, face, origin) ==
  [s EXCEPT !.rib = Append(@, [op |-> "announce", face |-> face, origin |-> origin])]

\* renewRoute(name, face, 0_ms): post slRenew retiring the route to R
RenewRoute(s, face) == [s EXCEPT !.rib = Append(@, [op |-> "renew", face |-> face])]

\* afterContentStoreHit: the PIT entry's stored Interest decides whether
\* the Interest was discovery; Strategy::afterContentStoreHit sends the
\* Data to the ingress
AfterContentStoreHit(s, ingress, pa) ==
  IF ingress \notin LocalFaces /\ ~s.pit.tagged /\ ~pa
  THEN AsyncProcessData(s, ingress, "cs")
  ELSE [Emit(s, ingress, [kind |-> "Data", pa |-> pa])
          EXCEPT !.data[ingress] = [pa |-> pa, upstream |-> "cs"], !.in[ingress] = NoRecord]

-----------------------------------------------------------------------------
(* Forwarder steps.  A trigger is the forwarder pipeline step that leads   *)
(* to it followed by the whole strategy handler, atomically on F.          *)

\* The record of a forwarder that has not seen the name yet
InitState(fib0) ==
  [pit |-> [alive |-> FALSE, gen |-> 0, tagged |-> FALSE, timer |-> "zero"],
   in |-> NoRecords, out |-> NoRecords, order |-> <<>>, rib |-> <<>>, main |-> <<>>,
   data |-> NoRecords, nacks |-> [f \in Faces |-> 0], fault |-> {},
   faces |-> Faces \ OnDemandFaces, fib |-> fib0, conn |-> {}, sent |-> {}]

\* Forwarder::onIncomingInterest on face f: find or insert the PIT entry.
\* While the entry has no in-record the Content Store is looked up: a hit
\* (Data with a PA or not, from the set hits) goes to afterContentStoreHit
\* without an in-record; on a miss (possible when miss holds) the in-record
\* is inserted or refreshed, the expiry timer is set to the in-record's
\* lifetime, and afterReceiveInterest runs.
OnIncomingInterest(s, f, tagged, hits, miss) ==
  LET isNew == ~s.pit.alive
      s0 == IF isNew
            THEN [s EXCEPT !.pit = [alive |-> TRUE, gen |-> s.pit.gen + 1,
                                    tagged |-> tagged, timer |-> "lifetime"],
                           !.in = NoRecords, !.out = NoRecords, !.order = <<>>,
                           !.data = NoRecords, !.nacks = [g \in Faces |-> 0]]
            ELSE s
      pending == \E g \in Faces : s0.in[g] # NoRecord
      s1 == [s0 EXCEPT !.in[f] = [wire |-> tagged, live |-> TRUE,
                                  info |-> IF @ = NoRecord THEN "none" ELSE @.info],
                       !.pit.timer = "lifetime"]
  IN (IF pending THEN {}
      ELSE {AfterContentStoreHit([s0 EXCEPT !.pit.timer = "zero"], f, pa) : pa \in hits})
     \cup (IF pending \/ miss
           THEN {AfterReceiveInterest(s1, f, tagged, isNew, sup) : sup \in Suppression(s1)}
           ELSE {})

\* Mutation analysis: slAnnounce adds the next hop even when the FIB
\* entry already has it
OnRibTaskDuplicatesRoute(s) ==
  LET t == Head(s.rib)
      s0 == [s EXCEPT !.rib = Tail(@)]
  IN CASE t.op = "findAnn" ->
            IF s.fib = <<>> THEN s0
            ELSE [s0 EXCEPT !.main = Append(@, [gen |-> t.gen, inFace |-> t.inFace,
                                                from |-> t.from])]
       [] t.op = "announce" ->
            IF t.face \notin s.faces THEN s0 ELSE [s0 EXCEPT !.fib = Append(@, t.face)]
       [] t.op = "renew" -> [s0 EXCEPT !.fib = Remove(@, t.face)]

\* Mutation analysis: slRenew with lifetime 0 renews the route instead of
\* retiring it
OnRibTaskKeepsRetired(s) ==
  LET t == Head(s.rib)
      s0 == [s EXCEPT !.rib = Tail(@)]
  IN CASE t.op = "findAnn" ->
            IF s.fib = <<>> THEN s0
            ELSE [s0 EXCEPT !.main = Append(@, [gen |-> t.gen, inFace |-> t.inFace,
                                                from |-> t.from])]
       [] t.op = "announce" ->
            IF t.face \in ToSet(s.fib) \/ t.face \notin s.faces THEN s0
            ELSE [s0 EXCEPT !.fib = Append(@, t.face)]
       [] t.op = "renew" -> s0

\* The RIB thread runs the oldest posted task.  slFindAnn finds a PA when
\* the RIB has a route for the name; the callback posts the continuation to
\* F only when it found one.  slAnnounce and slRenew(0) update the route,
\* which the RIB propagates to the FIB.
OnRibTask(s) ==
  LET t == Head(s.rib)
      s0 == [s EXCEPT !.rib = Tail(@)]
  IN CASE t.op = "findAnn" ->
            IF s.fib = <<>> THEN s0
            ELSE [s0 EXCEPT !.main = Append(@, [gen |-> t.gen, inFace |-> t.inFace,
                                                from |-> t.from])]
       [] t.op = "announce" ->
            IF t.face \in ToSet(s.fib) \/ t.face \notin s.faces THEN s0
            ELSE [s0 EXCEPT !.fib = Append(@, t.face)]
       [] t.op = "renew" -> [s0 EXCEPT !.fib = Remove(@, t.face)]

\* asyncProcessData, second half on F: lock the weak PIT reference, look the
\* face up by id, attach the PA, send the Data to all and release the entry.
OnPaContinuation(s) ==
  LET c == Head(s.main)
      s0 == [s EXCEPT !.main = Tail(@)]
  IN IF s.pit.alive /\ s.pit.gen = c.gen /\ c.inFace \in s.faces
     THEN [SendDataToAll(s0, c.inFace, TRUE, IF c.from = "cs" THEN "cs" ELSE "nd")
             EXCEPT !.pit.timer = "zero"]
     ELSE s0

\* The PIT entry's expiry timer fires: the entry and its records are gone
OnPitExpiry(s) ==
  [s EXCEPT !.pit.alive = FALSE, !.in = NoRecords, !.out = NoRecords, !.order = <<>>]

\* A non-local face fails: it leaves the face table, the FIB and the PIT.
OnFaceDown(s, f) ==
  [s EXCEPT !.faces = @ \ {f}, !.fib = Remove(@, f), !.in[f] = NoRecord,
            !.out[f] = NoRecord, !.order = Remove(@, f)]

-----------------------------------------------------------------------------
(* Actions of one forwarder, whose faces deliver any packet at any time.   *)

Init ==
  /\ \E fib0 \in InitFibs :
       LET s == InitState(fib0)
       IN /\ pit = s.pit /\ inRecords = s.in /\ outRecords = s.out
          /\ sendOrder = s.order /\ ribQueue = s.rib /\ mainQueue = s.main
          /\ dataSent = s.data /\ nacksSent = s.nacks /\ fault = s.fault
          /\ faceTable = s.faces /\ fib = s.fib /\ connecting = s.conn
  /\ events = 0

\* An Interest arrives on face f (applications never set NonDiscoveryTag);
\* the Content Store may hold Data with or without a PA, or miss.
ReceiveInterest(f, tagged) ==
  /\ events < MaxEvents
  /\ f \in faceTable
  /\ tagged => f \notin LocalFaces
  /\ pit.alive \/ pit.gen < MaxPitGen
  /\ \E t \in OnIncomingInterest(St, f, tagged, BOOLEAN, TRUE) : Commit(t)
  /\ events' = events + 1

RibStep ==
  /\ ribQueue # <<>>
  /\ Commit(OnRibTask(St))
  /\ UNCHANGED events

PaContinuationStep ==
  /\ mainQueue # <<>>
  /\ Commit(OnPaContinuation(St))
  /\ UNCHANGED events

\* The PIT entry's expiry timer fires (a zero timer at once, others later).
PitExpires ==
  /\ pit.alive
  /\ Commit(OnPitExpiry(St))
  /\ UNCHANGED events

\* An in-record or out-record reaches its expiry (Interest lifetime); the
\* passing of time counts as a network event.
InRecordExpires(f) ==
  /\ events < MaxEvents
  /\ Live(inRecords[f])
  /\ Commit([St EXCEPT !.in[f].live = FALSE])
  /\ events' = events + 1

OutRecordExpires(f) ==
  /\ events < MaxEvents
  /\ Live(outRecords[f])
  /\ Commit([St EXCEPT !.out[f].live = FALSE])
  /\ events' = events + 1

FaceDown(f) ==
  /\ events < MaxEvents
  /\ f \in faceTable \ LocalFaces
  /\ Commit(OnFaceDown(St, f))
  /\ events' = events + 1

-----------------------------------------------------------------------------
(* Properties.                                                             *)

TypeOK ==
  /\ faceTable \subseteq Faces
  /\ IsInjective(fib) /\ ToSet(fib) \subseteq Faces
  /\ pit \in [alive : BOOLEAN, gen : 0..MaxPitGen, tagged : BOOLEAN,
              timer : {"lifetime", "1s", "zero"}]
  /\ inRecords \in [Faces -> InRecord \cup {NoRecord}]
  /\ outRecords \in [Faces -> OutRecord \cup {NoRecord}]
  /\ IsInjective(sendOrder) /\ ToSet(sendOrder) \subseteq Faces
  /\ \A i \in DOMAIN ribQueue : ribQueue[i] \in FindAnnTask \cup AnnounceTask \cup RenewTask
  /\ \A i \in DOMAIN mainQueue : mainQueue[i] \in PaContinuation
  /\ dataSent \in [Faces -> DataRecord \cup {NoRecord}]
  /\ nacksSent \in [Faces -> Nat]
  /\ events \in 0..MaxEvents
  /\ connecting \subseteq [gen : 1..MaxPitGen, face : MultiAccessFaces]
  /\ fault \subseteq UndefinedBehaviour

\* A non-discovery Interest is routed through the FIB: a step that sends
\* the entry's Interest with NonDiscoveryTag on face f (its out-record
\* renewed, live and not Nacked) sends it only to a next hop the FIB lists;
\* every other face gets the Interest only as discovery (spec.md 8: a
\* non-discovery Interest is routed through the FIB or answered with a
\* NoRoute Nack).  hasUntriedNexthopHandler and withNexthopHandler tag it,
\* broadcastInterest and the consumer's restart must have stripped it.
NonDiscoveryFollowsFib ==
  [][ \A f \in Faces :
        /\ outRecords'[f] # outRecords[f] /\ Live(outRecords'[f])
        /\ outRecords'[f].nack = "none" /\ outRecords'[f].wire
        => f \in ToSet(fib) ]_vars

\* A route learnt from a Prefix Announcement points at the face the Data
\* came in on, or, for a multi-access face, at the unicast face its channel
\* opened to the sender (afterReceiveData, addRoute; spec.md section 8.4).
AnnouncedFaceIsDataFace ==
  \A i \in DOMAIN ribQueue :
     ribQueue[i].op = "announce" =>
       ribQueue[i].face = IF ribQueue[i].origin \in MultiAccessFaces
                          THEN ChannelPeer[ribQueue[i].origin]
                          ELSE ribQueue[i].origin

NoEndIteratorDereference == "in_end" \notin fault

\* Data answering a non-discovery upstream Interest reaches a non-local
\* downstream that asked with a discovery Interest only with a PA attached
\* (needPrefixAnn, header comment of SelfLearningStrategy).
PAAttachedWhenRequired ==
  [][ \A f \in Faces \ LocalFaces :
        /\ dataSent'[f] # dataSent[f] /\ dataSent'[f] # NoRecord
        /\ dataSent'[f].upstream = "nd" /\ ~dataSent'[f].pa
        => inRecords[f] # NoRecord /\ inRecords[f].wire ]_vars

\* While a PA lookup for the PIT entry is outstanding on either thread, the
\* entry's expiry timer is not zero (spec.md section 3).
ExpiryHeldDuringRibCall ==
  LET outstanding ==
        \/ \E i \in DOMAIN ribQueue : ribQueue[i].op = "findAnn" /\ ribQueue[i].gen = pit.gen
        \/ \E i \in DOMAIN mainQueue : mainQueue[i].gen = pit.gen
  IN pit.alive /\ outstanding => pit.timer # "zero"

\* One trigger sends a downstream at most one Nack (spec.md 4.13: the Nack
\* is propagated once in any terminal branch of afterReceiveNack).
NackPropagatedOnce ==
  [][ \A f \in Faces : nacksSent'[f] <= nacksSent[f] + 1 ]_vars

\* A Content Store hit for a non-local discovery Interest is answered: when
\* the PA continuation of the hit runs for its still existing entry, the
\* face that asked receives the Data (afterContentStoreHit hands the
\* requester to asyncProcessData as the face the Data came from).
CsHitAnswersRequester ==
  [][ (/\ mainQueue # <<>> /\ mainQueue' = Tail(mainQueue)
       /\ Head(mainQueue).from = "cs" /\ Head(mainQueue).inFace \in faceTable
       /\ pit.alive /\ pit.gen = Head(mainQueue).gen)
      => dataSent'[Head(mainQueue).inFace] # dataSent[Head(mainQueue).inFace] ]_vars

ExpiryHeldDuringFaceCreation ==
  \A c \in connecting : pit.alive /\ pit.gen = c.gen => pit.timer # "zero"

\* A next hop that answered NoRoute is tried again for the same PIT entry
\* only inside the window in which its retirement is still queued: a step
\* that sends the entry's Interest on a route (not a discovery flood) to a
\* face whose out-record holds a NoRoute Nack happens only while the
\* slRenew(0) that afterReceiveNack posted for that face has not yet run
\* on the RIB thread (renewRoute, OnRibTask; spec.md 4.13).
NoRouteFaceRetriedOnlyWhileRetireQueued ==
  [][ \A f \in Faces :
        /\ outRecords[f] # NoRecord /\ outRecords[f].nack = "NoRoute"
        /\ outRecords'[f] # NoRecord /\ outRecords'[f].nack = "none"
        /\ outRecords'[f].by # "flood"
        => \E i \in DOMAIN ribQueue : ribQueue[i] = [op |-> "renew", face |-> f] ]_vars

=============================================================================
