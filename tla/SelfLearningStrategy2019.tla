----------------------- MODULE SelfLearningStrategy2019 -----------------------
(***************************************************************************)
(* The 2019 version of SelfLearningStrategy                                *)
(* (src/daemon/fw/self-learning-strategy.cpp).  It shares the forwarder    *)
(* and most handlers with the current version (SelfLearningCommon) and     *)
(* differs in three places:                                                *)
(*  - afterReceiveData learns a route from Data with a PA whenever the     *)
(*    out-record is absent or discovery, and on a multi-access face        *)
(*    extends the expiry timer and asks for a unicast face, whose creation *)
(*    completes later through afterUnicastFaceCreationSuccess/Failure;     *)
(*  - afterReceiveNack acts on NoRoute Nacks only, retries an untried next *)
(*    hop for the PIT entry's first in-record (withNexthopHandler), and    *)
(*    calls processNack only when no retry or restart happens;             *)
(*  - no processNack follows the NoRoute recovery.                         *)
(***************************************************************************)
EXTENDS SelfLearningCommon

-----------------------------------------------------------------------------
(* Strategy operations (src/daemon/fw/self-learning-strategy.cpp).         *)

\* withNexthopHandler(inFace, ...): as hasUntriedNexthopHandler, but on the
\* in-record of the face it is given.  afterReceiveNack gives it
\* pitEntry->in_begin()->getFace(), undefined when the entry has no
\* in-record (NoFace here), recorded in fault.
WithNexthopHandler(s, inFace, outFace, tagged, isStored) ==
  LET s1 == IF inFace = NoFace THEN [s EXCEPT !.fault = @ \cup {"in_end"}]
            ELSE [s EXCEPT !.in[inFace].info = InfoOf(tagged)]
      s2 == IF isStored THEN [s1 EXCEPT !.pit.tagged = TRUE] ELSE s1
  IN SendInterest(s2, outFace, TRUE, "nd", "unicast")

\* afterReceiveData: both the branch without out-record and the branch for
\* a discovery out-record learn the route and send the Data to all
AfterReceiveData(s, ingress, pa) ==
  IF s.out[ingress] # NoRecord /\ s.out[ingress].info = "nd"
  THEN IF ~NeedPrefixAnn(s) THEN SendDataToAll(s, ingress, pa, "nd")
       ELSE AsyncProcessData(s, ingress, ingress)
  ELSE LET s1 == CASE ~pa -> s
                   [] ingress \in MultiAccessFaces ->
                        [s EXCEPT !.pit.timer = "1s",
                                  !.conn = @ \cup {[gen |-> s.pit.gen, face |-> ingress]}]
                   [] OTHER -> AddRoute(s, ingress, ingress)
       IN SendDataToAll(s1, ingress, pa, "disc")

\* Mutation analysis: the consumer floods the stored Interest with its
\* NonDiscoveryTag still attached
NoRouteRecoveryFloodsTagged(s, ingress, first) ==
  IF s.out[ingress].info # "nd" THEN s
  ELSE LET i == FindEligible(s, ingress, TRUE)
       IN IF i # 0
          THEN WithNexthopHandler(s, first, s.fib[i], s.pit.tagged, TRUE)
          ELSE IF IsThisConsumer(s)
          THEN BroadcastInterest([s EXCEPT !.in[first].info = "disc"], first, s.pit.tagged)
          ELSE ProcessNack(s)

\* afterReceiveNack, NoRoute on a non-discovery out-record; first is the
\* face of the entry's first in-record (NoFace when there is none)
NoRouteRecovery(s, ingress, first) ==
  IF s.out[ingress].info # "nd" THEN s
  ELSE LET i == FindEligible(s, ingress, TRUE)
       IN IF i # 0
          THEN WithNexthopHandler(s, first, s.fib[i], s.pit.tagged, TRUE)
          ELSE IF IsThisConsumer(s)
          THEN BroadcastInterest([s EXCEPT !.in[first].info = "disc"], first, FALSE)
          ELSE ProcessNack(s)

\* afterReceiveNack: everything happens inside the NoRoute branch
AfterReceiveNack(s, ingress, reason, first) ==
  IF reason # "NoRoute" THEN s
  ELSE LET r == RenewRoute(s, ingress)
       IN IF r.out[ingress] = NoRecord THEN r
          ELSE NoRouteRecovery(r, ingress, first)

\* The faces that may be the entry's first in-record (the model does not
\* keep the order in which in-records were inserted)
FirstInRecord(s) ==
  LET holders == {f \in Faces : s.in[f] # NoRecord}
  IN IF holders = {} THEN {NoFace} ELSE holders

-----------------------------------------------------------------------------
(* Actions.                                                                *)

\* Forwarder::onIncomingData zeroes the timer first and deletes the
\* out-record of f after the strategy
OnIncomingData(s, f, pa) ==
  {DeleteOutRecord(AfterReceiveData([s EXCEPT !.pit.timer = "zero"], f, pa), f)}

\* Forwarder::onIncomingNack drops a Nack from a face without an out-record
\* and otherwise records the Nack on it before the strategy runs
OnIncomingNack(s, f, reason) ==
  IF s.out[f] = NoRecord THEN {s}
  ELSE LET s0 == [s EXCEPT !.out[f].nack = reason]
       IN {AfterReceiveNack(s0, f, reason, first) : first \in FirstInRecord(s0)}

\* Mutation analysis: the route is announced on the multi-access face
OnUnicastFaceCreatedAnnouncesChannel(s, c) ==
  LET s0 == AddRoute([s EXCEPT !.faces = @ \cup {ChannelPeer[c.face]},
                               !.conn = @ \ {c}], c.face, c.face)
  IN IF s.pit.alive /\ s.pit.gen = c.gen THEN SendDataToAll(s0, c.face, TRUE, "disc") ELSE s0

\* The channel created the unicast face: the face is added to the face
\* table, then afterUnicastFaceCreationSuccess announces the route towards
\* it and sends the Data to all downstreams of the entry it holds.
OnUnicastFaceCreated(s, c) ==
  LET peer == ChannelPeer[c.face]
      s0 == AddRoute([s EXCEPT !.faces = @ \cup {peer}, !.conn = @ \ {c}], peer, c.face)
  IN IF s.pit.alive /\ s.pit.gen = c.gen THEN SendDataToAll(s0, c.face, TRUE, "disc") ELSE s0

\* The channel failed: afterUnicastFaceCreationFailure sends the Data to
\* all downstreams and learns no route.
OnUnicastFaceCreationFailed(s, c) ==
  LET s0 == [s EXCEPT !.conn = @ \ {c}]
  IN IF s.pit.alive /\ s.pit.gen = c.gen THEN SendDataToAll(s0, c.face, TRUE, "disc") ELSE s0

ReceiveData(f, pa) ==
  /\ events < MaxEvents
  /\ pit.alive
  /\ f \in faceTable
  /\ \E t \in OnIncomingData(St, f, pa) : Commit(t)
  /\ events' = events + 1

ReceiveNack(f, reason) ==
  /\ events < MaxEvents
  /\ pit.alive
  /\ f \in faceTable
  /\ \E t \in OnIncomingNack(St, f, reason) : Commit(t)
  /\ events' = events + 1

UnicastFaceCreated(c) ==
  /\ c \in connecting
  /\ Commit(OnUnicastFaceCreated(St, c))
  /\ UNCHANGED events

UnicastFaceCreationFailed(c) ==
  /\ c \in connecting
  /\ Commit(OnUnicastFaceCreationFailed(St, c))
  /\ UNCHANGED events

Next2019 ==
  \/ \E f \in Faces, tagged \in BOOLEAN : ReceiveInterest(f, tagged)
  \/ \E f \in Faces, pa \in BOOLEAN : ReceiveData(f, pa)
  \/ \E f \in Faces, reason \in NackReason : ReceiveNack(f, reason)
  \/ \E c \in connecting : UnicastFaceCreated(c) \/ UnicastFaceCreationFailed(c)
  \/ RibStep
  \/ PaContinuationStep
  \/ PitExpires
  \/ \E f \in Faces : InRecordExpires(f) \/ OutRecordExpires(f) \/ FaceDown(f)

Spec2019 == Init /\ [][Next2019]_vars

=============================================================================
