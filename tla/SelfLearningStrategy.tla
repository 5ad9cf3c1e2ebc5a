------------------------- MODULE SelfLearningStrategy -------------------------
(***************************************************************************)
(* The triggers of SelfLearningStrategy that src/unnamed/part_000 writes   *)
(* differently from the 2019 version: afterReceiveData (the multi-access   *)
(* face's channel is asked to connect, with callbacks that capture the     *)
(* handler's frame by reference) and afterReceiveNack                      *)
(* (hasUntriedNexthopHandler on the Nack's face, then processNack once     *)
(* more).                                                                  *)
(***************************************************************************)
EXTENDS SelfLearningCommon

-----------------------------------------------------------------------------
(* Strategy operations (src/unnamed/part_000).                             *)

\* channel->connect either runs one of its callbacks before it returns
\* ("created", "failed") or returns first and completes later ("pending";
\* spec.md 4.11 and section 5 make face creation asynchronous)
ConnectOutcome == {"created", "failed", "pending"}

\* The multi-access branch of afterReceiveData: connect to the sender; the
\* success callback adds the face and announces the route towards it
ConnectToSender(s, ingress, connect) ==
  LET peer == ChannelPeer[ingress]
  IN CASE connect = "created" -> AddRoute([s EXCEPT !.faces = @ \cup {peer}], peer, ingress)
       [] connect = "pending" ->
            [s EXCEPT !.conn = @ \cup {[gen |-> s.pit.gen, face |-> ingress]}]
       [] OTHER -> s

\* Mutation analysis: the route is announced on the multi-access face itself
AfterReceiveDataAnnouncesIngress(s, ingress, pa, connect) ==
  IF s.out[ingress] = NoRecord THEN s
  ELSE IF s.out[ingress].info = "nd"
  THEN IF ~NeedPrefixAnn(s) THEN SendDataToAll(s, ingress, pa, "nd")
       ELSE AsyncProcessData(s, ingress, ingress)
  ELSE LET s1 == IF pa THEN AddRoute(s, ingress, ingress) ELSE s
       IN SendDataToAll(s1, ingress, pa, "disc")

\* Mutation analysis: the route is announced on a downstream face of the
\* PIT entry instead of the face the Data came from
AfterReceiveDataAnnouncesDownstream(s, ingress, pa, connect) ==
  IF s.out[ingress] = NoRecord THEN s
  ELSE IF s.out[ingress].info = "nd"
  THEN IF ~NeedPrefixAnn(s) THEN SendDataToAll(s, ingress, pa, "nd")
       ELSE AsyncProcessData(s, ingress, ingress)
  ELSE LET down == {f \in Faces \ {ingress} : s.in[f] # NoRecord}
           s1 == IF pa /\ down # {} THEN AddRoute(s, CHOOSE f \in down : TRUE, ingress) ELSE s
       IN SendDataToAll(s1, ingress, pa, "disc")

\* afterReceiveData
AfterReceiveData(s, ingress, pa, connect) ==
  IF s.out[ingress] = NoRecord THEN s
  ELSE IF s.out[ingress].info = "nd"
  THEN IF ~NeedPrefixAnn(s) THEN SendDataToAll(s, ingress, pa, "nd")
       ELSE AsyncProcessData(s, ingress, ingress)
  ELSE LET s1 == CASE ~pa -> s
                   [] ingress \in MultiAccessFaces -> ConnectToSender(s, ingress, connect)
                   [] OTHER -> AddRoute(s, ingress, ingress)
       IN SendDataToAll(s1, ingress, pa, "disc")

\* Mutation analysis: the consumer floods the stored Interest without
\* removing its NonDiscoveryTag
NoRouteRecoveryKeepsTag(s, ingress) ==
  IF s.out[ingress].info # "nd" THEN s
  ELSE LET i == FindEligible(s, ingress, TRUE)
       IN IF i # 0
          THEN HasUntriedNexthopHandler(s, ingress, s.fib[i], s.pit.tagged, TRUE)
          ELSE IF IsThisConsumer(s)
          THEN LET c == CHOOSE f \in LocalFaces : s.in[f] # NoRecord
               IN BroadcastInterest([s EXCEPT !.in[c].info = "disc"], c, s.pit.tagged)
          ELSE ProcessNack(s)

\* afterReceiveNack, NoRoute on a non-discovery out-record: try an untried
\* next hop, else restart discovery at the consumer, else propagate
NoRouteRecovery(s, ingress) ==
  IF s.out[ingress].info # "nd" THEN s
  ELSE LET i == FindEligible(s, ingress, TRUE)
       IN IF i # 0
          THEN HasUntriedNexthopHandler(s, ingress, s.fib[i], s.pit.tagged, TRUE)
          ELSE IF IsThisConsumer(s)
          THEN LET c == CHOOSE f \in LocalFaces : s.in[f] # NoRecord
               IN BroadcastInterest([s EXCEPT !.in[c].info = "disc"], c, FALSE)
          ELSE ProcessNack(s)

AfterReceiveNack(s, ingress, reason) ==
  IF reason # "NoRoute" THEN ProcessNack(s)
  ELSE LET r == RenewRoute(s, ingress)
       IN IF r.out[ingress] = NoRecord THEN r
          ELSE ProcessNack(NoRouteRecovery(r, ingress))


\* Forwarder::onIncomingData sets the expiry timer to 0 before dispatching
\* (comment in asyncProcessData) and deletes the out-record of f after the
\* strategy.
OnIncomingData(s, f, pa) ==
  {DeleteOutRecord(AfterReceiveData([s EXCEPT !.pit.timer = "zero"], f, pa, c), f) :
     c \in ConnectOutcome}

\* Forwarder::onIncomingNack drops a Nack from a face without an out-record
\* and otherwise records the Nack on it before the strategy runs
OnIncomingNack(s, f, reason) ==
  IF s.out[f] = NoRecord THEN s
  ELSE AfterReceiveNack([s EXCEPT !.out[f].nack = reason], f, reason)

\* The channel completes a pending connect after afterReceiveData returned.
\* The success callback captured pitEntry, data and paTag by reference
\* ([&]) from that returned frame: reading them is undefined behaviour,
\* recorded in fault; the outcome modelled is the one where the stale
\* frame still holds them and the face is added and the route announced.
\* The failure callback captures nothing and only logs.
OnConnectDone(s, c, ok) ==
  LET peer == ChannelPeer[c.face]
      s0 == [s EXCEPT !.conn = @ \ {c}]
  IN IF ok THEN AddRoute([s0 EXCEPT !.faces = @ \cup {peer},
                                    !.fault = @ \cup {"dangling"}], peer, c.face)
     ELSE s0

\* Data arrives on face f
ReceiveData(f, pa) ==
  /\ events < MaxEvents
  /\ pit.alive
  /\ f \in faceTable
  /\ \E t \in OnIncomingData(St, f, pa) : Commit(t)
  /\ events' = events + 1

\* A Nack arrives on face f
ReceiveNack(f, reason) ==
  /\ events < MaxEvents
  /\ pit.alive
  /\ f \in faceTable
  /\ Commit(OnIncomingNack(St, f, reason))
  /\ events' = events + 1

\* A pending connect completes, with a new face or a failure
ConnectDone(c) ==
  /\ c \in connecting
  /\ \E ok \in BOOLEAN : Commit(OnConnectDone(St, c, ok))
  /\ UNCHANGED events

Next ==
  \/ \E f \in Faces, tagged \in BOOLEAN : ReceiveInterest(f, tagged)
  \/ \E f \in Faces, pa \in BOOLEAN : ReceiveData(f, pa)
  \/ \E f \in Faces, reason \in NackReason : ReceiveNack(f, reason)
  \/ \E c \in connecting : ConnectDone(c)
  \/ RibStep
  \/ PaContinuationStep
  \/ PitExpires
  \/ \E f \in Faces : InRecordExpires(f) \/ OutRecordExpires(f) \/ FaceDown(f)

Spec == Init /\ [][Next]_vars

-----------------------------------------------------------------------------
(* Properties.                                                             *)

\* The success callback of channel->connect never runs on a handler frame
\* that has returned: afterReceiveData passes a lambda capturing pitEntry,
\* data and paTag by reference ([&]), and the callback that adds the face
\* and calls addRoute must not read them after afterReceiveData returned.
NoDanglingCapture == "dangling" \notin fault

=============================================================================
