------------------------- MODULE MCSelfLearningFaces -------------------------
(***************************************************************************)
(* The forwarder both versions are checked on: one application face L, two *)
(* point-to-point peers A and B, one multi-access face M whose channel     *)
(* opens the unicast face U to the Data sender, and a FIB that starts      *)
(* empty, with one route, with two routes, or with the producer            *)
(* application as next hop.                                                *)
(***************************************************************************)
CONSTANTS L, A, B, M, U

MCFaces == {L, A, B, M, U}
MCLocalFaces == {L}
MCMultiAccessFaces == {M}
MCAdHocFaces == {}
MCChannelPeer == [m \in {M} |-> U]
MCInitFibs == {<<>>, <<A>>, <<A, B>>, <<L>>}
=============================================================================
