------------------------ MODULE MCSelfLearningNetwork ------------------------
(***************************************************************************)
(* A line of three forwarders: the consumer C, the router R and the        *)
(* producer P.  C's application is on its face L and C reaches R on A; R   *)
(* reaches C on A and P on B; P reaches R on A and its application on L,   *)
(* the FIB's only next hop at P.  C and R start without a route.           *)
(* The branch adds a dead end: the forwarder D, on R's face E, that has no  *)
(* route and no application, so a route of R towards E leads nowhere.     *)
(***************************************************************************)
EXTENDS SelfLearningNetwork

CONSTANTS C, R, P, D, L, A, B, E

MCNode == {C, R, P}
MCNodeFaces == (C :> {L, A}) @@ (R :> {A, B}) @@ (P :> {A, L})
MCPeer == (<<C, A>> :> <<R, A>>) @@ (<<R, A>> :> <<C, A>>)
            @@ (<<R, B>> :> <<P, A>>) @@ (<<P, A>> :> <<R, B>>)
MCInitFib == (C :> <<>>) @@ (R :> <<>>) @@ (P :> <<L>>)

MCBranchNode == MCNode \cup {D}
MCBranchNodeFaces == (C :> {L, A}) @@ (R :> {A, B, E}) @@ (P :> {A, L}) @@ (D :> {A})
MCBranchPeer == MCPeer @@ (<<R, E>> :> <<D, A>>) @@ (<<D, A>> :> <<R, E>>)
MCBranchInitFib == MCInitFib @@ (D :> <<>>)
=============================================================================
