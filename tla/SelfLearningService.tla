------------------------- MODULE SelfLearningService -------------------------
(***************************************************************************)
(* What a network of self-learning forwarders promises, with packets,      *)
(* PIT entries and threads abstracted away (spec.md section 1): routes are *)
(* learnt one at a time and only towards the producer of the name, a       *)
(* learnt route may be retired again, and the consumer application gets   *)
(* Data only in answer to an Interest it expressed, never more Data than  *)
(* Interests.                                                              *)
(***************************************************************************)
EXTENDS Naturals

CONSTANTS
  Node,        \* the forwarders
  Toward,      \* Toward[n]: the faces of n that lead to the producer
  InitRoutes   \* InitRoutes[n]: the next hops n is configured with

VARIABLES
  routes,      \* routes[n]: the next hops of the name at forwarder n
  requests,    \* Interests the consumer application has expressed
  answered     \* Data the consumer application has received

serviceVars == <<routes, requests, answered>>

Init ==
  /\ routes = InitRoutes
  /\ requests = 0
  /\ answered = 0

\* The consumer application expresses an Interest
Request ==
  /\ requests' = requests + 1
  /\ UNCHANGED <<routes, answered>>

\* The consumer application receives Data for an Interest not yet answered
Answer ==
  /\ answered < requests
  /\ answered' = answered + 1
  /\ UNCHANGED <<routes, requests>>

\* Forwarder n learns a route on face f, which leads to the producer
Learn(n, f) ==
  /\ f \in Toward[n] \ routes[n]
  /\ routes' = [routes EXCEPT ![n] = @ \cup {f}]
  /\ UNCHANGED <<requests, answered>>

\* Forwarder n retires its route on face f
Forget(n, f) ==
  /\ f \in routes[n]
  /\ routes' = [routes EXCEPT ![n] = @ \ {f}]
  /\ UNCHANGED <<requests, answered>>

Next ==
  \/ Request
  \/ Answer
  \/ \E n \in Node : \E f \in Toward[n] : Learn(n, f)
  \/ \E n \in Node : \E f \in routes[n] : Forget(n, f)

Spec == Init /\ [][Next]_serviceVars

=============================================================================
