----------------------- MODULE MCLoadBalancerClient ------------------------
(***************************************************************************)
(* Instances of LoadBalancerClient for TLC. One backend set and one         *)
(* listener suffice: the ETag belongs to the load balancer, so requests on  *)
(* different resources meet each other as those on one do.                  *)
(***************************************************************************)
EXTENDS LoadBalancerClient, TLC

CONSTANTS w1, w2, b1, b2, l1, d1, d2, e1, e2, c1, c2

WorkerSymmetry == Permutations(Worker)

BackendSetBefore == [details |-> d1, backends |-> e1]
ListenerBefore   == [config |-> c1, routingPolicy |-> Absent]

Holding(bs, l, rp) ==
  [backendSets |-> [b \in BackendSet |-> bs], listeners |-> [x \in Listener |-> l],
   routingPolicies |-> [x \in Listener |-> rp]]

\* The ingress controller syncs details, creates and deletes; the backend
\* controller updates backends.
BackendSetCalls ==
  {[kind |-> "CreateBackendSet", name |-> b1, value |-> [details |-> d2, backends |-> e1]],
   [kind |-> "UpdateBackends", name |-> b1, value |-> e2],
   [kind |-> "UpdateBackendSetDetails", name |-> b1, value |-> d2],
   [kind |-> "DeleteBackendSet", name |-> b1, value |-> Absent]}

BackendSetDocuments == {Holding(BackendSetBefore, Absent, Absent), Holding(Absent, Absent, Absent)}

\* The ingress controller owns a listener's configuration, the routing policy
\* controller its routing policy.
ListenerCalls ==
  {[kind |-> "CreateListener", name |-> l1, value |-> c1],
   [kind |-> "UpdateListener", name |-> l1, value |-> c2],
   [kind |-> "DeleteListener", name |-> l1, value |-> Absent],
   [kind |-> "FindRoutingPolicy", name |-> l1, value |-> [forwardTo |-> BackendSet]],
   [kind |-> "DetachRoutingPolicy", name |-> l1, value |-> Absent]}

ListenerDocuments ==
  {Holding(BackendSetBefore, Absent, Absent),
   Holding(BackendSetBefore, ListenerBefore, [forwardTo |-> {b1}])}
=============================================================================
