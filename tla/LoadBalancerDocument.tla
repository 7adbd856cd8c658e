------------------------ MODULE LoadBalancerDocument ------------------------
(***************************************************************************)
(* What the OCI load balancer service stores for one load balancer, and    *)
(* the calls LoadBalancerClient (pkg/loadbalancer/loadbalancer.go) makes   *)
(* to change it: when a call has nothing to do on a document it has read,  *)
(* and the value its request puts in place of the old one.                 *)
(*                                                                         *)
(* A routing policy carries its listener's name (EnsureRoutingPolicy is    *)
(* given one name for both), so policies are indexed by Listener.          *)
(***************************************************************************)
CONSTANTS BackendSet,   \* names of backend sets
          Listener,     \* names of listeners, hence of routing policies
          Details,      \* TLS, health checker, policy, cookies of a backend set
          Backends,     \* lists of backends (endpoints or nodes)
          Config,       \* protocol, TLS, default backend set, idle timeout
          Absent        \* no such resource

BackendSetValue == [details : Details, backends : Backends]
ListenerValue   == [config : Config, routingPolicy : Listener \cup {Absent}]
\* A policy's rules, kept as the backend sets they forward to.
Rules           == [forwardTo : (SUBSET BackendSet) \ {{}}]

ASSUME AbsentAssumption ==
  /\ Absent \notin BackendSetValue
  /\ Absent \notin ListenerValue
  /\ Absent \notin Rules
  /\ Absent \notin Listener

Document ==
  [backendSets     : [BackendSet -> BackendSetValue \cup {Absent}],
   listeners       : [Listener -> ListenerValue \cup {Absent}],
   routingPolicies : [Listener -> Rules \cup {Absent}]]

-----------------------------------------------------------------------------
(* Calls. FindRoutingPolicy is the read with which EnsureRoutingPolicy      *)
(* decides whether to create the policy.                                    *)

BackendSetCall ==
  [kind : {"CreateBackendSet"}, name : BackendSet, value : BackendSetValue] \cup
  [kind : {"UpdateBackends"}, name : BackendSet, value : Backends] \cup
  [kind : {"UpdateBackendSetDetails"}, name : BackendSet, value : Details] \cup
  [kind : {"DeleteBackendSet"}, name : BackendSet, value : {Absent}]

ListenerCall ==
  [kind : {"CreateListener", "UpdateListener"}, name : Listener, value : Config] \cup
  [kind : {"DeleteListener"}, name : Listener, value : {Absent}]

\* Calls of these kinds carry the rules wanted, the ones that only attach too.
RoutingPolicyCall ==
  [kind : {"FindRoutingPolicy", "CreateRoutingPolicy", "SetRoutingPolicy",
           "UpdateRoutingPolicyRules"}, name : Listener, value : Rules] \cup
  [kind : {"DetachRoutingPolicy", "DeleteRoutingPolicy"}, name : Listener, value : {Absent}]

Call == BackendSetCall \cup ListenerCall \cup RoutingPolicyCall

CreateKinds == {"CreateBackendSet", "CreateListener", "CreateRoutingPolicy"}
DeleteKinds == {"DeleteBackendSet", "DeleteListener", "DeleteRoutingPolicy"}

\* The requests sent with If-Match. Creations and deletions send none.
IfMatchKinds == {"UpdateBackends", "UpdateBackendSetDetails", "UpdateListener",
                 "SetRoutingPolicy", "DetachRoutingPolicy", "UpdateRoutingPolicyRules"}

Part(call) ==
  IF call.kind \in {"CreateBackendSet", "UpdateBackends", "UpdateBackendSetDetails",
                    "DeleteBackendSet"}
    THEN "backendSets"
  ELSE IF call.kind \in {"CreateListener", "UpdateListener", "DeleteListener",
                         "SetRoutingPolicy", "DetachRoutingPolicy"}
    THEN "listeners"
  ELSE "routingPolicies"

Resource(call, doc) == doc[Part(call)][call.name]

Present(call, doc) == Resource(call, doc) # Absent

\* Nothing to do on the document the call has read: it returns nil.
Settled(call, doc) ==
  \/ call.kind \in CreateKinds /\ Present(call, doc)
  \/ call.kind \in DeleteKinds /\ ~Present(call, doc)
  \/ call.kind = "UpdateBackends" /\ Present(call, doc)
       /\ Resource(call, doc).backends = call.value
  \/ call.kind = "UpdateBackendSetDetails" /\ Present(call, doc)
       /\ Resource(call, doc).details = call.value
  \/ call.kind = "UpdateListener" /\ Present(call, doc)
       /\ Resource(call, doc).config = call.value
  \/ call.kind = "SetRoutingPolicy" /\ Present(call, doc)
       /\ Resource(call, doc).routingPolicy = call.name
  \/ call.kind = "DetachRoutingPolicy" /\ ~Present(call, doc)
  \/ call.kind = "UpdateRoutingPolicyRules" /\ Resource(call, doc) = call.value

\* The call cannot be made on the document read: it returns an error.
\* (updateRoutingPolicyRules does not look: it sends and is answered 404.)
Missing(call, doc) ==
  /\ call.kind \in IfMatchKinds \ {"UpdateRoutingPolicyRules", "DetachRoutingPolicy"}
  /\ ~Present(call, doc)

\* The whole value the request carries, built from the document read. An
\* update replaces the resource: what the call does not mean to change is
\* copied from the document it has read.
NewValue(call, doc) ==
  CASE call.kind = "UpdateBackends" -> [Resource(call, doc) EXCEPT !.backends = call.value]
    [] call.kind = "UpdateBackendSetDetails" -> [Resource(call, doc) EXCEPT !.details = call.value]
    [] call.kind = "CreateListener" -> [config |-> call.value, routingPolicy |-> Absent]
    [] call.kind = "UpdateListener" -> [Resource(call, doc) EXCEPT !.config = call.value]
    [] call.kind = "SetRoutingPolicy" -> [Resource(call, doc) EXCEPT !.routingPolicy = call.name]
    [] call.kind = "DetachRoutingPolicy" -> [Resource(call, doc) EXCEPT !.routingPolicy = Absent]
    [] OTHER -> call.value

-----------------------------------------------------------------------------
(* The service's side.                                                      *)

References(policy, bs) == policy # Absent /\ bs \in policy.forwardTo

\* The requests the service accepts on a document: what exists is not created
\* again and what does not is neither changed nor deleted, a policy's rules
\* name existing backend sets, and a backend set a policy names stays.
Valid(call, doc) ==
  /\ call.kind \in CreateKinds <=> ~Present(call, doc)
  /\ call.kind \in {"CreateRoutingPolicy", "UpdateRoutingPolicyRules"} =>
       \A bs \in call.value.forwardTo : doc.backendSets[bs] # Absent
  /\ call.kind = "DeleteBackendSet" =>
       \A l \in Listener : ~References(doc.routingPolicies[l], call.name)

Put(call, doc, value) == [doc EXCEPT ![Part(call)][call.name] = value]

\* What a caller that is told nil may rely on having been true.
Achieved(call, doc) ==
  \/ call.kind \in CreateKinds /\ Present(call, doc)
  \/ Settled(call, doc)
  \/ call.kind = "DetachRoutingPolicy" /\ Present(call, doc)
       /\ Resource(call, doc).routingPolicy = Absent
  \/ call.kind = "FindRoutingPolicy"
=============================================================================
