--------------------- MODULE LoadBalancerDocument_proofs ---------------------
(***************************************************************************)
(* Lemmas about documents and calls: what a call puts in place of a        *)
(* resource, for any documents and any of the client's calls. The client's *)
(* proofs rest on them, and those of the controllers that call it.         *)
(***************************************************************************)
EXTENDS LoadBalancerDocument, TLAPS

\* The value a request carries for the resource it replaces has that
\* resource's type, when the call found it necessary and possible to send.
LEMMA NewValueTyped ==
  ASSUME NEW c \in Call, NEW doc \in Document,
         c.kind # "FindRoutingPolicy", ~Settled(c, doc), ~Missing(c, doc)
  PROVE  NewValue(c, doc) \in BackendSetValue \cup ListenerValue \cup Rules \cup {Absent}
<1>1. CASE c \in BackendSetCall
  <2>1. c.name \in BackendSet /\ Part(c) = "backendSets"
    BY <1>1 DEF BackendSetCall, Part
  <2>2. c.kind \in {"UpdateBackends", "UpdateBackendSetDetails"} => Resource(c, doc) \in BackendSetValue
    BY <2>1 DEF Missing, Present, Resource, IfMatchKinds, Document
  <2> QED BY <1>1, <2>2 DEF BackendSetCall, NewValue, BackendSetValue
<1>2. ASSUME c \in ListenerCall \cup RoutingPolicyCall, Part(c) = "listeners",
             c.kind # "CreateListener", c.kind # "DeleteListener"
      PROVE  NewValue(c, doc) \in ListenerValue
  <2>1. Resource(c, doc) \in ListenerValue
    <3>1. doc.listeners[c.name] \in ListenerValue \cup {Absent}
      BY <1>2 DEF ListenerCall, RoutingPolicyCall, Document
    <3> QED BY <1>2, <3>1 DEF ListenerCall, RoutingPolicyCall, Settled, Missing, Present,
            Resource, Part, CreateKinds, DeleteKinds, IfMatchKinds
  <2> QED BY <1>2, <2>1 DEF ListenerCall, RoutingPolicyCall, NewValue, Part, ListenerValue
<1>3. CASE c \in ListenerCall
  BY <1>2, <1>3 DEF ListenerCall, NewValue, Part, ListenerValue
<1>4. CASE c \in RoutingPolicyCall
  BY <1>2, <1>4 DEF RoutingPolicyCall, NewValue, Part
<1> QED BY <1>1, <1>3, <1>4 DEF Call

\* A request the service finds valid, carrying the value the call would build
\* from that very document, leaves a document.
LEMMA PutTyped ==
  ASSUME NEW c \in Call, NEW doc \in Document, Valid(c, doc)
  PROVE  Put(c, doc, NewValue(c, doc)) \in Document
<1>1. CASE c \in BackendSetCall
  <2>1. c.name \in BackendSet /\ Part(c) = "backendSets"
    BY <1>1 DEF BackendSetCall, Part
  <2>2. NewValue(c, doc) \in BackendSetValue \cup {Absent}
    <3>1. c.kind \in {"UpdateBackends", "UpdateBackendSetDetails"} => Resource(c, doc) \in BackendSetValue
      BY <2>1 DEF Valid, Present, Resource, CreateKinds, Document
    <3> QED BY <1>1, <3>1 DEF BackendSetCall, NewValue, BackendSetValue
  <2> QED BY <2>1, <2>2 DEF Put, Document
<1>2. CASE c \in ListenerCall \cup RoutingPolicyCall /\ Part(c) = "listeners"
  <2>1. c.name \in Listener
    BY <1>2 DEF ListenerCall, RoutingPolicyCall
  <2>2. c.kind \notin {"CreateListener", "DeleteListener"} => Resource(c, doc) \in ListenerValue
    <3>1. c.kind \notin {"CreateListener", "DeleteListener"} => c.kind \notin CreateKinds
      BY <1>2 DEF ListenerCall, RoutingPolicyCall, Part, CreateKinds
    <3> QED BY <1>2, <2>1, <3>1 DEF Valid, Present, Resource, Document
  <2>3. NewValue(c, doc) \in ListenerValue \cup {Absent}
    <3>1. CASE c \in ListenerCall
      BY <2>2, <3>1 DEF ListenerCall, NewValue, ListenerValue
    <3>2. CASE c \in RoutingPolicyCall
      BY <1>2, <2>2, <3>2 DEF RoutingPolicyCall, NewValue, Part, ListenerValue
    <3> QED BY <1>2, <3>1, <3>2
  <2> QED BY <1>2, <2>1, <2>3 DEF Put, Document
<1>3. CASE c \in RoutingPolicyCall /\ Part(c) # "listeners"
  <2>1. c.name \in Listener /\ Part(c) = "routingPolicies"
    BY <1>3 DEF RoutingPolicyCall, Part
  <2>2. NewValue(c, doc) \in Rules \cup {Absent}
    BY <1>3 DEF RoutingPolicyCall, NewValue, Part
  <2> QED BY <2>1, <2>2 DEF Put, Document
<1>4. c \in ListenerCall => Part(c) = "listeners"
  BY DEF ListenerCall, Part
<1> QED BY <1>1, <1>2, <1>3, <1>4 DEF Call

\* And one that meets the call's aim.
LEMMA PutAchieves ==
  ASSUME NEW c \in Call, NEW doc \in Document,
         c.kind # "FindRoutingPolicy", Valid(c, doc)
  PROVE  Achieved(c, Put(c, doc, NewValue(c, doc)))
<1> USE AbsentAssumption
<1>1. CASE c \in BackendSetCall
  BY ZenonT(60), <1>1 DEF BackendSetCall, NewValue, Valid, Put, Present, Resource, Part, Achieved, Settled,
     CreateKinds, DeleteKinds, Document, BackendSetValue
<1>2. CASE c \in ListenerCall
  <2>1. Put(c, doc, NewValue(c, doc)).listeners[c.name] = NewValue(c, doc)
    BY <1>2 DEF ListenerCall, Put, Part, Document
  <2>2. CASE c.kind = "CreateListener"
    BY <1>2, <2>1, <2>2 DEF ListenerCall, NewValue, Present, Resource, Part, Achieved,
       CreateKinds, ListenerValue
  <2>3. CASE c.kind = "UpdateListener"
    <3>1. doc.listeners[c.name] \in ListenerValue
      BY <1>2, <2>3 DEF ListenerCall, Valid, Present, Resource, Part, Document, CreateKinds
    <3> QED BY <1>2, <2>1, <2>3, <3>1 DEF ListenerCall, NewValue, Present, Resource, Part,
            Achieved, Settled, ListenerValue
  <2>4. CASE c.kind = "DeleteListener"
    BY <1>2, <2>1, <2>4 DEF ListenerCall, NewValue, Present, Resource, Part, Achieved, Settled,
       DeleteKinds
  <2> QED BY <1>2, <2>2, <2>3, <2>4 DEF ListenerCall
<1>3. CASE c \in RoutingPolicyCall
  BY ZenonT(60), <1>3 DEF RoutingPolicyCall, NewValue, Valid, Put, Present, Resource, Part, Achieved, Settled,
     CreateKinds, DeleteKinds, Document, ListenerValue
<1> QED BY <1>1, <1>2, <1>3 DEF Call

\* Requests sent without If-Match carry nothing taken from a document.
LEMMA UnconditionalValue ==
  ASSUME NEW c \in Call, NEW d, NEW e, c.kind \notin IfMatchKinds
  PROVE  NewValue(c, d) = NewValue(c, e)
BY DEF NewValue, IfMatchKinds

\* A call that goes on to its next part is again a call.
LEMMA NextCallTyped ==
  ASSUME NEW c \in Call, NEW k,
         \/ c.kind = "FindRoutingPolicy" /\ k \in {"SetRoutingPolicy", "CreateRoutingPolicy"}
         \/ c.kind = "CreateRoutingPolicy" /\ k = "SetRoutingPolicy"
         \/ c.kind = "SetRoutingPolicy" /\ k = "UpdateRoutingPolicyRules"
         \/ c.kind = "DetachRoutingPolicy" /\ k = "DeleteRoutingPolicy"
  PROVE  [c EXCEPT !.kind = k] \in Call
<1>1. c \in RoutingPolicyCall
  BY DEF Call, BackendSetCall, ListenerCall, RoutingPolicyCall
<1>2. [c EXCEPT !.kind = k] \in RoutingPolicyCall
  BY <1>1 DEF RoutingPolicyCall
<1> QED BY <1>2 DEF Call
=============================================================================
