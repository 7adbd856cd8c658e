-------------------------- MODULE Reconcile_proofs ---------------------------
(***************************************************************************)
(* Proofs about Reconcile, for any Ingresses and specs, any listeners and  *)
(* backend sets, any number of workers, and any number of changes and of   *)
(* faults.                                                                 *)
(*                                                                         *)
(* Three things have to be kept. A policy stays while a listener uses it:  *)
(* PolicyInv ties the routing policy controller's place in its calls to    *)
(* what it has left on the load balancer, and LateInv says the same of its *)
(* requests that are still to be applied. And what no Ingress asks for is  *)
(* somebody's business: LeftoverInv names who will come to remove it, and  *)
(* StaleInv says why a sync with an old state does not get away with it.   *)
(* The other way round only this much is true: ServedInv names who will    *)
(* create what an Ingress asks for, and FreshInv says which Ingresses no   *)
(* sync with an old state takes it from. Of what the cached document shows *)
(* nothing is assumed but its type: where it misleads a sync, the history  *)
(* variables astray, missed and doubted say so.                            *)
(***************************************************************************)
EXTENDS Reconcile, LoadBalancerDocument_proofs, TLAPS

-----------------------------------------------------------------------------
(* The inductive invariant.                                                  *)

\* An Ingress has a phase and one of its specs; nothing is left of one that is gone.
IngressesInv ==
  /\ ingresses \in [Ingress -> [phase : IngressPhase, spec : SUBSET Path]]
  /\ \A i \in Ingress : ingresses[i].phase = "gone" => ingresses[i] = Gone

\* A worker in a sync holds an Ingress that has our finalizer, so that it stays.
\* A key that was given up is neither queued nor held.
HoldingInv ==
  /\ \A w \in Worker :
       /\ pc[w] = "take" => ~deletes[w]
       /\ pc[w] # "take" => ingresses[item[w]].phase \in {"held", "deleting"}
       /\ deletes[w] => ingresses[item[w]].phase = "deleting"
  /\ \A i \in dropped : /\ i \notin pending /\ \A w \in Worker : item[w] # i
                        /\ ingresses[i].phase # "gone"

\* What the loops of a worker may have left.
Loops == [stage : SUBSET BackendSet, listen : SUBSET Listener, create : SUBSET Listener,
          unlisten : SUBSET Listener, unstage : SUBSET BackendSet]

\* The documents and requests of the client, and who waits for one.
ClientInv ==
  /\ CachedLoadBalancerTypeOK
  /\ waiting \subseteq Worker \cup {RoutingWorker}

\* No request to attach the policy of listener l is still to be applied.
NoneAttaches(l) == \A c \in late : ~(c.kind = "SetRoutingPolicy" /\ c.name = l)

\* Where the routing policy controller is tells what it has done for the
\* listener in hand, and that it has rules to give it.
PolicyInv ==
  /\ rpc \in {"ensure", "attach", "rules"} => rtodo \subseteq PathListeners(rbuilt)
  /\ rpc \in {"attach", "rules"} => /\ rnow \in PathListeners(rbuilt)
                                    /\ rnow \in PoliciesIn(document) \cup doubted
  /\ rpc = "delete" => /\ rnow \in Listener
                       /\ \/ rnow \in doubted
                          \/ /\ NoneAttaches(rnow)
                             /\ rnow \in ListenersIn(document) =>
                                  document.listeners[rnow].routingPolicy = Absent

\* A request that is still to attach a policy would find it, and its listener: the
\* ETag it goes by is that of a document with both.
LateInv ==
  \A c \in late : c.kind = "SetRoutingPolicy" =>
    c.name \in ListenersIn(document) /\ c.name \in PoliciesIn(document) \cup doubted

\* No other sync of the worker's Ingress will come, or none that finds it there.
LastSync(w) == deletes[w] \/ item[w] \notin pending

\* A worker that will create what its Ingress no longer asks for syncs an
\* Ingress that is queued again, for a sync that will find it there.
StaleInv ==
  \A w \in Worker : LastSync(w) =>
    /\ pc[w] \in {"read", "stage"} => built[w][item[w]] = BuildState[item[w]]
    /\ pc[w] = "stage" => todo[w].stage \subseteq IngressBackendSets(BuildState, item[w])
    /\ pc[w] \in {"stage", "change"} =>
         todo[w].listen \cup todo[w].create \subseteq IngressListeners(BuildState, item[w])

\* A worker that will remove listener l, backend set b: it has yet to read the
\* Ingresses, or has read that none asks for it, or has it in its loop.
Unlists(w, l) ==
  \/ pc[w] = "build"
  \/ pc[w] \in {"read", "stage"} /\ l \notin AllListeners(built[w])
  \/ pc[w] = "change" /\ l \in todo[w].unlisten

Unstages(w, b) ==
  \/ pc[w] = "build"
  \/ pc[w] = "read" /\ b \notin AllBackendSets(built[w])
  \/ pc[w] \in {"stage", "change"} /\ b \in todo[w].unstage

\* A sync is due of an Ingress that will be there, or somebody was given up on.
Due ==
  \/ \E i \in pending : /\ ingresses[i].phase # "gone"
                        /\ \A w \in Worker : ~(deletes[w] /\ item[w] = i)
  \/ dropped # {}
  \/ vanished # {}

LeftoverInv ==
  /\ \A l \in ListenersIn(document) \ AllListeners(BuildState) :
       l \in astray \/ Due \/ \E w \in Worker : Unlists(w, l)
  /\ \A b \in BackendSetsIn(document) \ AllBackendSets(BuildState) :
       b \in astray \/ Due \/ \E w \in Worker : Unstages(w, b)

\* Another sync of the worker's Ingress is due.
Followed(w, i) == item[w] = i /\ i \in pending

\* The worker goes by what Ingress i asks for now, and will remove none of it; or
\* it is i's own sync, and another will follow.
Fresh(w, i) ==
  \/ Followed(w, i)
  \/ /\ pc[w] \in {"read", "stage"} => built[w][i] = BuildState[i]
     /\ pc[w] = "change" => todo[w].unlisten \cap IngressListeners(BuildState, i) = {}
     /\ pc[w] \in {"stage", "change"} => todo[w].unstage \cap IngressBackendSets(BuildState, i) = {}

\* A worker that will create listener l, backend set b if its Ingress asks for it:
\* it has yet to read, or has it in its loop.
Lists(w, l) ==
  \/ pc[w] \in {"build", "read", "stage"}
  \/ pc[w] = "change" /\ l \in todo[w].listen \cup todo[w].create

Stages(w, b) ==
  \/ pc[w] \in {"build", "read"}
  \/ pc[w] = "stage" /\ b \in todo[w].stage

Coming(i) == i \in pending \cup dropped

\* What Ingress i asks for is there, or a sync of i is due or on its way to it.
Served(i) ==
  /\ \A l \in IngressListeners(BuildState, i) :
       l \in ListenersIn(document) \/ Coming(i) \/ \E w \in Worker : item[w] = i /\ Lists(w, l)
  /\ \A b \in IngressBackendSets(BuildState, i) :
       b \in BackendSetsIn(document) \/ Coming(i) \/ \E w \in Worker : item[w] = i /\ Stages(w, b)

FreshInv  == \A i \in Ingress \ missed : \A w \in Worker : Fresh(w, i)
ServedInv == \A i \in Ingress \ missed : Served(i)

ServeInv == FreshInv /\ ServedInv

SyncInv == IngressReconcileTypeOK /\ IngressesInv /\ HoldingInv /\ StaleInv /\ LeftoverInv

RoutingInv == RoutingPolicyTypeOK /\ PolicyInv /\ LateInv /\ NoDanglingPolicy

IInv == ClientInv /\ SyncInv /\ ServeInv /\ RoutingInv

-----------------------------------------------------------------------------
(* The calls of both controllers, as changes of the document.                *)

\* The name of call c, if it is of the kind given.
Named(c, kind) == IF c.kind = kind THEN {c.name} ELSE {}

\* Listener k uses the policy it used before, or none.
PolicyKept(k) ==
  \/ document'.listeners[k].routingPolicy = Absent
  \/ /\ k \in ListenersIn(document)
     /\ document'.listeners[k].routingPolicy = document.listeners[k].routingPolicy

\* What a call leaves in place of a resource it does not delete is a resource.
LEMMA ChangePuts ==
  ASSUME document \in Document, NEW c \in Call, Change(c)
  PROVE  /\ document' = [document EXCEPT ![Part(c)][c.name] = NewValue(c, document)]
         /\ NewValue(c, document) = Absent <=> c.kind \in DeleteKinds
         /\ c.kind \notin CreateKinds => Present(c, document)
<1> USE AbsentAssumption
<1>1. document' = [document EXCEPT ![Part(c)][c.name] = NewValue(c, document)]
  BY DEF Change, Put
<1>2. c.kind \in CreateKinds <=> ~Present(c, document)
  BY DEF Change, Valid
<1> SUFFICES NewValue(c, document) = Absent <=> c.kind \in DeleteKinds
  BY <1>1, <1>2
<1>3. CASE c \in BackendSetCall
  <2>1. c.name \in BackendSet /\ Part(c) = "backendSets"
    BY <1>3 DEF BackendSetCall, Part
  <2>2. CASE c.kind \in {"UpdateBackends", "UpdateBackendSetDetails"}
    <3>1. Resource(c, document) \in BackendSetValue
      BY <1>2, <2>1, <2>2 DEF Present, Resource, CreateKinds, Document
    <3>2. NewValue(c, document) \in BackendSetValue
      BY <1>3, <2>2, <3>1 DEF BackendSetCall, NewValue, BackendSetValue
    <3> QED BY <2>2, <3>2 DEF DeleteKinds
  <2>3. CASE c.kind \in {"CreateBackendSet", "DeleteBackendSet"}
    BY <1>3, <2>3 DEF BackendSetCall, NewValue, DeleteKinds
  <2> QED BY <1>3, <2>2, <2>3 DEF BackendSetCall
<1>4. CASE c \in ListenerCall \cup RoutingPolicyCall /\ Part(c) = "listeners"
  <2>1. c.name \in Listener
    BY <1>4 DEF ListenerCall, RoutingPolicyCall
  <2>2. CASE c.kind \in {"UpdateListener", "SetRoutingPolicy", "DetachRoutingPolicy"}
    <3>1. Resource(c, document) \in ListenerValue
      BY <1>2, <1>4, <2>1, <2>2 DEF Present, Resource, CreateKinds, Document
    <3>2. NewValue(c, document) \in ListenerValue
      BY <1>4, <2>1, <2>2, <3>1 DEF ListenerCall, RoutingPolicyCall, NewValue, ListenerValue
    <3> QED BY <2>2, <3>2 DEF DeleteKinds
  <2>3. CASE c.kind = "CreateListener"
    <3>1. NewValue(c, document) = [config |-> c.value, routingPolicy |-> Absent] /\ c.value \in Config
      BY <1>4, <2>3 DEF ListenerCall, RoutingPolicyCall, NewValue
    <3>2. [config |-> c.value, routingPolicy |-> Absent] \in ListenerValue
      BY <3>1 DEF ListenerValue
    <3> QED BY <2>3, <3>1, <3>2 DEF DeleteKinds
  <2>4. CASE c.kind = "DeleteListener"
    BY <1>4, <2>4 DEF ListenerCall, RoutingPolicyCall, NewValue, DeleteKinds
  <2> QED BY <1>4, <2>2, <2>3, <2>4 DEF ListenerCall, RoutingPolicyCall, Part
<1>5. CASE c \in RoutingPolicyCall /\ Part(c) # "listeners"
  BY <1>5 DEF RoutingPolicyCall, Part, NewValue, DeleteKinds
<1> QED BY <1>3, <1>4, <1>5 DEF Call, ListenerCall, Part

\* A creation adds its listener, backend set or policy, a deletion takes it away,
\* and nothing else comes or goes. A listener's policy is set by one kind of call.
LEMMA Changed ==
  ASSUME document \in Document, NEW c \in Call, Change(c)
  PROVE  /\ document' \in Document
         /\ ListenersIn(document') =
              (ListenersIn(document) \cup Named(c, "CreateListener")) \ Named(c, "DeleteListener")
         /\ BackendSetsIn(document') =
              (BackendSetsIn(document) \cup Named(c, "CreateBackendSet")) \ Named(c, "DeleteBackendSet")
         /\ PoliciesIn(document') =
              (PoliciesIn(document) \cup Named(c, "CreateRoutingPolicy")) \ Named(c, "DeleteRoutingPolicy")
         /\ \A k \in ListenersIn(document') : PolicyKept(k) \/ k \in Named(c, "SetRoutingPolicy")
         /\ c.kind = "DetachRoutingPolicy" => document'.listeners[c.name].routingPolicy = Absent
<1> DEFINE new == NewValue(c, document)
<1>1. /\ document' = [document EXCEPT ![Part(c)][c.name] = new]
      /\ new = Absent <=> c.kind \in DeleteKinds
      /\ c.kind \notin CreateKinds => Present(c, document)
  BY ChangePuts
<1>2. document' \in Document
  BY PutTyped DEF Change
<1>3. CASE c \in BackendSetCall
  <2>1. c.name \in BackendSet /\ Part(c) = "backendSets"
    BY <1>3 DEF BackendSetCall, Part
  <2>2. /\ document'.listeners = document.listeners
        /\ document'.routingPolicies = document.routingPolicies
        /\ document'.backendSets = [document.backendSets EXCEPT ![c.name] = new]
    BY <1>1, <2>1 DEF Document
  <2>3. c.kind \in {"UpdateBackends", "UpdateBackendSetDetails"} => c.name \in BackendSetsIn(document)
    BY <1>1, <2>1 DEF Present, Resource, CreateKinds, BackendSetsIn
  <2>4. c.kind \in {"CreateBackendSet", "UpdateBackends", "UpdateBackendSetDetails", "DeleteBackendSet"}
    BY <1>3 DEF BackendSetCall
  <2> HIDE DEF new
  <2>5. BackendSetsIn(document') = (BackendSetsIn(document) \cup Named(c, "CreateBackendSet")) \ Named(c, "DeleteBackendSet")
    BY <1>1, <2>1, <2>2, <2>3, <2>4 DEF BackendSetsIn, Named, DeleteKinds, Document
  <2> QED BY <1>2, <2>2, <2>4, <2>5 DEF ListenersIn, PoliciesIn, Named, PolicyKept
<1>4. CASE c \in ListenerCall \cup RoutingPolicyCall /\ Part(c) = "listeners"
  <2>1. /\ c.name \in Listener
        /\ c.kind \in {"CreateListener", "UpdateListener", "DeleteListener", "SetRoutingPolicy", "DetachRoutingPolicy"}
    BY <1>4 DEF ListenerCall, RoutingPolicyCall, Part
  <2>2. /\ document'.backendSets = document.backendSets
        /\ document'.routingPolicies = document.routingPolicies
        /\ document'.listeners = [document.listeners EXCEPT ![c.name] = new]
    BY <1>1, <1>4, <2>1 DEF Document
  <2>3. c.kind \in {"UpdateListener", "SetRoutingPolicy", "DetachRoutingPolicy"}
          => c.name \in ListenersIn(document) /\ document.listeners[c.name] \in ListenerValue
    BY <1>1, <1>4, <2>1 DEF Present, Resource, CreateKinds, ListenersIn, Document
  <2>4. /\ c.kind = "CreateListener" => new.routingPolicy = Absent
        /\ c.kind = "UpdateListener" => new.routingPolicy = document.listeners[c.name].routingPolicy
        /\ c.kind = "DetachRoutingPolicy" => new.routingPolicy = Absent
    BY <1>4, <2>3 DEF NewValue, Resource, ListenerValue
  <2> HIDE DEF new
  <2>5. ListenersIn(document') = (ListenersIn(document) \cup Named(c, "CreateListener")) \ Named(c, "DeleteListener")
    BY <1>1, <2>1, <2>2, <2>3 DEF ListenersIn, Named, DeleteKinds, Document
  <2>6. document'.listeners[c.name] = new /\ \A k \in Listener \ {c.name} : document'.listeners[k] = document.listeners[k]
    BY <2>1, <2>2 DEF Document
  <2>7. \A k \in ListenersIn(document') : PolicyKept(k) \/ k \in Named(c, "SetRoutingPolicy")
    <3>1. ASSUME NEW k \in ListenersIn(document'), k # c.name PROVE PolicyKept(k)
      BY <2>6, <3>1 DEF PolicyKept, ListenersIn
    <3>2. c.name \in ListenersIn(document') => PolicyKept(c.name) \/ c.name \in Named(c, "SetRoutingPolicy")
      BY <2>1, <2>3, <2>4, <2>5, <2>6 DEF PolicyKept, Named
    <3> QED BY <3>1, <3>2
  <2> QED BY <1>2, <2>1, <2>2, <2>4, <2>5, <2>6, <2>7 DEF BackendSetsIn, PoliciesIn, Named
<1>5. CASE c \in RoutingPolicyCall /\ Part(c) # "listeners"
  <2>1. c.name \in Listener /\ Part(c) = "routingPolicies"
    BY <1>5 DEF RoutingPolicyCall, Part
  <2>2. /\ document'.listeners = document.listeners
        /\ document'.backendSets = document.backendSets
        /\ document'.routingPolicies = [document.routingPolicies EXCEPT ![c.name] = new]
    BY <1>1, <2>1 DEF Document
  <2>3. c.kind \in {"FindRoutingPolicy", "UpdateRoutingPolicyRules"} => c.name \in PoliciesIn(document)
    BY <1>1, <2>1 DEF Present, Resource, CreateKinds, PoliciesIn
  <2>4. c.kind \in {"FindRoutingPolicy", "CreateRoutingPolicy", "UpdateRoutingPolicyRules", "DeleteRoutingPolicy"}
    BY <1>5 DEF RoutingPolicyCall, Part
  <2> HIDE DEF new
  <2>5. PoliciesIn(document') = (PoliciesIn(document) \cup Named(c, "CreateRoutingPolicy")) \ Named(c, "DeleteRoutingPolicy")
    BY <1>1, <2>1, <2>2, <2>3, <2>4 DEF PoliciesIn, Named, DeleteKinds, Document
  <2> QED BY <1>2, <2>2, <2>4, <2>5 DEF ListenersIn, BackendSetsIn, Named, PolicyKept
<1> QED BY <1>3, <1>4, <1>5 DEF Call, ListenerCall, Part

\* A request that is applied by its caller, or late, makes void the ETags of all
\* those that are still to be applied.
LEMMA ClientChanged ==
  ASSUME ClientInv, NEW c \in Call, Change(c), UNCHANGED <<cache, slow>>,
         late' \subseteq Matching(late), waiting' \subseteq Worker \cup {RoutingWorker}
  PROVE  ClientInv' /\ \A l : NoneAttaches(l)'
<1>1. document' \in Document
  BY Changed DEF ClientInv, CachedLoadBalancerTypeOK
<1>2. late' \subseteq late /\ \A d \in late' : d.kind # "SetRoutingPolicy"
  BY DEF Matching, IfMatchKinds
<1> QED BY <1>1, <1>2 DEF ClientInv, CachedLoadBalancerTypeOK, NoneAttaches

\* A call that returns nil was applied, or changed nothing.
LEMMA SucceedsChanges ==
  ASSUME ClientInv, NEW c \in Call, NEW w \in Worker \cup {RoutingWorker}, Succeeds(w, c)
  PROVE  /\ ClientInv'
         /\ \/ Change(c) /\ \A l : NoneAttaches(l)'
            \/ UNCHANGED clientVars /\ (Settled(c, cache) \/ DoneAlready(c))
<1>1. CASE Applied(w, c)
  <2>1. /\ Change(c) /\ UNCHANGED <<cache, slow>>
        /\ late' \subseteq Matching(late) /\ waiting' \subseteq Worker \cup {RoutingWorker}
    BY <1>1 DEF Applied, ClientInv
  <2> QED BY <2>1, ClientChanged
<1>2. CASE (Settled(c, cache) \/ DoneAlready(c)) /\ UNCHANGED clientVars
  BY <1>2 DEF clientVars, ClientInv, CachedLoadBalancerTypeOK
<1> QED BY <1>1, <1>2 DEF Succeeds

\* What the routing policy controller leaves to itself: no policy comes or goes,
\* no listener comes to use one, and no request to that effect is left behind.
PoliciesUntouched ==
  /\ PoliciesIn(document') = PoliciesIn(document)
  /\ \A k \in ListenersIn(document') : PolicyKept(k)
  /\ \/ document' = document /\ \A c \in late' : c \in late \/ c.kind # "SetRoutingPolicy"
     \/ \A l : NoneAttaches(l)'

\* Steps without a call, and GETs, leave them all as they are.
LEMMA ClientKept ==
  ASSUME ClientInv, UNCHANGED clientVars
  PROVE  ClientInv' /\ PoliciesUntouched
<1>1. ClientInv'
  BY DEF clientVars, ClientInv, CachedLoadBalancerTypeOK
<1>2. PoliciesUntouched
  BY DEF clientVars, PoliciesUntouched, PolicyKept
<1> QED BY <1>1, <1>2

LEMMA ClientRenewed ==
  ASSUME ClientInv, cache' \in Document, slow' \in {slow, document, Absent},
         waiting' \subseteq waiting, UNCHANGED <<document, late>>
  PROVE  ClientInv' /\ PoliciesUntouched
<1>1. ClientInv'
  BY DEF ClientInv, CachedLoadBalancerTypeOK
<1>2. PoliciesUntouched
  BY DEF PoliciesUntouched, PolicyKept
<1> QED BY <1>1, <1>2

EnsureKinds == {"CreateBackendSet", "CreateListener", "DeleteListener", "DeleteBackendSet"}

\* What a worker's call can have done, whether or not it had anything to do.
LEMMA EnsureChanges ==
  ASSUME ClientInv, NEW w \in Worker, NEW kind \in EnsureKinds, NEW name, NEW values,
         \A value \in values : [kind |-> kind, name |-> name, value |-> value] \in Call,
         Ensure(w, kind, name, values)
  PROVE  /\ ClientInv' /\ PoliciesUntouched
         /\ ListenersIn(document') \ ListenersIn(document) \subseteq (IF kind = "CreateListener" THEN {name} ELSE {})
         /\ ListenersIn(document) \ ListenersIn(document') \subseteq (IF kind = "DeleteListener" THEN {name} ELSE {})
         /\ BackendSetsIn(document') \ BackendSetsIn(document) \subseteq (IF kind = "CreateBackendSet" THEN {name} ELSE {})
         /\ BackendSetsIn(document) \ BackendSetsIn(document') \subseteq (IF kind = "DeleteBackendSet" THEN {name} ELSE {})
<1>1. PICK value \in values : Succeeds(w, [kind |-> kind, name |-> name, value |-> value])
  BY DEF Ensure
<1> DEFINE c == [kind |-> kind, name |-> name, value |-> value]
<1>2. c \in Call /\ c.kind = kind /\ c.name = name
  OBVIOUS
<1>3. /\ ClientInv'
      /\ \/ Change(c) /\ \A l : NoneAttaches(l)'
         \/ UNCHANGED clientVars
  BY <1>1, <1>2, SucceedsChanges
<1> HIDE DEF c
<1>4. CASE UNCHANGED clientVars
  BY <1>3, <1>4 DEF clientVars, PoliciesUntouched, PolicyKept
<1>5. CASE Change(c) /\ \A l : NoneAttaches(l)'
  <2>1. document \in Document
    BY DEF ClientInv, CachedLoadBalancerTypeOK
  <2>2. /\ ListenersIn(document') =
             (ListenersIn(document) \cup Named(c, "CreateListener")) \ Named(c, "DeleteListener")
        /\ BackendSetsIn(document') =
             (BackendSetsIn(document) \cup Named(c, "CreateBackendSet")) \ Named(c, "DeleteBackendSet")
        /\ PoliciesIn(document') =
             (PoliciesIn(document) \cup Named(c, "CreateRoutingPolicy")) \ Named(c, "DeleteRoutingPolicy")
        /\ \A k \in ListenersIn(document') : PolicyKept(k) \/ k \in Named(c, "SetRoutingPolicy")
    BY <1>2, <1>5, <2>1, Changed
  <2>3. Named(c, "CreateRoutingPolicy") = {} /\ Named(c, "DeleteRoutingPolicy") = {}
        /\ Named(c, "SetRoutingPolicy") = {}
    BY <1>2 DEF Named, EnsureKinds
  <2>4. PoliciesUntouched
    BY <1>5, <2>2, <2>3 DEF PoliciesUntouched
  <2> QED BY <1>2, <1>3, <2>2, <2>4 DEF Named
<1> QED BY <1>3, <1>4, <1>5

\* A listener that some path wants has rules: a policy is never given none.
LEMMA RulesTyped ==
  ASSUME NEW paths \in SUBSET Path, NEW l \in PathListeners(paths)
  PROVE  RulesFor(paths, l) \in Rules
<1>1. PICK p \in paths : p.listener = l
  BY DEF PathListeners
<1> DEFINE forwarded == {q.backendSet : q \in {r \in paths : r.listener = l}}
<1>2. p.backendSet \in forwarded
  BY <1>1
<1>3. forwarded \subseteq BackendSet
  BY DEF Path
<1> HIDE DEF forwarded
<1>4. RulesFor(paths, l) = [forwardTo |-> forwarded]
  BY DEF RulesFor, forwarded
<1> QED BY <1>2, <1>3, <1>4 DEF Rules

\* The calls a worker may be making.
LEMMA InHandTyped ==
  ASSUME IngressReconcileTypeOK, NEW w \in Worker
  PROVE  InHand(w) \subseteq [kind : EnsureKinds, name : Listener \cup BackendSet, value : BackendSetValue \cup Config \cup {Absent}] \cap Call
<1>1. /\ todo[w].stage \subseteq BackendSet /\ todo[w].create \subseteq Listener
      /\ todo[w].unlisten \subseteq Listener /\ todo[w].unstage \subseteq BackendSet
  BY DEF IngressReconcileTypeOK
<1>2. [kind : {"CreateBackendSet"}, name : todo[w].stage, value : BackendSetValue] \subseteq BackendSetCall
  BY <1>1 DEF BackendSetCall
<1> QED BY <1>1 DEF InHand, EnsureKinds, Call, BackendSetCall, ListenerCall

-----------------------------------------------------------------------------
(* The states built from the Ingresses.                                      *)

\* A built state names listeners and backend sets, each Ingress's among them all.
LEMMA StateTyped ==
  ASSUME NEW d \in [Ingress -> SUBSET Path]
  PROVE  /\ AllListeners(d) \subseteq Listener
         /\ AllBackendSets(d) \subseteq BackendSet
         /\ \A i \in Ingress : /\ IngressListeners(d, i) \subseteq AllListeners(d)
                               /\ IngressBackendSets(d, i) \subseteq AllBackendSets(d)
<1>1. \A i \in Ingress : \A p \in d[i] : p.listener \in Listener /\ p.backendSet \in BackendSet
  BY DEF Path
<1> QED BY <1>1 DEF AllListeners, AllBackendSets, IngressListeners, IngressBackendSets

\* The listeners of all paths are those of all Ingresses.
LEMMA PathsTyped ==
  ASSUME NEW d \in [Ingress -> SUBSET Path]
  PROVE  AllPaths(d) \subseteq Path /\ PathListeners(AllPaths(d)) = AllListeners(d)
<1>1. PathListeners(AllPaths(d)) = AllListeners(d)
  BY DEF AllPaths, PathListeners, AllListeners, IngressListeners
<1> QED BY <1>1 DEF AllPaths

\* BuildState gives paths to every Ingress.
LEMMA BuildStateTyped ==
  ASSUME IngressesInv
  PROVE  BuildState \in [Ingress -> SUBSET Path]
BY DEF IngressesInv, BuildState

\* What an Ingress asks for changes with that Ingress only, and not while it is
\* new or held with the same spec, or neither.
LEMMA BuildStateFollows ==
  ASSUME IngressesInv, NEW i \in Ingress, NEW x,
         ingresses' = [ingresses EXCEPT ![i] = x]
  PROVE  /\ \A j \in Ingress \ {i} : BuildState'[j] = BuildState[j]
         /\ x.spec = ingresses[i].spec /\ (x.phase \in {"new", "held"} <=> ingresses[i].phase \in {"new", "held"})
              => BuildState' = BuildState
         /\ x.phase \notin {"new", "held"} /\ ingresses[i].phase \notin {"new", "held"} => BuildState' = BuildState
BY DEF IngressesInv, BuildState

-----------------------------------------------------------------------------
(* The beginning.                                                            *)

LEMMA Initially == Init => IInv
<1> SUFFICES ASSUME Init PROVE IInv
  OBVIOUS
<1> USE DEF Init, IngressGroupInit, IngressReconcileInit, RoutingPolicyInit
<1>1. IngressesInv
  <2>1. ingresses \in [Ingress -> {Gone} \cup [phase : {"held", "deleting"}, spec : UNION {Specs[i] : i \in Ingress}]]
    OBVIOUS
  <2>2. \A i \in Ingress : Specs[i] \subseteq SUBSET Path
    BY SpecsAssumption
  <2>3. {Gone} \cup [phase : {"held", "deleting"}, spec : UNION {Specs[i] : i \in Ingress}] \subseteq [phase : IngressPhase, spec : SUBSET Path]
    BY <2>2 DEF Gone, IngressPhase
  <2> QED BY <2>1, <2>3 DEF IngressesInv
<1>2. IngressReconcileTypeOK
  <2>1. \A i \in Ingress : ingresses[i].phase \in IngressPhase /\ ingresses[i].spec \in Specs[i] \cup {{}}
    BY <1>1 DEF IngressesInv, Gone
  <2>2. Listed \subseteq Ingress
    BY DEF Listed
  <2>3. changes \in 0..MaxChanges /\ faults \in 0..MaxFaults
    BY ReconcileAssumption
  <2>4. Nothing \in Loops
    BY DEF Nothing, Loops
  <2>5. NothingBuilt \in [Ingress -> SUBSET Path]
    BY DEF NothingBuilt
  <2> QED BY <2>1, <2>2, <2>3, <2>4, <2>5 DEF IngressReconcileTypeOK, Loops
<1>3. HoldingInv
  BY DEF HoldingInv
<1>4. StaleInv
  BY DEF StaleInv
<1>5. LeftoverInv
  <2>1. CASE Listed = {}
    <3>1. ListenersIn(document) = {} /\ BackendSetsIn(document) = {}
      BY <2>1 DEF PathListeners
    <3> QED BY <3>1 DEF LeftoverInv
  <2>2. CASE Listed # {}
    <3>1. PICK i \in Ingress : ingresses[i] # Gone /\ i \in pending
      BY <2>2 DEF Listed
    <3>2. ingresses[i].phase # "gone"
      BY <1>1, <3>1 DEF IngressesInv
    <3>3. Due
      BY <3>1, <3>2 DEF Due
    <3> QED BY <3>3 DEF LeftoverInv
  <2> QED BY <2>1, <2>2
<1>6. RoutingInv
  BY DEF RoutingInv, RoutingPolicyTypeOK, PolicyInv, LateInv, NoDanglingPolicy, CachedLoadBalancerInit
<1>7. ServeInv
  <2>1. FreshInv
    BY DEF FreshInv, Fresh
  <2>2. ASSUME NEW i \in Ingress PROVE Served(i)
    <3>1. CASE ingresses[i] = Gone
      BY <3>1 DEF Served, IngressListeners, IngressBackendSets, BuildState, Gone
    <3>2. CASE ingresses[i] # Gone
      BY <3>2 DEF Served, Coming, Listed
    <3> QED BY <3>1, <3>2
  <2> QED BY <2>1, <2>2 DEF ServeInv, ServedInv
<1>8. ClientInv
  BY DEF ClientInv, CachedLoadBalancerInit, StoreInit, CachedLoadBalancerTypeOK
<1> QED BY <1>1, <1>2, <1>3, <1>4, <1>5, <1>6, <1>7, <1>8 DEF IInv, SyncInv

-----------------------------------------------------------------------------
(* The users.                                                                *)

\* Whatever users do to an Ingress that is not being deleted, its key is queued
\* for it, or it has vanished.
LEMMA SetIngressStep ==
  ASSUME SyncInv, NEW i \in Ingress, NEW phase \in IngressPhase, NEW spec \in Specs[i] \cup {{}},
         SetIngress(i, phase, spec),
         phase = "gone" => spec = {},
         ingresses[i].phase # "deleting",
         ingresses[i].phase = "held" => phase \in {"held", "deleting"}
  PROVE  SyncInv'
<1> USE DEF SyncInv
<1> DEFINE x == [phase |-> phase, spec |-> spec]
<1>1. /\ ingresses' = [ingresses EXCEPT ![i] = x]
      /\ pending' = pending \cup {i} /\ dropped' = dropped \ {i}
      /\ vanished' = IF phase = "gone" THEN vanished \cup {i} ELSE vanished
      /\ missed' \in {missed \cup {i}, missed \ {i}}
      /\ Changing
      /\ UNCHANGED <<document, astray, pc, item, deletes, built, todo, faults>>
  BY DEF SetIngress, Enqueue, syncVars, clientVars
<1>2. x \in [phase : IngressPhase, spec : SUBSET Path]
  BY SpecsAssumption
<1>3. IngressesInv'
  BY <1>1, <1>2 DEF IngressesInv, Gone
<1>4. IngressReconcileTypeOK'
  <2>1. \A j \in Ingress : ingresses'[j].phase \in IngressPhase /\ ingresses'[j].spec \in Specs[j] \cup {{}}
    BY <1>1 DEF IngressReconcileTypeOK, IngressesInv
  <2>2. changes' \in 0..MaxChanges
    BY <1>1, ReconcileAssumption DEF IngressReconcileTypeOK, Changing
  <2>3. /\ pending' \subseteq Ingress /\ dropped' \subseteq Ingress
        /\ vanished' \subseteq Ingress /\ missed' \subseteq Ingress
    BY <1>1 DEF IngressReconcileTypeOK
  <2> QED BY <1>1, <2>1, <2>2, <2>3 DEF IngressReconcileTypeOK
<1>5. HoldingInv'
  <2>1. ASSUME NEW w \in Worker, pc[w] # "take"
        PROVE  /\ ingresses'[item[w]].phase \in {"held", "deleting"}
               /\ deletes[w] => ingresses'[item[w]].phase = "deleting"
    <3>1. item[w] \in Ingress
      BY <2>1 DEF IngressReconcileTypeOK
    <3> QED BY <1>1, <2>1, <3>1 DEF HoldingInv, IngressesInv
  <2> QED BY <1>1, <2>1 DEF HoldingInv
<1>6. StaleInv'
  <2>1. ASSUME NEW w \in Worker, LastSync(w)', pc[w] # "take"
        PROVE  BuildState'[item[w]] = BuildState[item[w]] /\ LastSync(w)
    <3>1. item[w] \in Ingress \ {i}
      BY <1>1, <2>1 DEF IngressReconcileTypeOK, HoldingInv, LastSync
    <3> QED BY <1>1, <2>1, <3>1, BuildStateFollows DEF LastSync
  <2> QED BY <1>1, <2>1 DEF StaleInv, IngressBackendSets, IngressListeners
<1>7. LeftoverInv'
  <2>1. \A w \in Worker : ~(deletes[w] /\ item[w] = i)
    BY DEF HoldingInv
  <2>2. Due'
    BY <1>1, <2>1 DEF Due, IngressesInv
  <2> QED BY <2>2 DEF LeftoverInv
<1> QED BY <1>3, <1>4, <1>5, <1>6, <1>7

LEMMA UserSteps ==
  ASSUME SyncInv, UserStep
  PROVE  SyncInv'
<1>1. PICK i \in Ingress : Apply(i) \/ Edit(i) \/ Delete(i)
  BY DEF UserStep
<1>2. ingresses[i].phase \in IngressPhase /\ ingresses[i].spec \in Specs[i] \cup {{}}
  BY DEF SyncInv, IngressReconcileTypeOK
<1>3. CASE Apply(i)
  BY <1>2, <1>3, SetIngressStep DEF Apply, IngressPhase
<1>4. CASE Edit(i)
  BY <1>2, <1>4, SetIngressStep DEF Edit, IngressPhase
<1>5. CASE Delete(i)
  BY <1>2, <1>5, SetIngressStep DEF Delete, IngressPhase
<1> QED BY <1>1, <1>3, <1>4, <1>5

\* A key that comes back once more makes a sync due, and takes none away.
LEMMA DueAgainStep ==
  ASSUME SyncInv, NEW i \in Ingress, DueAgain(i)
  PROVE  SyncInv'
<1> USE DEF SyncInv
<1>1. /\ Failing
      /\ pending' = pending \cup {i} /\ dropped' = dropped \ {i}
      /\ UNCHANGED <<document, ingresses, vanished, missed, astray, pc, item, deletes, built, todo, changes>>
  BY DEF DueAgain, Enqueue, syncVars, clientVars
<1>2. IngressesInv' /\ BuildState' = BuildState
  BY <1>1 DEF IngressesInv, BuildState
<1>3. IngressReconcileTypeOK'
  <2>1. faults' \in 0..MaxFaults
    BY <1>1, ReconcileAssumption DEF IngressReconcileTypeOK, Failing
  <2>2. pending' \subseteq Ingress /\ dropped' \subseteq Ingress
    BY <1>1 DEF IngressReconcileTypeOK
  <2> QED BY <1>1, <2>1, <2>2 DEF IngressReconcileTypeOK
<1>4. HoldingInv'
  BY <1>1 DEF HoldingInv
<1>5. StaleInv'
  BY <1>1, <1>2 DEF StaleInv, LastSync
<1>6. LeftoverInv'
  <2>1. i \in dropped => ingresses[i].phase # "gone" /\ \A w \in Worker : item[w] # i
    BY DEF HoldingInv
  <2>2. Due => Due'
    BY <1>1, <2>1 DEF Due
  <2> QED BY <1>1, <1>2, <2>2 DEF LeftoverInv, Unlists, Unstages
<1> QED BY <1>2, <1>3, <1>4, <1>5, <1>6

-----------------------------------------------------------------------------
(* A sync: reading.                                                          *)

\* A worker that goes on with its sync keeps its Ingress, and nothing changes
\* about who holds what.
LEMMA HoldingKept ==
  ASSUME HoldingInv, UNCHANGED <<ingresses, pending, dropped, item, deletes>>,
         \A w \in Worker : pc'[w] = "take" <=> pc[w] = "take"
  PROVE  HoldingInv'
BY DEF HoldingInv

\* The key of an Ingress that is gone is taken off the queue and forgotten: no
\* sync was due for its sake.
LEMMA TakeGoneStep ==
  ASSUME SyncInv, NEW w \in Worker, NEW i \in Ingress, Take(w, i), ingresses[i].phase = "gone"
  PROVE  SyncInv'
<1> USE DEF SyncInv
<1>1. /\ pending' = pending \ {i} /\ \A v \in Worker : item[v] # i
      /\ UNCHANGED <<ingresses, document, dropped, vanished, missed, astray, changes, faults>>
      /\ UNCHANGED <<pc, item, deletes, built, todo>>
  BY DEF Take, syncVars, clientVars
<1>2. BuildState' = BuildState
  BY <1>1 DEF BuildState
<1>3. IngressesInv' /\ IngressReconcileTypeOK' /\ HoldingInv'
  BY <1>1 DEF IngressesInv, IngressReconcileTypeOK, HoldingInv
<1>4. StaleInv'
  BY <1>1, <1>2 DEF StaleInv, LastSync
<1>5. LeftoverInv'
  <2>1. Due => Due'
    BY <1>1 DEF Due
  <2> QED BY <1>1, <1>2, <2>1 DEF LeftoverInv, Unlists, Unstages
<1> QED BY <1>3, <1>4, <1>5

\* A worker that takes a key will look at everything: it has not read yet.
LEMMA TakeStep ==
  ASSUME SyncInv, NEW w \in Worker, NEW i \in Ingress, Take(w, i), ingresses[i].phase # "gone"
  PROVE  SyncInv'
<1> USE DEF SyncInv
<1>1. /\ pc[w] = "take" /\ i \in pending /\ \A v \in Worker : item[v] # i
      /\ pc' = [pc EXCEPT ![w] = "build"] /\ item' = [item EXCEPT ![w] = i]
      /\ deletes' = [deletes EXCEPT ![w] = ingresses[i].phase = "deleting"]
      /\ UNCHANGED <<document, dropped, vanished, missed, astray, changes, faults, built, todo>>
  BY DEF Take, Goto, clientVars
<1>2. \/ /\ ingresses[i].phase = "new"
         /\ ingresses' = [ingresses EXCEPT ![i].phase = "held"] /\ pending' = pending
      \/ /\ ingresses[i].phase \in {"held", "deleting"}
         /\ ingresses' = ingresses /\ pending' = pending \ {i}
  BY DEF Take, IngressReconcileTypeOK, IngressPhase
<1>3. BuildState' = BuildState
  BY <1>2 DEF BuildState, IngressesInv
<1>4. IngressesInv'
  BY <1>2 DEF IngressesInv, IngressPhase
<1>9. ingresses'[i].phase \in {"held", "deleting"} /\ \A j \in Ingress : ingresses'[j].spec = ingresses[j].spec
  <2>1. CASE ingresses' = [ingresses EXCEPT ![i].phase = "held"]
    BY <2>1 DEF IngressesInv
  <2>2. CASE ingresses' = ingresses /\ ingresses[i].phase \in {"held", "deleting"}
    BY <2>2
  <2> QED BY <1>2, <2>1, <2>2
<1>5. IngressReconcileTypeOK'
  <2>1. \A j \in Ingress : ingresses'[j].phase \in IngressPhase /\ ingresses'[j].spec \in Specs[j] \cup {{}}
    BY <1>4, <1>9 DEF IngressReconcileTypeOK, IngressesInv
  <2>2. i # NoIngress
    BY ReconcileAssumption
  <2>3. pc' \in [Worker -> {"take", "build", "read", "stage", "change"}]
        /\ item' \in [Worker -> Ingress \cup {NoIngress}] /\ deletes' \in [Worker -> BOOLEAN]
    <3>1. (ingresses[i].phase = "deleting") \in BOOLEAN
      OBVIOUS
    <3> QED BY <1>1, <3>1 DEF IngressReconcileTypeOK
  <2>4. \A v \in Worker : pc'[v] = "take" <=> item'[v] = NoIngress
    BY <1>1, <2>2 DEF IngressReconcileTypeOK
  <2>5. \A u, v \in Worker : u # v /\ item'[u] = item'[v] => item'[u] = NoIngress
    BY <1>1, <2>2 DEF IngressReconcileTypeOK
  <2>6. pending' \subseteq Ingress
    BY <1>2 DEF IngressReconcileTypeOK
  <2> QED BY <1>1, <2>1, <2>3, <2>4, <2>5, <2>6 DEF IngressReconcileTypeOK
<1>6. HoldingInv'
  <2>1. ASSUME NEW v \in Worker \ {w}
        PROVE  /\ pc'[v] = pc[v] /\ item'[v] = item[v] /\ deletes'[v] = deletes[v]
               /\ pc[v] # "take" => ingresses'[item[v]] = ingresses[item[v]]
    <3>1. pc[v] # "take" => item[v] \in Ingress \ {i}
      BY <1>1 DEF IngressReconcileTypeOK
    <3> QED BY <1>1, <1>2, <3>1 DEF IngressReconcileTypeOK, IngressesInv
  <2>2. /\ pc'[w] = "build" /\ item'[w] = i
        /\ deletes'[w] => ingresses[i].phase = "deleting"
    BY <1>1 DEF IngressReconcileTypeOK
  <2>3. ASSUME NEW v \in Worker
        PROVE  /\ pc'[v] = "take" => ~deletes'[v]
               /\ pc'[v] # "take" => ingresses'[item'[v]].phase \in {"held", "deleting"}
               /\ deletes'[v] => ingresses'[item'[v]].phase = "deleting"
    BY <1>2, <1>9, <2>1, <2>2 DEF HoldingInv
  <2>4. \A j \in dropped' : j \notin pending' /\ \A v \in Worker : item'[v] # j
    BY <1>1, <1>2 DEF HoldingInv, IngressReconcileTypeOK
  <2>5. \A j \in dropped' : ingresses'[j].phase # "gone"
    <3>1. \A j \in dropped : j \in Ingress \ {i}
      BY <1>1 DEF HoldingInv, IngressReconcileTypeOK
    <3> QED BY <1>1, <1>2, <3>1 DEF HoldingInv, IngressesInv
  <2> QED BY <2>3, <2>4, <2>5 DEF HoldingInv
<1>7. StaleInv'
  <2>1. ASSUME NEW v \in Worker \ {w}, LastSync(v)'
        PROVE  /\ item'[v] = item[v] /\ pc'[v] = pc[v]
               /\ pc[v] # "take" => LastSync(v)
    <3>1. pc[v] # "take" => item[v] \in Ingress \ {i}
      BY <1>1 DEF IngressReconcileTypeOK
    <3> QED BY <1>1, <1>2, <2>1, <3>1 DEF IngressReconcileTypeOK, LastSync
  <2>2. pc'[w] = "build"
    BY <1>1 DEF IngressReconcileTypeOK
  <2> QED BY <1>1, <1>3, <2>1, <2>2 DEF StaleInv
<1>8. LeftoverInv'
  <2>1. pc'[w] = "build"
    BY <1>1 DEF IngressReconcileTypeOK
  <2> QED BY <2>1 DEF LeftoverInv, Unlists, Unstages
<1> QED BY <1>4, <1>5, <1>6, <1>7, <1>8

\* A state just built is up to date; what it does not ask for will go.
LEMMA BuildStep ==
  ASSUME SyncInv, NEW w \in Worker, Build(w)
  PROVE  SyncInv'
<1> USE DEF SyncInv
<1>1. /\ pc[w] = "build" /\ pc' = [pc EXCEPT ![w] = "read"]
      /\ built' = [built EXCEPT ![w] = BuildState] /\ vanished' = {}
      /\ UNCHANGED <<document, ingresses, pending, dropped, missed, astray, item, deletes, todo, changes, faults>>
  BY DEF Build, Goto, clientVars
<1>2. /\ pc'[w] = "read" /\ built'[w] = BuildState
      /\ \A v \in Worker \ {w} : pc'[v] = pc[v] /\ built'[v] = built[v]
  BY <1>1 DEF IngressReconcileTypeOK
<1>3. BuildState' = BuildState
  BY <1>1 DEF BuildState
<1>4. IngressesInv'
  BY <1>1 DEF IngressesInv
<1>5. IngressReconcileTypeOK'
  BY <1>1, BuildStateTyped DEF IngressReconcileTypeOK
<1>6. HoldingInv'
  BY <1>1, <1>2, HoldingKept
<1>7. StaleInv'
  BY <1>1, <1>2, <1>3 DEF StaleInv, LastSync
<1>8. LeftoverInv'
  <2>1. \A l \in Listener \ AllListeners(BuildState) : Unlists(w, l)'
    BY <1>2 DEF Unlists
  <2>2. \A b \in BackendSet \ AllBackendSets(BuildState) : Unstages(w, b)'
    BY <1>2 DEF Unstages
  <2> QED BY <1>1, <1>3, <2>1, <2>2 DEF LeftoverInv, ListenersIn, BackendSetsIn
<1> QED BY <1>4, <1>5, <1>6, <1>7, <1>8

\* The loops a worker gives itself contain what it was to remove, if the cached
\* document shows it, and to create nothing but what its Ingress asked for.
LEMMA ReadStep ==
  ASSUME SyncInv, NEW w \in Worker, Read(w)
  PROVE  SyncInv'
<1> USE DEF SyncInv
<1> DEFINE sets     == IF deletes[w] THEN {} ELSE IngressBackendSets(built[w], item[w])
           ports    == IF deletes[w] THEN {} ELSE IngressListeners(built[w], item[w])
           staged   == sets \ BackendSetsIn(cache)
           listen   == IF staged = {} THEN ports \ ListenersIn(cache) ELSE {}
           unlisten == IF staged = {} THEN ListenersIn(cache) \ AllListeners(built[w]) ELSE {}
           unstage  == BackendSetsIn(cache) \ AllBackendSets(built[w])
           listened == IF staged = {} THEN ListenersIn(document) \ AllListeners(built[w]) ELSE {}
           new == [stage |-> staged, listen |-> listen, create |-> {},
                   unlisten |-> unlisten, unstage |-> unstage]
<1>1. /\ pc[w] = "read" /\ todo' = [todo EXCEPT ![w] = new]
      /\ \/ staged = {} /\ pc' = [pc EXCEPT ![w] = "change"] /\ built' = [built EXCEPT ![w] = NothingBuilt]
         \/ staged # {} /\ pc' = [pc EXCEPT ![w] = "stage"] /\ built' = built
      /\ astray' = (astray \cup listened \cup (BackendSetsIn(document) \ AllBackendSets(built[w])))
                      \ (unlisten \cup unstage)
      /\ missed' \subseteq missed \cup {item[w]}
      /\ UNCHANGED <<document, ingresses, pending, dropped, vanished, item, deletes, changes, faults>>
  BY DEF Read, Goto, clientVars
<1>2. item[w] \in Ingress /\ built[w] \in [Ingress -> SUBSET Path]
  BY <1>1 DEF IngressReconcileTypeOK
<1>3. /\ staged \subseteq IngressBackendSets(built[w], item[w]) /\ staged \subseteq BackendSet
      /\ listen \subseteq IngressListeners(built[w], item[w]) /\ listen \subseteq Listener
      /\ unlisten \subseteq Listener /\ unstage \subseteq BackendSet
      /\ listened \subseteq Listener
  <2>1. staged \subseteq BackendSet /\ listen \subseteq Listener
    BY <1>2, StateTyped
  <2> QED BY <2>1 DEF ListenersIn, BackendSetsIn
<1>4. new \in Loops
  BY <1>3 DEF Loops
<1>5. /\ new.stage = staged /\ new.listen = listen /\ new.create = {}
      /\ new.unlisten = unlisten /\ new.unstage = unstage
      /\ (staged = {} => listened = ListenersIn(document) \ AllListeners(built[w]))
  OBVIOUS
<1>6. \A b \in BackendSetsIn(document) \ AllBackendSets(built[w]) : b \in astray' \cup unstage
  BY <1>1, <1>3, ReconcileAssumption DEF BackendSetsIn
<1>7. \A l \in listened : l \in astray' \cup unlisten
  BY <1>1, <1>3, ReconcileAssumption
<1>8. /\ astray \ astray' \subseteq unlisten \cup unstage
      /\ astray' \subseteq Listener \cup BackendSet
  BY <1>1, <1>3 DEF IngressReconcileTypeOK, BackendSetsIn
<1> HIDE DEF new, staged, listen, unlisten, unstage, listened
<1>9. /\ todo'[w] = new
      /\ \A v \in Worker \ {w} : pc'[v] = pc[v] /\ built'[v] = built[v] /\ todo'[v] = todo[v]
      /\ \/ pc'[w] = "change" /\ staged = {}
         \/ pc'[w] = "stage" /\ staged # {} /\ built'[w] = built[w]
  BY <1>1 DEF IngressReconcileTypeOK
<1>10. BuildState' = BuildState
  BY <1>1 DEF BuildState
<1>11. IngressesInv'
  BY <1>1 DEF IngressesInv
<1>12. IngressReconcileTypeOK'
  <2>1. NothingBuilt \in [Ingress -> SUBSET Path]
    BY DEF NothingBuilt
  <2>2. built' \in [Worker -> [Ingress -> SUBSET Path]]
    BY <1>1, <2>1 DEF IngressReconcileTypeOK
  <2>3. pc' \in [Worker -> {"take", "build", "read", "stage", "change"}]
        /\ \A v \in Worker : pc'[v] = "take" <=> pc[v] = "take"
    BY <1>1 DEF IngressReconcileTypeOK
  <2>4. todo' \in [Worker -> Loops]
    BY <1>1, <1>4 DEF IngressReconcileTypeOK, Loops
  <2>5. missed' \subseteq Ingress
    BY <1>1, <1>2 DEF IngressReconcileTypeOK
  <2> QED BY <1>1, <1>8, <2>2, <2>3, <2>4, <2>5 DEF IngressReconcileTypeOK, Loops
<1>13. HoldingInv'
  BY <1>1, <1>9, HoldingKept
<1>14. StaleInv'
  <2>1. ASSUME LastSync(w)
        PROVE  /\ built[w][item[w]] = BuildState[item[w]]
               /\ staged \subseteq IngressBackendSets(BuildState, item[w])
               /\ listen \subseteq IngressListeners(BuildState, item[w])
    <3>1. built[w][item[w]] = BuildState[item[w]]
      BY <1>1, <2>1 DEF StaleInv
    <3> QED BY <1>3, <3>1 DEF IngressBackendSets, IngressListeners
  <2> QED BY <1>1, <1>5, <1>9, <1>10, <2>1 DEF StaleInv, LastSync
<1>15. LeftoverInv'
  <2>1. Due' = Due
    BY <1>1 DEF Due
  <2>2. ASSUME NEW l \in ListenersIn(document), NEW v \in Worker, Unlists(v, l)
        PROVE  l \in astray' \/ Unlists(v, l)'
    <3>1. CASE v = w
      BY <1>1, <1>5, <1>7, <1>9, <2>2, <3>1 DEF Unlists
    <3>2. CASE v # w
      BY <1>9, <2>2, <3>2 DEF Unlists
    <3> QED BY <3>1, <3>2
  <2>3. ASSUME NEW b \in BackendSetsIn(document), NEW v \in Worker, Unstages(v, b)
        PROVE  b \in astray' \/ Unstages(v, b)'
    <3>1. CASE v = w
      BY <1>1, <1>5, <1>6, <1>9, <2>3, <3>1 DEF Unstages
    <3>2. CASE v # w
      BY <1>9, <2>3, <3>2 DEF Unstages
    <3> QED BY <3>1, <3>2
  <2>4. ASSUME NEW l \in ListenersIn(document) \cap astray
        PROVE  l \in astray' \/ Unlists(w, l)'
    <3>1. l \in astray' \/ l \in unlisten
      BY <1>3, <1>8, ReconcileAssumption DEF ListenersIn
    <3>2. staged # {} => unlisten = {}
      BY DEF unlisten
    <3> QED BY <1>5, <1>9, <3>1, <3>2 DEF Unlists
  <2>5. ASSUME NEW b \in BackendSetsIn(document) \cap astray
        PROVE  b \in astray' \/ Unstages(w, b)'
    <3>1. b \in astray' \/ b \in unstage
      BY <1>3, <1>8, ReconcileAssumption DEF BackendSetsIn
    <3> QED BY <1>5, <1>9, <3>1 DEF Unstages
  <2>6. ASSUME NEW l \in ListenersIn(document) \ AllListeners(BuildState)
        PROVE  l \in astray' \/ Due \/ \E v \in Worker : Unlists(v, l)'
    BY <2>2, <2>4 DEF LeftoverInv
  <2>7. ASSUME NEW b \in BackendSetsIn(document) \ AllBackendSets(BuildState)
        PROVE  b \in astray' \/ Due \/ \E v \in Worker : Unstages(v, b)'
    BY <2>3, <2>5 DEF LeftoverInv
  <2> QED BY <1>1, <1>10, <2>1, <2>6, <2>7 DEF LeftoverInv
<1> QED BY <1>11, <1>12, <1>13, <1>14, <1>15

\* The second read is of the listeners only, against the same state.
LEMMA RefreshStep ==
  ASSUME SyncInv, NEW w \in Worker, Refresh(w)
  PROVE  SyncInv'
<1> USE DEF SyncInv
<1> DEFINE listen == IngressListeners(built[w], item[w]) \ ListenersIn(document)
           unlisten == ListenersIn(document) \ AllListeners(built[w])
           new == [todo[w] EXCEPT !.listen = listen, !.unlisten = unlisten]
<1>1. /\ pc[w] = "stage" /\ todo' = [todo EXCEPT ![w] = new]
      /\ pc' = [pc EXCEPT ![w] = "change"] /\ built' = [built EXCEPT ![w] = NothingBuilt]
      /\ astray' = astray \ unlisten
      /\ UNCHANGED <<document, ingresses, pending, dropped, vanished, missed, item, deletes, changes, faults>>
  BY DEF Refresh, Goto, Fetch
<1>2. item[w] \in Ingress /\ built[w] \in [Ingress -> SUBSET Path]
  BY <1>1 DEF IngressReconcileTypeOK
<1>3. listen \subseteq Listener /\ unlisten \subseteq Listener
  BY <1>2, StateTyped DEF ListenersIn
<1> HIDE DEF listen, unlisten
<1>4. /\ new \in Loops /\ new.listen = listen /\ new.unlisten = unlisten
      /\ new.stage = todo[w].stage /\ new.create = todo[w].create /\ new.unstage = todo[w].unstage
  <2>1. todo[w] \in Loops
    BY DEF IngressReconcileTypeOK, Loops
  <2> QED BY <1>3, <2>1 DEF Loops
<1> HIDE DEF new
<1>5. /\ todo'[w] = new /\ pc'[w] = "change"
      /\ \A v \in Worker \ {w} : pc'[v] = pc[v] /\ built'[v] = built[v] /\ todo'[v] = todo[v]
  BY <1>1 DEF IngressReconcileTypeOK
<1>6. BuildState' = BuildState
  BY <1>1 DEF BuildState
<1>7. IngressesInv'
  BY <1>1 DEF IngressesInv
<1>8. IngressReconcileTypeOK'
  <2>1. NothingBuilt \in [Ingress -> SUBSET Path]
    BY DEF NothingBuilt
  <2>2. built' \in [Worker -> [Ingress -> SUBSET Path]]
    BY <1>1, <2>1 DEF IngressReconcileTypeOK
  <2>3. pc' \in [Worker -> {"take", "build", "read", "stage", "change"}]
        /\ \A v \in Worker : pc'[v] = "take" <=> pc[v] = "take"
    BY <1>1 DEF IngressReconcileTypeOK
  <2>4. todo' \in [Worker -> Loops]
    BY <1>1, <1>4 DEF IngressReconcileTypeOK, Loops
  <2> QED BY <1>1, <2>2, <2>3, <2>4 DEF IngressReconcileTypeOK, Loops
<1>9. HoldingInv'
  BY <1>1, <1>5, HoldingKept
<1>10. StaleInv'
  <2>1. ASSUME LastSync(w)
        PROVE  listen \subseteq IngressListeners(BuildState, item[w])
    <3>1. built[w][item[w]] = BuildState[item[w]]
      BY <1>1, <2>1 DEF StaleInv
    <3> QED BY <3>1 DEF IngressListeners, listen
  <2> QED BY <1>1, <1>4, <1>5, <1>6, <2>1 DEF StaleInv, LastSync
<1>11. LeftoverInv'
  <2>1. Due' = Due
    BY <1>1 DEF Due
  <2>2. ASSUME NEW l \in ListenersIn(document), NEW v \in Worker, Unlists(v, l) PROVE Unlists(v, l)'
    BY <1>1, <1>4, <1>5, <2>2 DEF Unlists, unlisten
  <2>3. ASSUME NEW b \in BackendSetsIn(document), NEW v \in Worker, Unstages(v, b) PROVE Unstages(v, b)'
    BY <1>1, <1>4, <1>5, <2>3 DEF Unstages
  <2>4. ASSUME NEW l \in ListenersIn(document) \cap astray PROVE l \in astray' \/ Unlists(w, l)'
    BY <1>1, <1>4, <1>5 DEF Unlists
  <2>5. BackendSetsIn(document) \cap astray \subseteq astray'
    BY <1>1, <1>3, ReconcileAssumption DEF BackendSetsIn
  <2> QED BY <1>1, <1>6, <2>1, <2>2, <2>3, <2>4, <2>5 DEF LeftoverInv
<1> QED BY <1>7, <1>8, <1>9, <1>10, <1>11

-----------------------------------------------------------------------------
(* A sync: the loops.                                                        *)

TurnLoops == {"stage", "create", "unlisten", "unstage"}

\* A turn of a loop takes one name off it.
LEMMA TurnTakes ==
  ASSUME IngressReconcileTypeOK, NEW w \in Worker,
         NEW loop \in TurnLoops, NEW name, Turn(w, loop, name)
  PROVE  /\ todo' \in [Worker -> Loops]
         /\ \A v \in Worker \ {w} : todo'[v] = todo[v]
         /\ todo'[w].listen = todo[w].listen
         /\ todo'[w].stage = todo[w].stage \ (IF loop = "stage" THEN {name} ELSE {})
         /\ todo'[w].create = todo[w].create \ (IF loop = "create" THEN {name} ELSE {})
         /\ todo'[w].unlisten = todo[w].unlisten \ (IF loop = "unlisten" THEN {name} ELSE {})
         /\ todo'[w].unstage = todo[w].unstage \ (IF loop = "unstage" THEN {name} ELSE {})
<1> DEFINE left == [todo[w] EXCEPT ![loop] = @ \ {name}]
<1>1. todo \in [Worker -> Loops]
  BY DEF IngressReconcileTypeOK, Loops
<1>2. todo' = [todo EXCEPT ![w] = left]
  BY DEF Turn
<1>3. /\ left \in Loops /\ left.listen = todo[w].listen
      /\ left.stage = todo[w].stage \ (IF loop = "stage" THEN {name} ELSE {})
      /\ left.create = todo[w].create \ (IF loop = "create" THEN {name} ELSE {})
      /\ left.unlisten = todo[w].unlisten \ (IF loop = "unlisten" THEN {name} ELSE {})
      /\ left.unstage = todo[w].unstage \ (IF loop = "unstage" THEN {name} ELSE {})
  <2>1. todo[w] \in Loops
    BY <1>1
  <2>2. CASE loop = "stage"
    BY <2>1, <2>2 DEF Loops
  <2>3. CASE loop = "create"
    BY <2>1, <2>3 DEF Loops
  <2>4. CASE loop = "unlisten"
    BY <2>1, <2>4 DEF Loops
  <2>5. CASE loop = "unstage"
    BY <2>1, <2>5 DEF Loops
  <2> QED BY <2>2, <2>3, <2>4, <2>5 DEF TurnLoops
<1> HIDE DEF left
<1>4. todo' \in [Worker -> Loops] /\ todo'[w] = left /\ \A v \in Worker \ {w} : todo'[v] = todo[v]
  BY <1>1, <1>2, <1>3
<1> QED BY <1>3, <1>4

\* A turn is harmless if it creates only what is in a creating loop, and if what
\* it strikes off a deleting loop is gone, or counts as astray.
LEMMA TurnStep ==
  ASSUME SyncInv, NEW w \in Worker, NEW loop \in TurnLoops, NEW name,
         Turn(w, loop, name), pc[w] \in {"stage", "change"},
         faults' \in 0..MaxFaults, missed' \subseteq Ingress,
         astray \subseteq astray', astray' \subseteq Listener \cup BackendSet,
         \A l \in ListenersIn(document') :
           \/ l \in ListenersIn(document) /\ (loop = "unlisten" /\ name = l => l \in astray')
           \/ loop = "create" /\ name = l /\ pc[w] = "change",
         \A b \in BackendSetsIn(document') :
           \/ b \in BackendSetsIn(document) /\ (loop = "unstage" /\ name = b => b \in astray')
           \/ loop = "stage" /\ name = b /\ pc[w] = "stage"
  PROVE  SyncInv'
<1> USE DEF SyncInv
<1>1. /\ name \in todo[w][loop]
      /\ UNCHANGED <<ingresses, pending, dropped, vanished, pc, item, deletes, built, changes>>
  BY DEF Turn
<1>2. /\ todo' \in [Worker -> Loops]
      /\ \A v \in Worker \ {w} : todo'[v] = todo[v]
      /\ todo'[w].listen = todo[w].listen
      /\ todo'[w].stage = todo[w].stage \ (IF loop = "stage" THEN {name} ELSE {})
      /\ todo'[w].create = todo[w].create \ (IF loop = "create" THEN {name} ELSE {})
      /\ todo'[w].unlisten = todo[w].unlisten \ (IF loop = "unlisten" THEN {name} ELSE {})
      /\ todo'[w].unstage = todo[w].unstage \ (IF loop = "unstage" THEN {name} ELSE {})
  BY TurnTakes
<1>3. BuildState' = BuildState
  BY <1>1 DEF BuildState
<1>4. IngressesInv' /\ HoldingInv'
  BY <1>1, HoldingKept DEF IngressesInv
<1>5. IngressReconcileTypeOK'
  BY <1>1, <1>2 DEF IngressReconcileTypeOK, Loops
<1>6. StaleInv'
  BY <1>1, <1>2, <1>3 DEF StaleInv, LastSync
<1>7. Due' = Due
  BY <1>1 DEF Due
<1>8. item[w] \in Ingress /\ BuildState \in [Ingress -> SUBSET Path]
  BY BuildStateTyped DEF IngressReconcileTypeOK
<1>9. LastSync(w) \/ Due
  <2>1. \A v \in Worker : item[v] = item[w] => v = w
    BY <1>8, ReconcileAssumption DEF IngressReconcileTypeOK
  <2> QED BY <2>1 DEF Due, HoldingInv, LastSync
<1>10. ASSUME NEW l \in ListenersIn(document') \ AllListeners(BuildState)
       PROVE  l \in astray' \/ Due \/ \E v \in Worker : Unlists(v, l)'
  <2>1. CASE l \in ListenersIn(document) /\ ~(loop = "unlisten" /\ name = l)
    <3>1. \A v \in Worker : Unlists(v, l) => Unlists(v, l)'
      BY <1>1, <1>2, <2>1 DEF Unlists
    <3> QED BY <1>10, <2>1, <3>1 DEF LeftoverInv
  <2>2. CASE loop = "create" /\ name = l /\ pc[w] = "change"
    <3>1. l \in todo[w].create
      BY <1>1, <2>2
    <3>2. l \notin IngressListeners(BuildState, item[w])
      BY <1>8, <1>10, StateTyped
    <3> QED BY <1>9, <2>2, <3>1, <3>2 DEF StaleInv
  <2> QED BY <1>10, <2>1, <2>2
<1>11. ASSUME NEW b \in BackendSetsIn(document') \ AllBackendSets(BuildState)
       PROVE  b \in astray' \/ Due \/ \E v \in Worker : Unstages(v, b)'
  <2>1. CASE b \in BackendSetsIn(document) /\ ~(loop = "unstage" /\ name = b)
    <3>1. \A v \in Worker : Unstages(v, b) => Unstages(v, b)'
      BY <1>1, <1>2, <2>1 DEF Unstages
    <3> QED BY <1>11, <2>1, <3>1 DEF LeftoverInv
  <2>2. CASE loop = "stage" /\ name = b /\ pc[w] = "stage"
    <3>1. b \in todo[w].stage
      BY <1>1, <2>2
    <3>2. b \notin IngressBackendSets(BuildState, item[w])
      BY <1>8, <1>11, StateTyped
    <3> QED BY <1>9, <2>2, <3>1, <3>2 DEF StaleInv
  <2> QED BY <1>11, <2>1, <2>2
<1>12. LeftoverInv'
  BY <1>3, <1>7, <1>10, <1>11 DEF LeftoverInv
<1> QED BY <1>4, <1>5, <1>6, <1>12

\* A listener found when it was to be created is left alone.
LEMMA RefreshListenerTakes ==
  ASSUME IngressReconcileTypeOK, NEW w \in Worker, NEW l \in Listener, RefreshListener(w, l)
  PROVE  /\ todo' \in [Worker -> Loops]
         /\ \A v \in Worker \ {w} : todo'[v] = todo[v]
         /\ todo'[w].listen = todo[w].listen \ {l} /\ todo[w].create = {}
         /\ todo'[w].create = {l} \ ListenersIn(document) /\ l \in todo[w].listen
         /\ todo'[w].stage = todo[w].stage
         /\ todo'[w].unlisten = todo[w].unlisten /\ todo'[w].unstage = todo[w].unstage
<1> DEFINE new == [todo[w] EXCEPT !.listen = @ \ {l}, !.create = {l} \ ListenersIn(document)]
<1>1. todo[w] \in Loops
  BY DEF IngressReconcileTypeOK, Loops
<1>2. /\ new \in Loops /\ new.listen = todo[w].listen \ {l}
      /\ new.create = {l} \ ListenersIn(document) /\ new.stage = todo[w].stage
      /\ new.unlisten = todo[w].unlisten /\ new.unstage = todo[w].unstage
  BY <1>1 DEF Loops
<1>3. /\ todo' = [todo EXCEPT ![w] = new]
      /\ l \in todo[w].listen /\ todo[w].create = {}
  BY DEF RefreshListener
<1> HIDE DEF new
<1> QED BY <1>2, <1>3 DEF IngressReconcileTypeOK, Loops

LEMMA RefreshListenerStep ==
  ASSUME SyncInv, NEW w \in Worker, NEW l \in Listener, RefreshListener(w, l)
  PROVE  SyncInv'
<1> USE DEF SyncInv
<1>1. UNCHANGED <<document, ingresses, pending, dropped, vanished, missed, astray, pc, item, deletes, built,
                  changes, faults>>
  BY DEF RefreshListener, Fetch
<1>2. /\ todo' \in [Worker -> Loops]
      /\ \A v \in Worker \ {w} : todo'[v] = todo[v]
      /\ todo'[w].listen \cup todo'[w].create \subseteq todo[w].listen
      /\ todo'[w].stage = todo[w].stage
      /\ todo'[w].unlisten = todo[w].unlisten /\ todo'[w].unstage = todo[w].unstage
  BY RefreshListenerTakes
<1>3. BuildState' = BuildState /\ Due' = Due
  BY <1>1 DEF BuildState, Due
<1>4. IngressesInv' /\ HoldingInv'
  BY <1>1, HoldingKept DEF IngressesInv
<1>5. IngressReconcileTypeOK'
  BY <1>1, <1>2 DEF IngressReconcileTypeOK, Loops
<1>6. StaleInv'
  BY <1>1, <1>2, <1>3 DEF StaleInv, LastSync
<1>7. LeftoverInv'
  BY <1>1, <1>2, <1>3 DEF LeftoverInv, Unlists, Unstages
<1> QED BY <1>4, <1>5, <1>6, <1>7

\* What each turn does to the load balancer, and what is noted of it.
LEMMA TurnDoes ==
  ASSUME ClientInv, SyncInv, NEW w \in Worker,
         \/ \E b \in BackendSet : CreateBackendSet(w, b) \/ CreateTakenAsDone(w, b) \/ DeleteBackendSet(w, b)
         \/ \E l \in Listener : CreateListener(w, l) \/ DeleteListener(w, l)
  PROVE  /\ ClientInv' /\ PoliciesUntouched
         /\ faults' \in 0..MaxFaults /\ missed \subseteq missed' /\ missed' \subseteq Ingress
         /\ astray \subseteq astray' /\ astray' \subseteq Listener \cup BackendSet
         /\ \E loop \in TurnLoops, name \in Listener \cup BackendSet :
              /\ Turn(w, loop, name)
              /\ pc[w] = IF loop = "stage" THEN "stage" ELSE "change"
              /\ loop = "stage" => name \in BackendSetsIn(document') \/ item[w] \in missed'
              /\ loop = "create" => name \in ListenersIn(document') \/ item[w] \in missed'
              /\ loop = "unlisten" => name \notin ListenersIn(document') \/ name \in astray'
              /\ loop = "unstage" => name \notin BackendSetsIn(document') \/ name \in astray'
              /\ ListenersIn(document') \ ListenersIn(document) \subseteq (IF loop = "create" THEN {name} ELSE {})
              /\ ListenersIn(document) \ ListenersIn(document') \subseteq (IF loop = "unlisten" THEN {name} ELSE {})
              /\ BackendSetsIn(document') \ BackendSetsIn(document) \subseteq (IF loop = "stage" THEN {name} ELSE {})
              /\ BackendSetsIn(document) \ BackendSetsIn(document') \subseteq (IF loop = "unstage" THEN {name} ELSE {})
<1>1. /\ faults \in 0..MaxFaults /\ missed \subseteq Ingress /\ astray \subseteq Listener \cup BackendSet
      /\ pc[w] # "take" => item[w] \in Ingress
  BY DEF SyncInv, IngressReconcileTypeOK
<1>2. ASSUME NEW b \in BackendSet, CreateBackendSet(w, b)
      PROVE  /\ pc[w] = "stage" /\ Turn(w, "stage", b) /\ Created(w, b, BackendSetsIn(document'))
             /\ Ensure(w, "CreateBackendSet", b, BackendSetValue)
  BY <1>2 DEF CreateBackendSet
<1>3. ASSUME NEW l \in Listener, CreateListener(w, l)
      PROVE  /\ pc[w] = "change" /\ Turn(w, "create", l) /\ Created(w, l, ListenersIn(document'))
             /\ Ensure(w, "CreateListener", l, Config)
  BY <1>3 DEF CreateListener
<1>4. ASSUME NEW l \in Listener, DeleteListener(w, l)
      PROVE  /\ pc[w] = "change" /\ Turn(w, "unlisten", l) /\ Deleted(l, ListenersIn(document'))
             /\ Ensure(w, "DeleteListener", l, {Absent})
  BY <1>4 DEF DeleteListener, Listening
<1>5. ASSUME NEW b \in BackendSet, DeleteBackendSet(w, b)
      PROVE  /\ pc[w] = "change" /\ Turn(w, "unstage", b) /\ Deleted(b, BackendSetsIn(document'))
             /\ Ensure(w, "DeleteBackendSet", b, {Absent})
  BY <1>5 DEF DeleteBackendSet, Listening
<1>6. ASSUME NEW b \in BackendSet, CreateTakenAsDone(w, b)
      PROVE  /\ pc[w] = "stage" /\ Turn(w, "stage", b) /\ item[w] \in missed' /\ missed' = missed \cup {item[w]}
             /\ faults' \in 0..MaxFaults /\ astray' = astray
             /\ UNCHANGED clientVars
  <2>1. /\ pc[w] = "stage" /\ Turn(w, "stage", b) /\ missed' = missed \cup {item[w]}
        /\ Failing /\ UNCHANGED <<clientVars, astray>>
    BY <1>6 DEF CreateTakenAsDone
  <2>2. faults' \in 0..MaxFaults
    BY <1>1, <2>1, ReconcileAssumption DEF Failing
  <2> QED BY <2>1, <2>2
<1>7. /\ \A b \in BackendSet : /\ \A v \in BackendSetValue : [kind |-> "CreateBackendSet", name |-> b, value |-> v] \in Call
                               /\ \A v \in {Absent} : [kind |-> "DeleteBackendSet", name |-> b, value |-> v] \in Call
      /\ \A l \in Listener : /\ \A v \in Config : [kind |-> "CreateListener", name |-> l, value |-> v] \in Call
                             /\ \A v \in {Absent} : [kind |-> "DeleteListener", name |-> l, value |-> v] \in Call
  BY DEF Call, BackendSetCall, ListenerCall
<1>8. CASE \E b \in BackendSet : CreateBackendSet(w, b)
  <2> PICK b \in BackendSet : CreateBackendSet(w, b)
    BY <1>8
  <2>3. /\ Ensure(w, "CreateBackendSet", b, BackendSetValue) /\ "CreateBackendSet" \in EnsureKinds
        /\ \A v \in BackendSetValue : [kind |-> "CreateBackendSet", name |-> b, value |-> v] \in Call
    BY <1>2, <1>7 DEF EnsureKinds
  <2>1. /\ ClientInv' /\ PoliciesUntouched
        /\ ListenersIn(document') \ ListenersIn(document) \subseteq {}
        /\ ListenersIn(document) \ ListenersIn(document') \subseteq {}
        /\ BackendSetsIn(document') \ BackendSetsIn(document) \subseteq {b}
        /\ BackendSetsIn(document) \ BackendSetsIn(document') \subseteq {}
    BY <2>3, EnsureChanges
  <2>2. /\ faults' = faults /\ astray' = astray
        /\ missed' = missed \cup {item[w]} \/ (missed' = missed /\ b \in BackendSetsIn(document'))
    BY <1>2 DEF Created
  <2> QED BY <1>1, <1>2, <2>1, <2>2 DEF TurnLoops
<1>9. CASE \E l \in Listener : CreateListener(w, l)
  <2> PICK l \in Listener : CreateListener(w, l)
    BY <1>9
  <2>3. /\ Ensure(w, "CreateListener", l, Config) /\ "CreateListener" \in EnsureKinds
        /\ \A v \in Config : [kind |-> "CreateListener", name |-> l, value |-> v] \in Call
    BY <1>3, <1>7 DEF EnsureKinds
  <2>1. /\ ClientInv' /\ PoliciesUntouched
        /\ ListenersIn(document') \ ListenersIn(document) \subseteq {l}
        /\ ListenersIn(document) \ ListenersIn(document') \subseteq {}
        /\ BackendSetsIn(document') \ BackendSetsIn(document) \subseteq {}
        /\ BackendSetsIn(document) \ BackendSetsIn(document') \subseteq {}
    BY <2>3, EnsureChanges
  <2>2. /\ faults' = faults /\ astray' = astray
        /\ missed' = missed \cup {item[w]} \/ (missed' = missed /\ l \in ListenersIn(document'))
    BY <1>3 DEF Created
  <2> QED BY <1>1, <1>3, <2>1, <2>2 DEF TurnLoops
<1>10. CASE \E l \in Listener : DeleteListener(w, l)
  <2> PICK l \in Listener : DeleteListener(w, l)
    BY <1>10
  <2>3. /\ Ensure(w, "DeleteListener", l, {Absent}) /\ "DeleteListener" \in EnsureKinds
        /\ \A v \in {Absent} : [kind |-> "DeleteListener", name |-> l, value |-> v] \in Call
    BY <1>4, <1>7 DEF EnsureKinds
  <2>1. /\ ClientInv' /\ PoliciesUntouched
        /\ ListenersIn(document') \ ListenersIn(document) \subseteq {}
        /\ ListenersIn(document) \ ListenersIn(document') \subseteq {l}
        /\ BackendSetsIn(document') \ BackendSetsIn(document) \subseteq {}
        /\ BackendSetsIn(document) \ BackendSetsIn(document') \subseteq {}
    BY <2>3, EnsureChanges
  <2>2. /\ faults' = faults /\ missed' = missed
        /\ astray' = astray \cup {l} \/ (astray' = astray /\ l \notin ListenersIn(document'))
    BY <1>4 DEF Deleted
  <2> QED BY <1>1, <1>4, <2>1, <2>2 DEF TurnLoops
<1>11. CASE \E b \in BackendSet : DeleteBackendSet(w, b)
  <2> PICK b \in BackendSet : DeleteBackendSet(w, b)
    BY <1>11
  <2>3. /\ Ensure(w, "DeleteBackendSet", b, {Absent}) /\ "DeleteBackendSet" \in EnsureKinds
        /\ \A v \in {Absent} : [kind |-> "DeleteBackendSet", name |-> b, value |-> v] \in Call
    BY <1>5, <1>7 DEF EnsureKinds
  <2>1. /\ ClientInv' /\ PoliciesUntouched
        /\ ListenersIn(document') \ ListenersIn(document) \subseteq {}
        /\ ListenersIn(document) \ ListenersIn(document') \subseteq {}
        /\ BackendSetsIn(document') \ BackendSetsIn(document) \subseteq {}
        /\ BackendSetsIn(document) \ BackendSetsIn(document') \subseteq {b}
    BY <2>3, EnsureChanges
  <2>2. /\ faults' = faults /\ missed' = missed
        /\ astray' = astray \cup {b} \/ (astray' = astray /\ b \notin BackendSetsIn(document'))
    BY <1>5 DEF Deleted
  <2> QED BY <1>1, <1>5, <2>1, <2>2 DEF TurnLoops
<1>12. CASE \E b \in BackendSet : CreateTakenAsDone(w, b)
  <2> PICK b \in BackendSet : CreateTakenAsDone(w, b)
    BY <1>12
  <2>1. ClientInv' /\ PoliciesUntouched /\ document' = document
    BY <1>6, ClientKept DEF clientVars
  <2> QED BY <1>1, <1>6, <2>1 DEF TurnLoops
<1> QED BY <1>8, <1>9, <1>10, <1>11, <1>12

LEMMA LoopSteps ==
  ASSUME ClientInv, SyncInv, NEW w \in Worker,
         \/ \E b \in BackendSet : CreateBackendSet(w, b) \/ CreateTakenAsDone(w, b) \/ DeleteBackendSet(w, b)
         \/ \E l \in Listener : CreateListener(w, l) \/ DeleteListener(w, l)
  PROVE  SyncInv'
<1>1. /\ faults' \in 0..MaxFaults /\ missed' \subseteq Ingress
      /\ astray \subseteq astray' /\ astray' \subseteq Listener \cup BackendSet
  BY TurnDoes
<1>2. PICK loop \in TurnLoops, name \in Listener \cup BackendSet :
        /\ Turn(w, loop, name)
        /\ pc[w] = IF loop = "stage" THEN "stage" ELSE "change"
        /\ loop = "unlisten" => name \notin ListenersIn(document') \/ name \in astray'
        /\ loop = "unstage" => name \notin BackendSetsIn(document') \/ name \in astray'
        /\ ListenersIn(document') \ ListenersIn(document) \subseteq (IF loop = "create" THEN {name} ELSE {})
        /\ BackendSetsIn(document') \ BackendSetsIn(document) \subseteq (IF loop = "stage" THEN {name} ELSE {})
  BY TurnDoes
<1>3. \A l \in ListenersIn(document') :
        \/ l \in ListenersIn(document) /\ (loop = "unlisten" /\ name = l => l \in astray')
        \/ loop = "create" /\ name = l /\ pc[w] = "change"
  BY <1>2
<1>4. \A b \in BackendSetsIn(document') :
        \/ b \in BackendSetsIn(document) /\ (loop = "unstage" /\ name = b => b \in astray')
        \/ loop = "stage" /\ name = b /\ pc[w] = "stage"
  BY <1>2
<1>5. pc[w] \in {"stage", "change"}
  BY <1>2
<1> QED BY <1>1, <1>2, <1>3, <1>4, <1>5, TurnStep

-----------------------------------------------------------------------------
(* A sync: the end.                                                          *)

\* A worker that lets go of its key is as at the start, and no other worker notices.
LEMMA LeaveStep ==
  ASSUME SyncInv, NEW w \in Worker, Leave(w)
  PROVE  /\ pc' \in [Worker -> {"take", "build", "read", "stage", "change"}]
         /\ item' \in [Worker -> Ingress \cup {NoIngress}] /\ deletes' \in [Worker -> BOOLEAN]
         /\ built' \in [Worker -> [Ingress -> SUBSET Path]]
         /\ todo' \in [Worker -> Loops]
         /\ \A u \in Worker : pc'[u] = "take" <=> item'[u] = NoIngress
         /\ \A u, v \in Worker : u # v /\ item'[u] = item'[v] => item'[u] = NoIngress
         /\ pc'[w] = "take" /\ ~deletes'[w] /\ item'[w] = NoIngress
         /\ \A v \in Worker \ {w} : /\ pc'[v] = pc[v] /\ item'[v] = item[v] /\ deletes'[v] = deletes[v]
                                    /\ built'[v] = built[v] /\ todo'[v] = todo[v]
<1>1. NothingBuilt \in [Ingress -> SUBSET Path]
  BY DEF NothingBuilt
<1>2. Nothing \in Loops
  BY DEF Nothing, Loops
<1> QED BY <1>1, <1>2 DEF Leave, Goto, SyncInv, IngressReconcileTypeOK, Loops

\* A sync that has gone to its end has removed all it was to remove. The one that
\* lets go of an Ingress changes nothing of what is asked for.
LEMMA FinishStep ==
  ASSUME SyncInv, NEW w \in Worker, Finish(w)
  PROVE  SyncInv'
<1> USE DEF SyncInv
<1> DEFINE i == item[w]
<1>1. /\ pc[w] = "change" /\ todo[w] = Nothing
      /\ Leave(w) /\ UNCHANGED <<document, vanished, missed, astray, changes, faults>>
  BY DEF Finish, clientVars
<1>2. i \in Ingress /\ i \notin dropped /\ ingresses[i].phase \in {"held", "deleting"}
  BY <1>1 DEF IngressReconcileTypeOK, HoldingInv
<1>3. \/ /\ deletes[w] /\ ingresses[i].phase = "deleting"
         /\ ingresses' = [ingresses EXCEPT ![i] = Gone] /\ pending' = pending \cup {i}
      \/ ingresses' = ingresses /\ pending' = pending
  BY <1>1 DEF Finish, Enqueue, HoldingInv
<1>4. dropped' = dropped
  BY <1>2 DEF Finish, Enqueue
<1>5. /\ pc'[w] = "take" /\ ~deletes'[w] /\ item'[w] = NoIngress
      /\ \A v \in Worker \ {w} : /\ pc'[v] = pc[v] /\ item'[v] = item[v] /\ deletes'[v] = deletes[v]
                                 /\ built'[v] = built[v] /\ todo'[v] = todo[v]
  BY <1>1, LeaveStep
<1>6. /\ \A j \in Ingress \ {i} : ingresses'[j] = ingresses[j]
      /\ \A j \in Ingress : ingresses'[j] = ingresses[j] \/ ingresses'[j] = Gone
      /\ BuildState' = BuildState
  <2>1. CASE ingresses' = [ingresses EXCEPT ![i] = Gone] /\ ingresses[i].phase = "deleting"
    <3>1. Gone.phase \notin {"new", "held"}
      BY DEF Gone
    <3>2. BuildState' = BuildState
      BY <1>2, <2>1, <3>1, BuildStateFollows
    <3> QED BY <1>2, <2>1, <3>2 DEF IngressesInv
  <2>2. CASE ingresses' = ingresses
    BY <2>2 DEF BuildState
  <2> QED BY <1>3, <2>1, <2>2
<1>7. IngressesInv'
  <2>1. Gone \in [phase : IngressPhase, spec : SUBSET Path]
    BY DEF Gone, IngressPhase
  <2> QED BY <1>3, <2>1 DEF IngressesInv
<1>8. IngressReconcileTypeOK'
  <2>1. \A j \in Ingress : ingresses'[j].phase \in IngressPhase /\ ingresses'[j].spec \in Specs[j] \cup {{}}
    BY <1>6 DEF IngressReconcileTypeOK, Gone, IngressPhase
  <2>2. pending' \subseteq Ingress
    BY <1>2, <1>3 DEF IngressReconcileTypeOK
  <2> QED BY <1>1, <1>4, <2>1, <2>2, LeaveStep DEF IngressReconcileTypeOK, Loops
<1>9. \A v \in Worker \ {w} : pc[v] # "take" => item[v] \in Ingress \ {i}
  BY <1>2, ReconcileAssumption DEF IngressReconcileTypeOK
<1>10. HoldingInv'
  <2>1. ASSUME NEW v \in Worker \ {w}
        PROVE  /\ pc'[v] = "take" => ~deletes'[v]
               /\ pc'[v] # "take" => ingresses'[item'[v]].phase \in {"held", "deleting"}
               /\ deletes'[v] => ingresses'[item'[v]].phase = "deleting"
    BY <1>3, <1>5, <1>6, <1>9 DEF HoldingInv
  <2>2. \A j \in dropped' : j \notin pending' /\ ingresses'[j].phase # "gone"
    BY <1>2, <1>3, <1>4, <1>6 DEF HoldingInv, IngressReconcileTypeOK
  <2>3. \A j \in dropped' : \A v \in Worker : item'[v] # j
    BY <1>4, <1>5, ReconcileAssumption DEF HoldingInv, IngressReconcileTypeOK
  <2> QED BY <1>5, <2>1, <2>2, <2>3 DEF HoldingInv
<1>11. StaleInv'
  BY <1>3, <1>5, <1>6 DEF StaleInv, LastSync
<1>12. LeftoverInv'
  <2>1. Due => Due'
    <3>1. \A v \in Worker, j \in Ingress : deletes'[v] /\ item'[v] = j => deletes[v] /\ item[v] = j
      BY <1>5
    <3>2. ASSUME NEW j \in pending, ingresses[j].phase # "gone",
                 \A v \in Worker : ~(deletes[v] /\ item[v] = j)
          PROVE  j \in pending' /\ ingresses'[j].phase # "gone"
      BY <1>2, <1>3, <1>6, <3>2 DEF IngressReconcileTypeOK
    <3> QED BY <1>1, <1>4, <3>1, <3>2 DEF Due, IngressReconcileTypeOK
  <2>2. ASSUME NEW l, NEW v \in Worker, Unlists(v, l) PROVE Unlists(v, l)'
    BY <1>1, <1>5, <2>2 DEF Unlists, Nothing
  <2>3. ASSUME NEW b, NEW v \in Worker, Unstages(v, b) PROVE Unstages(v, b)'
    BY <1>1, <1>5, <2>3 DEF Unstages, Nothing
  <2> QED BY <1>1, <1>6, <2>1, <2>2, <2>3 DEF LeftoverInv
<1> QED BY <1>7, <1>8, <1>10, <1>11, <1>12

\* A sync that fails puts its key back or gives it up: what it leaves undone is
\* due in either case.
LEMMA ErrorStep ==
  ASSUME SyncInv, NEW w \in Worker, Error(w)
  PROVE  SyncInv'
<1> USE DEF SyncInv
<1> DEFINE i == item[w]
<1>1. /\ pc[w] # "take" /\ Leave(w) /\ UNCHANGED <<document, ingresses, vanished, missed, astray, changes>>
      /\ \/ faults' = faults
         \/ Failing
      /\ \/ pending' = pending \cup {i} /\ dropped' = dropped
         \/ dropped' = dropped \cup ({i} \ pending) /\ pending' = pending
  BY DEF Error, Refused, Broken, Fetch, clientVars
<1>2. i \in Ingress /\ i \notin dropped /\ ingresses[i].phase \in {"held", "deleting"}
  BY <1>1 DEF IngressReconcileTypeOK, HoldingInv
<1>3. /\ pc'[w] = "take" /\ ~deletes'[w] /\ item'[w] = NoIngress
      /\ \A v \in Worker \ {w} : /\ pc'[v] = pc[v] /\ item'[v] = item[v] /\ deletes'[v] = deletes[v]
                                 /\ built'[v] = built[v] /\ todo'[v] = todo[v]
  BY <1>1, LeaveStep
<1>4. IngressesInv' /\ BuildState' = BuildState
  BY <1>1 DEF IngressesInv, BuildState
<1>5. IngressReconcileTypeOK'
  <2>1. faults' \in 0..MaxFaults
    BY <1>1, ReconcileAssumption DEF IngressReconcileTypeOK, Failing
  <2>2. pending' \subseteq Ingress /\ dropped' \subseteq Ingress
    BY <1>1, <1>2 DEF IngressReconcileTypeOK
  <2> QED BY <1>1, <2>1, <2>2, LeaveStep DEF IngressReconcileTypeOK, Loops
<1>6. HoldingInv'
  <2>1. \A v \in Worker \ {w} : pc[v] # "take" => item[v] \in Ingress \ {i}
    BY <1>2, ReconcileAssumption DEF IngressReconcileTypeOK
  <2>2. ASSUME NEW v \in Worker \ {w}
        PROVE  /\ pc'[v] = "take" => ~deletes'[v]
               /\ pc'[v] # "take" => ingresses'[item'[v]].phase \in {"held", "deleting"}
               /\ deletes'[v] => ingresses'[item'[v]].phase = "deleting"
    BY <1>1, <1>3, <2>1 DEF HoldingInv
  <2>3. \A j \in dropped' : j \notin pending' /\ ingresses'[j].phase # "gone"
    BY <1>1, <1>2 DEF HoldingInv
  <2>4. \A j \in dropped' : \A v \in Worker : item'[v] # j
    <3>1. \A v \in Worker : item'[v] # i
      BY <1>2, <1>3, <2>1, ReconcileAssumption DEF IngressReconcileTypeOK
    <3> QED BY <1>1, <1>3, <3>1, ReconcileAssumption DEF HoldingInv, IngressReconcileTypeOK
  <2> QED BY <1>3, <2>2, <2>3, <2>4 DEF HoldingInv
<1>7. StaleInv'
  BY <1>1, <1>3, <1>4 DEF StaleInv, LastSync
<1>8. LeftoverInv'
  <2>1. \A v \in Worker : item'[v] # i
    BY <1>2, <1>3, ReconcileAssumption DEF IngressReconcileTypeOK
  <2>2. Due'
    BY <1>1, <1>2, <2>1 DEF Due
  <2> QED BY <2>2 DEF LeftoverInv
<1> QED BY <1>4, <1>5, <1>6, <1>7, <1>8

\* The informer's list after a restart has every Ingress that was in a sync, was
\* queued or was given up.
LEMMA RestartStep ==
  ASSUME SyncInv, Restart
  PROVE  SyncInv'
<1> USE DEF SyncInv
<1>1. /\ Failing
      /\ pending' = Listed /\ dropped' = {} /\ missed' = {}
      /\ pc' = [w \in Worker |-> "take"] /\ item' = [w \in Worker |-> NoIngress]
      /\ deletes' = [w \in Worker |-> FALSE] /\ built' = [w \in Worker |-> NothingBuilt]
      /\ todo' = [w \in Worker |-> Nothing]
      /\ UNCHANGED <<document, ingresses, vanished, astray, changes>>
  BY DEF Restart, RestartIngress
<1>2. IngressesInv' /\ BuildState' = BuildState
  BY <1>1 DEF IngressesInv, BuildState
<1>3. IngressReconcileTypeOK'
  <2>1. faults' \in 0..MaxFaults
    BY <1>1, ReconcileAssumption DEF IngressReconcileTypeOK, Failing
  <2>2. Listed \subseteq Ingress
    BY DEF Listed
  <2>3. NothingBuilt \in [Ingress -> SUBSET Path]
    BY DEF NothingBuilt
  <2>4. Nothing \in Loops
    BY DEF Nothing, Loops
  <2> QED BY <1>1, <2>1, <2>2, <2>3, <2>4 DEF IngressReconcileTypeOK, Loops
<1>4. HoldingInv' /\ StaleInv'
  BY <1>1 DEF HoldingInv, StaleInv
<1>5. LeftoverInv'
  <2>1. \A i \in Ingress : ingresses[i].phase # "gone" => Due'
    BY <1>1 DEF Due, Listed, Gone
  <2>2. Due => Due'
    BY <1>1, <2>1 DEF Due, HoldingInv, IngressReconcileTypeOK
  <2>3. ASSUME NEW w \in Worker, pc[w] # "take" PROVE Due'
    BY <2>1, <2>3 DEF HoldingInv, IngressReconcileTypeOK
  <2> QED BY <1>1, <1>2, <2>2, <2>3 DEF LeftoverInv, Unlists, Unstages
<1> QED BY <1>2, <1>3, <1>4, <1>5

\* A sync that fails may leave a request behind, of the kinds it makes.
LEMMA ErrorChanges ==
  ASSUME ClientInv, SyncInv, NEW w \in Worker, Error(w)
  PROVE  ClientInv' /\ PoliciesUntouched
<1>1. CASE Refused(w)
  BY <1>1, ClientRenewed DEF Refused, Fetch, clientVars, ClientInv, CachedLoadBalancerTypeOK
<1>2. CASE Broken(w)
  <2>1. \/ UNCHANGED clientVars
        \/ \E call \in InHand(w) : late' = late \cup {call} /\ UNCHANGED <<document, cache, slow, waiting>>
    BY <1>2 DEF Broken, Abandoned, clientVars
  <2>2. CASE UNCHANGED clientVars
    BY <2>2, ClientKept
  <2>3. ASSUME NEW call \in InHand(w), late' = late \cup {call}, UNCHANGED <<document, cache, slow, waiting>>
        PROVE  ClientInv' /\ PoliciesUntouched
    <3>1. call \in Call /\ call.kind \in EnsureKinds
      BY InHandTyped DEF SyncInv
    <3>2. ClientInv'
      BY <2>3, <3>1 DEF ClientInv, CachedLoadBalancerTypeOK
    <3>3. PoliciesUntouched
      BY <2>3, <3>1 DEF PoliciesUntouched, PolicyKept, EnsureKinds
    <3> QED BY <3>2, <3>3
  <2> QED BY <2>1, <2>2, <2>3
<1> QED BY <1>1, <1>2 DEF Error

\* Whatever a worker does, no listener comes to use a policy by it, and no
\* policy goes.
LEMMA SyncSteps ==
  ASSUME ClientInv, SyncInv, NEW w \in Worker, SyncStep(w)
  PROVE  SyncInv' /\ ClientInv' /\ PoliciesUntouched
<1>1. ASSUME NEW i \in Ingress, Take(w, i)
      PROVE  SyncInv' /\ ClientInv' /\ PoliciesUntouched
  <2>1. SyncInv'
    BY <1>1, TakeGoneStep, TakeStep
  <2> QED BY <1>1, <2>1, ClientKept DEF Take
<1>2. Build(w) => SyncInv' /\ ClientInv' /\ PoliciesUntouched
  BY BuildStep, ClientKept DEF Build
<1>3. Read(w) => SyncInv' /\ ClientInv' /\ PoliciesUntouched
  BY ReadStep, ClientKept DEF Read
<1>4. Refresh(w) => SyncInv' /\ ClientInv' /\ PoliciesUntouched
  BY RefreshStep, ClientRenewed DEF Refresh, Fetch, ClientInv, CachedLoadBalancerTypeOK
<1>5. Finish(w) => SyncInv' /\ ClientInv' /\ PoliciesUntouched
  BY FinishStep, ClientKept DEF Finish
<1>6. Error(w) => SyncInv' /\ ClientInv' /\ PoliciesUntouched
  BY ErrorStep, ErrorChanges
<1>7. CASE \/ \E b \in BackendSet : CreateBackendSet(w, b) \/ CreateTakenAsDone(w, b) \/ DeleteBackendSet(w, b)
           \/ \E l \in Listener : CreateListener(w, l) \/ DeleteListener(w, l)
  <2>1. SyncInv'
    BY <1>7, LoopSteps
  <2>2. ClientInv' /\ PoliciesUntouched
    BY <1>7, TurnDoes
  <2> QED BY <2>1, <2>2
<1>8. ASSUME NEW l \in Listener, RefreshListener(w, l)
      PROVE  SyncInv' /\ ClientInv' /\ PoliciesUntouched
  BY <1>8, RefreshListenerStep, ClientRenewed DEF RefreshListener, Fetch, ClientInv, CachedLoadBalancerTypeOK
<1> QED BY <1>1, <1>2, <1>3, <1>4, <1>5, <1>6, <1>7, <1>8 DEF SyncStep

-----------------------------------------------------------------------------
(* What the Ingresses ask for is there, or is coming.                        *)

\* A worker that stays where it is, in a sync of the same Ingress, stays as fresh
\* while the Ingress asks for the same.
LEMMA FreshKept ==
  ASSUME NEW w \in Worker, NEW i \in Ingress, Fresh(w, i), BuildState'[i] = BuildState[i],
         pc'[w] = pc[w], item'[w] = item[w], built'[w] = built[w], todo'[w] = todo[w],
         i \in pending /\ item[w] = i => i \in pending'
  PROVE  Fresh(w, i)'
BY DEF Fresh, Followed, IngressListeners, IngressBackendSets

\* An Ingress is served as before when nothing it asks for goes, and who was to
\* create something of it still is, or has done it, or a sync of it is due.
LEMMA ServedKept ==
  ASSUME NEW i \in Ingress, Served(i), BuildState'[i] = BuildState[i], Coming(i) => Coming(i)',
         \A l \in IngressListeners(BuildState, i) :
           /\ l \in ListenersIn(document) => l \in ListenersIn(document')
           /\ \A w \in Worker : item[w] = i /\ Lists(w, l) =>
                Coming(i)' \/ (item'[w] = i /\ Lists(w, l)') \/ l \in ListenersIn(document'),
         \A b \in IngressBackendSets(BuildState, i) :
           /\ b \in BackendSetsIn(document) => b \in BackendSetsIn(document')
           /\ \A w \in Worker : item[w] = i /\ Stages(w, b) =>
                Coming(i)' \/ (item'[w] = i /\ Stages(w, b)') \/ b \in BackendSetsIn(document')
  PROVE  Served(i)'
<1>1. /\ IngressListeners(BuildState', i) = IngressListeners(BuildState, i)
      /\ IngressBackendSets(BuildState', i) = IngressBackendSets(BuildState, i)
  BY DEF IngressListeners, IngressBackendSets
<1> QED BY <1>1 DEF Served

\* Steps that leave the workers and the document alone, and take no key away.
LEMMA ServeKept ==
  ASSUME ServeInv, UNCHANGED <<ingresses, missed, pc, item, built, todo>>,
         pending \subseteq pending', pending \cup dropped \subseteq pending' \cup dropped',
         ListenersIn(document') = ListenersIn(document),
         BackendSetsIn(document') = BackendSetsIn(document)
  PROVE  ServeInv'
<1>1. BuildState' = BuildState
  BY DEF BuildState
<1>2. FreshInv'
  BY <1>1, FreshKept DEF ServeInv, FreshInv
<1>3. ServedInv'
  BY <1>1, ServedKept DEF ServeInv, ServedInv, Coming, Lists, Stages
<1> QED BY <1>2, <1>3 DEF ServeInv

\* An Ingress that is being deleted asks for nothing.
LEMMA DeletesNothing ==
  ASSUME SyncInv, NEW w \in Worker, deletes[w]
  PROVE  /\ IngressListeners(BuildState, item[w]) = {}
         /\ IngressBackendSets(BuildState, item[w]) = {}
<1>1. pc[w] # "take" /\ ingresses[item[w]].phase = "deleting"
  BY DEF SyncInv, HoldingInv
<1>2. item[w] \in Ingress
  BY <1>1 DEF SyncInv, IngressReconcileTypeOK
<1>3. BuildState[item[w]] = {}
  BY <1>1, <1>2 DEF BuildState
<1> QED BY <1>3 DEF IngressListeners, IngressBackendSets

\* A change of an Ingress makes a sync of it due. No other sync is past its build,
\* or the Ingress may be missed.
LEMMA SetIngressServes ==
  ASSUME SyncInv, ServeInv, NEW i \in Ingress, NEW phase, NEW spec, SetIngress(i, phase, spec)
  PROVE  ServeInv'
<1>1. /\ ingresses' = [ingresses EXCEPT ![i] = [phase |-> phase, spec |-> spec]]
      /\ pending' = pending \cup {i} /\ dropped' = dropped \ {i}
      /\ missed' = IF Overtaken(i) THEN missed \cup {i} ELSE missed \ {i}
      /\ UNCHANGED <<document, pc, item, deletes, built, todo>>
  BY DEF SetIngress, Enqueue, syncVars, clientVars
<1>2. \A j \in Ingress \ {i} : BuildState'[j] = BuildState[j]
  BY <1>1, BuildStateFollows DEF SyncInv
<1>3. FreshInv'
  <2>1. ASSUME NEW w \in Worker, i \notin missed'
        PROVE  Fresh(w, i)'
    <3>1. pc[w] \in {"take", "build"} \/ item[w] = i
      BY <1>1, <2>1 DEF Overtaken
    <3> QED BY <1>1, <3>1 DEF Fresh, Followed
  <2>2. ASSUME NEW j \in Ingress \ missed', j # i, NEW w \in Worker
        PROVE  Fresh(w, j)'
    BY <1>1, <1>2, <2>2, FreshKept DEF ServeInv, FreshInv
  <2> QED BY <2>1, <2>2 DEF FreshInv
<1>4. ServedInv'
  <2>1. Served(i)'
    BY <1>1 DEF Served, Coming
  <2>2. ASSUME NEW j \in Ingress \ missed', j # i
        PROVE  Served(j)'
    BY <1>1, <1>2, <2>2, ServedKept DEF ServeInv, ServedInv, Coming, Lists, Stages
  <2> QED BY <2>1, <2>2 DEF ServedInv
<1> QED BY <1>3, <1>4 DEF ServeInv

\* The Ingress whose key is taken is in the hands of a worker that has not read
\* yet, or is gone and asks for nothing.
LEMMA TakeServes ==
  ASSUME SyncInv, ServeInv, NEW w \in Worker, NEW i \in Ingress, Take(w, i)
  PROVE  ServeInv'
<1>1. /\ pc[w] = "take" /\ \A v \in Worker : item[v] # i
      /\ pending \ {i} \subseteq pending' /\ pending' \subseteq pending
      /\ UNCHANGED <<document, dropped, missed, built, todo>>
      /\ \A v \in Worker \ {w} : pc'[v] = pc[v] /\ item'[v] = item[v]
  BY DEF Take, Goto, syncVars, clientVars, SyncInv, IngressReconcileTypeOK
<1>2. \/ ingresses[i].phase = "gone" /\ UNCHANGED <<pc, item>>
      \/ pc'[w] = "build" /\ item'[w] = i
  BY DEF Take, Goto, syncVars, SyncInv, IngressReconcileTypeOK
<1>3. BuildState' = BuildState
  <2>1. \/ ingresses' = ingresses
        \/ ingresses[i].phase = "new" /\ ingresses' = [ingresses EXCEPT ![i].phase = "held"]
    BY DEF Take
  <2> QED BY <2>1 DEF BuildState, SyncInv, IngressesInv
<1>4. item[w] = NoIngress
  BY <1>1 DEF SyncInv, IngressReconcileTypeOK
<1>5. FreshInv'
  <2>1. ASSUME NEW j \in Ingress \ missed', NEW v \in Worker
        PROVE  Fresh(v, j)'
    <3>1. Fresh(v, j)
      BY <1>1, <2>1 DEF ServeInv, FreshInv
    <3>2. CASE pc'[v] = pc[v] /\ item'[v] = item[v]
      BY <1>1, <1>3, <3>1, <3>2, FreshKept
    <3>3. CASE pc'[v] = "build"
      BY <3>3 DEF Fresh
    <3> QED BY <1>1, <1>2, <3>2, <3>3
  <2> QED BY <2>1 DEF FreshInv
<1>6. ServedInv'
  <2>1. ASSUME NEW j \in Ingress \ missed', j # i
        PROVE  Served(j)'
    <3>1. \A v \in Worker : item[v] = j => pc'[v] = pc[v] /\ item'[v] = j
      BY <1>1, <1>4, ReconcileAssumption
    <3>2. Coming(j) => Coming(j)'
      BY <1>1, <2>1 DEF Coming
    <3> QED BY <1>1, <1>3, <2>1, <3>1, <3>2, ServedKept DEF ServeInv, ServedInv, Lists, Stages
  <2>2. Served(i)'
    <3>1. CASE ingresses[i].phase = "gone"
      BY <1>3, <3>1 DEF BuildState, Served, IngressListeners, IngressBackendSets
    <3>2. CASE pc'[w] = "build" /\ item'[w] = i
      BY <3>2 DEF Served, Lists, Stages
    <3> QED BY <1>2, <3>1, <3>2
  <2> QED BY <2>1, <2>2 DEF ServedInv
<1> QED BY <1>5, <1>6 DEF ServeInv

\* A worker that has just built is fresh, and has everything before it.
LEMMA BuildServes ==
  ASSUME SyncInv, ServeInv, NEW w \in Worker, Build(w)
  PROVE  ServeInv'
<1>1. /\ pc[w] = "build" /\ pc' = [pc EXCEPT ![w] = "read"]
      /\ built' = [built EXCEPT ![w] = BuildState]
      /\ UNCHANGED <<document, ingresses, pending, dropped, missed, item, todo>>
  BY DEF Build, Goto, clientVars
<1>2. /\ pc'[w] = "read" /\ built'[w] = BuildState
      /\ \A v \in Worker \ {w} : pc'[v] = pc[v] /\ built'[v] = built[v]
  BY <1>1 DEF SyncInv, IngressReconcileTypeOK
<1>3. BuildState' = BuildState
  BY <1>1 DEF BuildState
<1>4. FreshInv'
  <2>1. ASSUME NEW j \in Ingress \ missed', NEW v \in Worker
        PROVE  Fresh(v, j)'
    <3>1. CASE v = w
      BY <1>2, <1>3, <3>1 DEF Fresh
    <3>2. CASE v # w
      BY <1>1, <1>2, <1>3, <2>1, <3>2, FreshKept DEF ServeInv, FreshInv
    <3> QED BY <3>1, <3>2
  <2> QED BY <2>1 DEF FreshInv
<1>5. ServedInv'
  BY <1>1, <1>2, <1>3, ServedKept DEF ServeInv, ServedInv, Coming, Lists, Stages
<1> QED BY <1>4, <1>5 DEF ServeInv

\* What a fresh state asks for and the cached document does not show goes into the
\* loops, or the Ingress counts as missed; what it asks for does not go into the
\* other ones.
LEMMA ReadServes ==
  ASSUME SyncInv, ServeInv, NEW w \in Worker, Read(w)
  PROVE  ServeInv'
<1> DEFINE sets     == IF deletes[w] THEN {} ELSE IngressBackendSets(built[w], item[w])
           ports    == IF deletes[w] THEN {} ELSE IngressListeners(built[w], item[w])
           staged   == sets \ BackendSetsIn(cache)
           listen   == IF staged = {} THEN ports \ ListenersIn(cache) ELSE {}
           unlisten == IF staged = {} THEN ListenersIn(cache) \ AllListeners(built[w]) ELSE {}
           unstage  == BackendSetsIn(cache) \ AllBackendSets(built[w])
           shown    == /\ sets \cap BackendSetsIn(cache) \subseteq BackendSetsIn(document)
                       /\ staged = {} => ports \cap ListenersIn(cache) \subseteq ListenersIn(document)
           new == [stage |-> staged, listen |-> listen, create |-> {},
                   unlisten |-> unlisten, unstage |-> unstage]
<1>1. /\ pc[w] = "read" /\ todo' = [todo EXCEPT ![w] = new]
      /\ \/ staged = {} /\ pc' = [pc EXCEPT ![w] = "change"] /\ built' = [built EXCEPT ![w] = NothingBuilt]
         \/ staged # {} /\ pc' = [pc EXCEPT ![w] = "stage"] /\ built' = built
      /\ missed' = IF shown THEN missed ELSE missed \cup {item[w]}
      /\ UNCHANGED <<document, ingresses, pending, dropped, item>>
  BY DEF Read, Goto, clientVars
<1>2. /\ new.stage = staged /\ new.listen = listen
      /\ new.unlisten \cap AllListeners(built[w]) = {}
      /\ new.unstage \cap AllBackendSets(built[w]) = {}
  OBVIOUS
<1>3. /\ shown => \A b \in sets : b \in staged \cup BackendSetsIn(document)
      /\ shown /\ staged = {} => \A l \in ports : l \in listen \cup ListenersIn(document)
  OBVIOUS
<1> HIDE DEF new, staged, listen, shown
<1>4. /\ todo'[w] = new
      /\ \A v \in Worker \ {w} : pc'[v] = pc[v] /\ built'[v] = built[v] /\ todo'[v] = todo[v]
      /\ \/ pc'[w] = "change" /\ staged = {}
         \/ pc'[w] = "stage" /\ built'[w] = built[w]
  BY <1>1 DEF SyncInv, IngressReconcileTypeOK
<1>5. BuildState' = BuildState
  BY <1>1 DEF BuildState
<1>6. built[w] \in [Ingress -> SUBSET Path] /\ missed \subseteq missed'
  BY <1>1 DEF SyncInv, IngressReconcileTypeOK
<1>7. ASSUME NEW j \in Ingress \ missed
      PROVE  \/ Followed(w, j)
             \/ /\ built[w][j] = BuildState[j]
                /\ IngressListeners(BuildState, j) \subseteq AllListeners(built[w])
                /\ IngressBackendSets(BuildState, j) \subseteq AllBackendSets(built[w])
  <2>1. Followed(w, j) \/ built[w][j] = BuildState[j]
    BY <1>1, <1>7 DEF ServeInv, FreshInv, Fresh
  <2> QED BY <1>6, <2>1, StateTyped DEF IngressListeners, IngressBackendSets
<1>8. FreshInv'
  <2>1. ASSUME NEW j \in Ingress \ missed', NEW v \in Worker
        PROVE  Fresh(v, j)'
    <3>1. CASE v = w
      BY <1>1, <1>2, <1>4, <1>5, <1>6, <1>7, <2>1, <3>1 DEF Fresh, Followed
    <3>2. CASE v # w
      BY <1>1, <1>4, <1>5, <1>6, <2>1, <3>2, FreshKept DEF ServeInv, FreshInv
    <3> QED BY <3>1, <3>2
  <2> QED BY <2>1 DEF FreshInv
<1>9. ASSUME NEW j \in Ingress \ missed', item[w] = j, j \notin pending
      PROVE  /\ \A l \in IngressListeners(BuildState, j) : Lists(w, l)' \/ l \in ListenersIn(document)
             /\ \A b \in IngressBackendSets(BuildState, j) : Stages(w, b)' \/ b \in BackendSetsIn(document)
  <2>1. CASE deletes[w]
    BY <1>9, <2>1, DeletesNothing
  <2>2. CASE ~deletes[w]
    <3>1. /\ sets = IngressBackendSets(BuildState, j) /\ ports = IngressListeners(BuildState, j)
          /\ shown
      BY <1>1, <1>6, <1>7, <1>9, <2>2 DEF Followed, IngressListeners, IngressBackendSets
    <3> HIDE DEF sets, ports
    <3>2. \A b \in IngressBackendSets(BuildState, j) : b \in staged \cup BackendSetsIn(document)
      BY <1>3, <3>1
    <3>3. staged = {} => \A l \in IngressListeners(BuildState, j) : l \in listen \cup ListenersIn(document)
      BY <1>3, <3>1
    <3> QED BY <1>2, <1>4, <3>2, <3>3 DEF Lists, Stages
  <2> QED BY <2>1, <2>2
<1>10. ServedInv'
  <2>1. ASSUME NEW j \in Ingress \ missed'
        PROVE  Served(j)'
    <3>1. Served(j) /\ (Coming(j)' <=> Coming(j))
      BY <1>1, <1>6, <2>1 DEF ServeInv, ServedInv, Coming
    <3>2. ASSUME NEW v \in Worker, item[v] = j, ~Coming(j)
          PROVE  /\ item'[v] = j
                 /\ \A l \in IngressListeners(BuildState, j) :
                      Lists(v, l) => Lists(v, l)' \/ l \in ListenersIn(document)
                 /\ \A b \in IngressBackendSets(BuildState, j) :
                      Stages(v, b) => Stages(v, b)' \/ b \in BackendSetsIn(document)
      <4>1. CASE v = w
        BY <1>1, <1>9, <2>1, <3>2, <4>1 DEF Coming
      <4>2. CASE v # w
        BY <1>1, <1>4, <3>2, <4>2 DEF Lists, Stages
      <4> QED BY <4>1, <4>2
    <3> QED BY <1>1, <1>5, <3>1, <3>2, ServedKept
  <2> QED BY <2>1 DEF ServedInv
<1> QED BY <1>8, <1>10 DEF ServeInv

\* The second read has all its backend sets, and takes up the missing listeners.
LEMMA RefreshServes ==
  ASSUME SyncInv, ServeInv, NEW w \in Worker, Refresh(w)
  PROVE  ServeInv'
<1> DEFINE listen == IngressListeners(built[w], item[w]) \ ListenersIn(document)
           unlisten == ListenersIn(document) \ AllListeners(built[w])
           new == [todo[w] EXCEPT !.listen = listen, !.unlisten = unlisten]
<1>1. /\ pc[w] = "stage" /\ todo[w].stage = {}
      /\ todo' = [todo EXCEPT ![w] = new]
      /\ pc' = [pc EXCEPT ![w] = "change"] /\ built' = [built EXCEPT ![w] = NothingBuilt]
      /\ UNCHANGED <<document, ingresses, pending, dropped, missed, item>>
  BY DEF Refresh, Goto, Fetch
<1> HIDE DEF listen, unlisten
<1>2. /\ new.listen = listen /\ new.unlisten = unlisten
      /\ new.stage = todo[w].stage /\ new.unstage = todo[w].unstage
  BY DEF SyncInv, IngressReconcileTypeOK
<1> HIDE DEF new
<1>3. /\ todo'[w].listen = listen /\ todo'[w].unlisten = unlisten
      /\ todo'[w].stage = todo[w].stage /\ todo'[w].unstage = todo[w].unstage
      /\ pc'[w] = "change"
      /\ \A v \in Worker \ {w} : pc'[v] = pc[v] /\ built'[v] = built[v] /\ todo'[v] = todo[v]
  BY <1>1, <1>2 DEF SyncInv, IngressReconcileTypeOK
<1>4. BuildState' = BuildState
  BY <1>1 DEF BuildState
<1>5. built[w] \in [Ingress -> SUBSET Path]
  BY DEF SyncInv, IngressReconcileTypeOK
<1>6. ASSUME NEW j \in Ingress \ missed
      PROVE  \/ Followed(w, j)
             \/ /\ built[w][j] = BuildState[j]
                /\ IngressListeners(BuildState, j) \subseteq AllListeners(built[w])
                /\ todo[w].unstage \cap IngressBackendSets(BuildState, j) = {}
  <2>1. \/ Followed(w, j)
        \/ /\ built[w][j] = BuildState[j]
           /\ todo[w].unstage \cap IngressBackendSets(BuildState, j) = {}
    BY <1>1, <1>6 DEF ServeInv, FreshInv, Fresh
  <2> QED BY <1>5, <2>1, StateTyped DEF IngressListeners
<1>7. FreshInv'
  <2>1. ASSUME NEW j \in Ingress \ missed', NEW v \in Worker
        PROVE  Fresh(v, j)'
    <3>1. CASE v = w
      BY <1>1, <1>3, <1>4, <1>6, <2>1, <3>1 DEF Fresh, Followed, unlisten
    <3>2. CASE v # w
      BY <1>1, <1>3, <1>4, <2>1, <3>2, FreshKept DEF ServeInv, FreshInv
    <3> QED BY <3>1, <3>2
  <2> QED BY <2>1 DEF FreshInv
<1>8. ASSUME NEW j \in Ingress \ missed, item[w] = j, j \notin pending
      PROVE  \A l \in IngressListeners(BuildState, j) : Lists(w, l)' \/ l \in ListenersIn(document)
  <2>1. listen = IngressListeners(BuildState, j) \ ListenersIn(document)
    BY <1>6, <1>8 DEF Followed, IngressListeners, listen
  <2> QED BY <1>3, <2>1 DEF Lists
<1>9. ServedInv'
  <2>1. ASSUME NEW j \in Ingress \ missed
        PROVE  Served(j)'
    <3>1. Served(j) /\ (Coming(j)' <=> Coming(j))
      BY <1>1, <2>1 DEF ServeInv, ServedInv, Coming
    <3>2. ASSUME NEW v \in Worker, item[v] = j, ~Coming(j)
          PROVE  /\ item'[v] = j
                 /\ \A l \in IngressListeners(BuildState, j) :
                      Lists(v, l) => Lists(v, l)' \/ l \in ListenersIn(document)
                 /\ \A b \in IngressBackendSets(BuildState, j) : Stages(v, b) => Stages(v, b)'
      <4>1. CASE v = w
        BY <1>1, <1>8, <2>1, <3>2, <4>1 DEF Coming, Stages
      <4>2. CASE v # w
        BY <1>1, <1>3, <3>2, <4>2 DEF Lists, Stages
      <4> QED BY <4>1, <4>2
    <3> QED BY <1>1, <1>4, <3>1, <3>2, ServedKept
  <2> QED BY <1>1, <2>1 DEF ServedInv
<1> QED BY <1>7, <1>9 DEF ServeInv

\* A listener that is found is there; one that is not will be created now.
LEMMA RefreshListenerServes ==
  ASSUME SyncInv, ServeInv, NEW w \in Worker, NEW l \in Listener, RefreshListener(w, l)
  PROVE  ServeInv'
<1>1. pc[w] = "change" /\ UNCHANGED <<document, ingresses, pending, dropped, missed, pc, item, built>>
  BY DEF RefreshListener, Fetch
<1>2. /\ \A v \in Worker \ {w} : todo'[v] = todo[v]
      /\ todo'[w].listen = todo[w].listen \ {l} /\ todo[w].create = {}
      /\ todo'[w].create = {l} \ ListenersIn(document)
      /\ todo'[w].stage = todo[w].stage
      /\ todo'[w].unlisten = todo[w].unlisten /\ todo'[w].unstage = todo[w].unstage
  BY RefreshListenerTakes DEF SyncInv
<1>3. BuildState' = BuildState
  BY <1>1 DEF BuildState
<1>4. FreshInv'
  BY <1>1, <1>2, <1>3 DEF ServeInv, FreshInv, Fresh, Followed, IngressListeners, IngressBackendSets
<1>5. \A v \in Worker, k \in Listener : Lists(v, k) => Lists(v, k)' \/ k \in ListenersIn(document)
  BY <1>1, <1>2 DEF Lists
<1>6. \A v \in Worker, b \in BackendSet : Stages(v, b) => Stages(v, b)'
  BY <1>1, <1>2 DEF Stages
<1>7. \A i \in Ingress : IngressListeners(BuildState, i) \subseteq Listener
                         /\ IngressBackendSets(BuildState, i) \subseteq BackendSet
  BY StateTyped, BuildStateTyped DEF SyncInv
<1>8. ServedInv'
  BY <1>1, <1>3, <1>5, <1>6, <1>7, ServedKept DEF ServeInv, ServedInv, Coming
<1> QED BY <1>4, <1>8 DEF ServeInv

\* A turn that creates has what it strikes off, or the Ingress counts as missed;
\* one that deletes strikes off only what nobody asks for who is not missed or due.
LEMMA TurnServes ==
  ASSUME SyncInv, ServeInv, NEW w \in Worker,
         NEW loop \in TurnLoops, NEW name, Turn(w, loop, name),
         missed \subseteq missed',
         loop # "stage" => pc[w] = "change",
         loop = "stage" => name \in BackendSetsIn(document') \/ item[w] \in missed',
         loop = "create" => name \in ListenersIn(document') \/ item[w] \in missed',
         \A l \in ListenersIn(document) : l \in ListenersIn(document') \/ (loop = "unlisten" /\ name = l),
         \A b \in BackendSetsIn(document) : b \in BackendSetsIn(document') \/ (loop = "unstage" /\ name = b)
  PROVE  ServeInv'
<1>1. /\ name \in todo[w][loop]
      /\ UNCHANGED <<ingresses, pending, dropped, pc, item, built>>
  BY DEF Turn
<1>2. /\ \A v \in Worker \ {w} : todo'[v] = todo[v]
      /\ todo'[w].stage = todo[w].stage \ (IF loop = "stage" THEN {name} ELSE {})
      /\ todo'[w].listen = todo[w].listen
      /\ todo'[w].create = todo[w].create \ (IF loop = "create" THEN {name} ELSE {})
      /\ todo'[w].unlisten = todo[w].unlisten \ (IF loop = "unlisten" THEN {name} ELSE {})
      /\ todo'[w].unstage = todo[w].unstage \ (IF loop = "unstage" THEN {name} ELSE {})
  BY TurnTakes DEF SyncInv
<1>3. BuildState' = BuildState
  BY <1>1 DEF BuildState
<1>4. FreshInv'
  <2>1. ASSUME NEW j \in Ingress \ missed', NEW v \in Worker
        PROVE  Fresh(v, j)'
    <3>1. Fresh(v, j)
      BY <2>1 DEF ServeInv, FreshInv
    <3>2. CASE v = w
      BY <1>1, <1>2, <1>3, <3>1, <3>2 DEF Fresh, Followed
    <3>3. CASE v # w
      BY <1>1, <1>2, <1>3, <3>1, <3>3, FreshKept
    <3> QED BY <3>2, <3>3
  <2> QED BY <2>1 DEF FreshInv
<1>5. ServedInv'
  <2>1. ASSUME NEW j \in Ingress \ missed'
        PROVE  Served(j)'
    <3>1. Served(j) /\ Fresh(w, j) /\ (Coming(j)' <=> Coming(j))
      BY <1>1, <2>1 DEF ServeInv, ServedInv, FreshInv, Coming
    <3>2. CASE Coming(j)
      BY <3>1, <3>2 DEF Served
    <3>3. CASE ~Coming(j)
      <4>1. /\ pc[w] = "change" => todo[w].unlisten \cap IngressListeners(BuildState, j) = {}
            /\ pc[w] = "change" => todo[w].unstage \cap IngressBackendSets(BuildState, j) = {}
        BY <3>1, <3>3 DEF Fresh, Followed, Coming
      <4>2. ASSUME NEW l \in IngressListeners(BuildState, j)
            PROVE  /\ l \in ListenersIn(document) => l \in ListenersIn(document')
                   /\ \A v \in Worker : item[v] = j /\ Lists(v, l) =>
                        (item'[v] = j /\ Lists(v, l)') \/ l \in ListenersIn(document')
        BY <1>1, <1>2, <2>1, <4>1 DEF Lists
      <4>3. ASSUME NEW b \in IngressBackendSets(BuildState, j)
            PROVE  /\ b \in BackendSetsIn(document) => b \in BackendSetsIn(document')
                   /\ \A v \in Worker : item[v] = j /\ Stages(v, b) =>
                        (item'[v] = j /\ Stages(v, b)') \/ b \in BackendSetsIn(document')
        BY <1>1, <1>2, <2>1, <4>1 DEF Stages
      <4> QED BY <1>3, <3>1, <4>2, <4>3, ServedKept
    <3> QED BY <3>2, <3>3
  <2> QED BY <2>1 DEF ServedInv
<1> QED BY <1>4, <1>5 DEF ServeInv

LEMMA LoopsServe ==
  ASSUME ClientInv, SyncInv, ServeInv, NEW w \in Worker,
         \/ \E b \in BackendSet : CreateBackendSet(w, b) \/ CreateTakenAsDone(w, b) \/ DeleteBackendSet(w, b)
         \/ \E l \in Listener : CreateListener(w, l) \/ DeleteListener(w, l)
  PROVE  ServeInv'
<1>1. missed \subseteq missed'
  BY TurnDoes
<1>2. PICK loop \in TurnLoops, name \in Listener \cup BackendSet :
        /\ Turn(w, loop, name)
        /\ pc[w] = IF loop = "stage" THEN "stage" ELSE "change"
        /\ loop = "stage" => name \in BackendSetsIn(document') \/ item[w] \in missed'
        /\ loop = "create" => name \in ListenersIn(document') \/ item[w] \in missed'
        /\ ListenersIn(document) \ ListenersIn(document') \subseteq (IF loop = "unlisten" THEN {name} ELSE {})
        /\ BackendSetsIn(document) \ BackendSetsIn(document') \subseteq (IF loop = "unstage" THEN {name} ELSE {})
  BY TurnDoes
<1>3. /\ loop # "stage" => pc[w] = "change"
      /\ \A l \in ListenersIn(document) : l \in ListenersIn(document') \/ (loop = "unlisten" /\ name = l)
      /\ \A b \in BackendSetsIn(document) : b \in BackendSetsIn(document') \/ (loop = "unstage" /\ name = b)
  BY <1>2
<1> QED BY <1>1, <1>2, <1>3, TurnServes

\* A sync that has gone to its end has created all it was to create; one that
\* fails leaves its key to be synced again, or to be given up.
LEMMA EndServes ==
  ASSUME SyncInv, ServeInv, NEW w \in Worker, Finish(w) \/ Error(w)
  PROVE  ServeInv'
<1> DEFINE i == item[w]
<1>1. /\ pc[w] # "take" /\ Leave(w) /\ UNCHANGED <<document, missed>>
  BY DEF Finish, Error, Refused, Broken, Fetch, clientVars
<1>2. i \in Ingress /\ i \notin dropped /\ (deletes[w] => ingresses[i].phase = "deleting")
  BY <1>1 DEF SyncInv, IngressReconcileTypeOK, HoldingInv
<1>3. /\ pc'[w] = "take"
      /\ \A v \in Worker \ {w} : /\ pc'[v] = pc[v] /\ item'[v] = item[v]
                                 /\ built'[v] = built[v] /\ todo'[v] = todo[v]
  BY <1>1, LeaveStep
<1>4. pending \subseteq pending' /\ dropped \subseteq pending' \cup dropped'
  BY <1>2 DEF Finish, Error, Enqueue
<1>5. BuildState' = BuildState
  <2>1. CASE deletes[w] /\ ingresses' = [ingresses EXCEPT ![i] = Gone]
    <3>1. Gone.phase \notin {"new", "held"} /\ ingresses[i].phase \notin {"new", "held"}
      BY <1>2, <2>1 DEF Gone
    <3> QED BY <1>2, <2>1, <3>1, BuildStateFollows DEF SyncInv
  <2>2. CASE ingresses' = ingresses
    BY <2>2 DEF BuildState
  <2> QED BY <2>1, <2>2 DEF Finish, Error
<1>6. ASSUME i \notin pending', i \notin dropped'
      PROVE  \A l : ~Lists(w, l) /\ ~Stages(w, l)
  <2>1. Finish(w)
    BY <1>2, <1>6 DEF Error
  <2> QED BY <2>1 DEF Finish, Lists, Stages, Nothing
<1>7. FreshInv'
  <2>1. ASSUME NEW j \in Ingress \ missed', NEW v \in Worker
        PROVE  Fresh(v, j)'
    <3>1. CASE v = w
      BY <1>3, <3>1 DEF Fresh
    <3>2. CASE v # w
      BY <1>1, <1>3, <1>4, <1>5, <2>1, <3>2, FreshKept DEF ServeInv, FreshInv
    <3> QED BY <3>1, <3>2
  <2> QED BY <2>1 DEF FreshInv
<1>8. ServedInv'
  <2>1. ASSUME NEW j \in Ingress \ missed
        PROVE  Served(j)'
    <3>1. Served(j) /\ (Coming(j) => Coming(j)')
      BY <1>4, <2>1 DEF ServeInv, ServedInv, Coming
    <3>2. ASSUME NEW v \in Worker, item[v] = j, ~Coming(j)'
          PROVE  /\ \A l : Lists(v, l) => item'[v] = j /\ Lists(v, l)'
                 /\ \A b : Stages(v, b) => item'[v] = j /\ Stages(v, b)'
      <4>1. CASE v = w
        BY <1>6, <3>2, <4>1 DEF Coming
      <4>2. CASE v # w
        BY <1>3, <3>2, <4>2 DEF Lists, Stages
      <4> QED BY <4>1, <4>2
    <3> QED BY <1>1, <1>5, <3>1, <3>2, ServedKept
  <2> QED BY <1>1, <2>1 DEF ServedInv
<1> QED BY <1>7, <1>8 DEF ServeInv

\* After a restart everything that asks for something is queued.
LEMMA RestartServes ==
  ASSUME SyncInv, Restart
  PROVE  ServeInv'
<1>1. /\ pending' = Listed /\ pc' = [w \in Worker |-> "take"]
      /\ UNCHANGED <<document, ingresses>>
  BY DEF Restart, RestartIngress
<1>2. FreshInv'
  BY <1>1 DEF FreshInv, Fresh
<1>3. ASSUME NEW i \in Ingress PROVE Served(i)'
  <2>1. BuildState' = BuildState
    BY <1>1 DEF BuildState
  <2>2. CASE ingresses[i] = Gone
    <3>1. BuildState[i] = {}
      BY <2>2 DEF BuildState, Gone
    <3> QED BY <2>1, <3>1 DEF Served, IngressListeners, IngressBackendSets
  <2>3. CASE ingresses[i] # Gone
    BY <1>1, <2>3 DEF Served, Coming, Listed
  <2> QED BY <2>2, <2>3
<1> QED BY <1>2, <1>3 DEF ServeInv, ServedInv

\* Whatever a worker does.
LEMMA SyncStepsServe ==
  ASSUME ClientInv, SyncInv, ServeInv, NEW w \in Worker, SyncStep(w)
  PROVE  ServeInv'
BY TakeServes, BuildServes, ReadServes, RefreshServes, RefreshListenerServes, LoopsServe, EndServes
   DEF SyncStep

-----------------------------------------------------------------------------
(* The routing policy controller.                                            *)

\* Steps that leave the syncs alone, and create and delete no listener and no
\* backend set, keep what the syncs rely on.
LEMMA SyncsKept ==
  ASSUME SyncInv, UNCHANGED <<ingresses, pending, dropped, vanished, missed, astray, syncVars, changes>>,
         faults' \in 0..MaxFaults,
         ListenersIn(document') = ListenersIn(document),
         BackendSetsIn(document') = BackendSetsIn(document)
  PROVE  SyncInv'
<1> USE DEF SyncInv, syncVars
<1>1. BuildState' = BuildState
  BY DEF BuildState
<1>2. Due' = Due
  BY DEF Due
<1>3. IngressesInv' /\ HoldingInv' /\ IngressReconcileTypeOK'
  BY DEF IngressesInv, HoldingInv, IngressReconcileTypeOK
<1>4. StaleInv'
  BY <1>1 DEF StaleInv, LastSync
<1>5. LeftoverInv'
  BY <1>1, <1>2 DEF LeftoverInv, Unlists, Unstages
<1> QED BY <1>3, <1>4, <1>5

\* Nor do the syncs get in its way: a listener that is created while it is at
\* work has no policy, and no policy goes but by its own requests.
LEMMA PoliciesKept ==
  ASSUME RoutingInv, UNCHANGED routingVars, PoliciesUntouched
  PROVE  RoutingInv'
<1> USE DEF RoutingInv, routingVars
<1>1. RoutingPolicyTypeOK'
  BY DEF RoutingPolicyTypeOK
<1>2. /\ PoliciesIn(document') = PoliciesIn(document) /\ doubted' = doubted
      /\ \A k \in ListenersIn(document') : PolicyKept(k)
  BY DEF PoliciesUntouched
<1>3. \A l : NoneAttaches(l) => NoneAttaches(l)'
  BY DEF PoliciesUntouched, NoneAttaches
<1>4. PolicyInv'
  BY <1>2, <1>3 DEF PolicyInv, PolicyKept
<1>5. LateInv'
  BY <1>2 DEF LateInv, PoliciesUntouched, NoneAttaches
<1>6. NoDanglingPolicy'
  BY <1>2 DEF NoDanglingPolicy, PolicyKept
<1> QED BY <1>1, <1>4, <1>5, <1>6

RoutingKinds == {"CreateRoutingPolicy", "SetRoutingPolicy", "UpdateRoutingPolicyRules",
                 "DetachRoutingPolicy", "DeleteRoutingPolicy"}

\* What a call of the routing policy controller can have done.
LEMMA MadeChanges ==
  ASSUME ClientInv, NEW c \in Call, c.kind \in RoutingKinds, Made(c)
  PROVE  /\ ClientInv'
         /\ ListenersIn(document') = ListenersIn(document)
         /\ BackendSetsIn(document') = BackendSetsIn(document)
         /\ \/ /\ \A l : NoneAttaches(l)'
               /\ PoliciesIn(document') =
                    (PoliciesIn(document) \cup Named(c, "CreateRoutingPolicy")) \ Named(c, "DeleteRoutingPolicy")
               /\ \A k \in ListenersIn(document') : PolicyKept(k) \/ k \in Named(c, "SetRoutingPolicy")
               /\ c.kind = "DetachRoutingPolicy" => document'.listeners[c.name].routingPolicy = Absent
            \/ UNCHANGED clientVars /\ (Settled(c, cache) \/ DoneAlready(c))
<1>1. /\ ClientInv'
      /\ \/ Change(c) /\ \A l : NoneAttaches(l)'
         \/ UNCHANGED clientVars /\ (Settled(c, cache) \/ DoneAlready(c))
  BY SucceedsChanges DEF Made
<1>2. CASE Change(c) /\ \A l : NoneAttaches(l)'
  <2>1. document \in Document
    BY DEF ClientInv, CachedLoadBalancerTypeOK
  <2>2. /\ Named(c, "CreateListener") = {} /\ Named(c, "DeleteListener") = {}
        /\ Named(c, "CreateBackendSet") = {} /\ Named(c, "DeleteBackendSet") = {}
    BY DEF Named, RoutingKinds
  <2>3. /\ ListenersIn(document') =
             (ListenersIn(document) \cup Named(c, "CreateListener")) \ Named(c, "DeleteListener")
        /\ BackendSetsIn(document') =
             (BackendSetsIn(document) \cup Named(c, "CreateBackendSet")) \ Named(c, "DeleteBackendSet")
        /\ PoliciesIn(document') =
             (PoliciesIn(document) \cup Named(c, "CreateRoutingPolicy")) \ Named(c, "DeleteRoutingPolicy")
        /\ \A k \in ListenersIn(document') : PolicyKept(k) \/ k \in Named(c, "SetRoutingPolicy")
        /\ c.kind = "DetachRoutingPolicy" => document'.listeners[c.name].routingPolicy = Absent
    BY <1>2, <2>1, Changed
  <2> QED BY <1>1, <1>2, <2>2, <2>3
<1>3. CASE UNCHANGED clientVars /\ (Settled(c, cache) \/ DoneAlready(c))
  BY <1>1, <1>3 DEF clientVars
<1> QED BY <1>1, <1>2, <1>3

\* The calls it makes are calls, and the policy it attaches is there, or in doubt.
LEMMA RoutingCallTyped ==
  ASSUME RoutingPolicyTypeOK,
         NEW kind \in {"CreateRoutingPolicy", "SetRoutingPolicy", "UpdateRoutingPolicyRules"},
         NEW l \in PathListeners(rbuilt)
  PROVE  /\ RoutingCall(kind, l) \in Call /\ l \in Listener
         /\ RoutingCall(kind, l).kind = kind /\ RoutingCall(kind, l).name = l
<1>1. RulesFor(rbuilt, l) \in Rules
  BY RulesTyped DEF RoutingPolicyTypeOK
<1>2. l \in Listener
  BY DEF RoutingPolicyTypeOK, PathListeners, Path
<1> QED BY <1>1, <1>2 DEF RoutingCall, Call, RoutingPolicyCall

LEMMA RoutingInHandTyped ==
  ASSUME RoutingInv, NEW c \in RoutingInHand
  PROVE  /\ c \in Call
         /\ c.kind = "SetRoutingPolicy" => c.name \in PoliciesIn(document) \cup doubted
<1> USE DEF RoutingInv
<1>1. CASE rpc = "ensure" /\ \E l \in rtodo : c = RoutingCall("CreateRoutingPolicy", l)
  BY <1>1, RoutingCallTyped DEF PolicyInv
<1>2. CASE rpc = "attach" /\ c = RoutingCall("SetRoutingPolicy", rnow)
  BY <1>2, RoutingCallTyped DEF PolicyInv
<1>3. CASE rpc = "rules" /\ c = RoutingCall("UpdateRoutingPolicyRules", rnow)
  BY <1>3, RoutingCallTyped DEF PolicyInv
<1>4. CASE rpc = "remove" /\ \E l \in rtodo : c = DetachCall(l)
  BY <1>4 DEF DetachCall, Call, RoutingPolicyCall, RoutingPolicyTypeOK
<1>5. CASE rpc = "delete" /\ c = DeleteCall(rnow)
  BY <1>5 DEF DeleteCall, Call, RoutingPolicyCall, PolicyInv
<1> QED BY <1>1, <1>2, <1>3, <1>4, <1>5 DEF RoutingInHand, RoutingPolicyTypeOK

\* A call that is to create a policy ends with it there, or in doubt.
LEMMA CreatePolicyStep ==
  ASSUME ClientInv, RoutingInv, NEW l \in Listener, CreatePolicy(l)
  PROVE  /\ RoutingInv' /\ ClientInv' /\ ingresses' = ingresses
         /\ ListenersIn(document') = ListenersIn(document)
         /\ BackendSetsIn(document') = BackendSetsIn(document)
<1> USE DEF RoutingInv
<1>1. /\ rpc = "ensure" /\ l \in rtodo /\ Made(RoutingCall("CreateRoutingPolicy", l))
      /\ Known(l, PoliciesIn(document'))
      /\ rpc' = "attach" /\ rnow' = l /\ rtodo' = rtodo \ {l}
      /\ UNCHANGED <<ingresses, rbuilt>>
  BY DEF CreatePolicy
<1> DEFINE c == RoutingCall("CreateRoutingPolicy", l)
<1>2. rtodo \subseteq PathListeners(rbuilt)
  BY <1>1 DEF PolicyInv
<1>3. c \in Call /\ c.kind = "CreateRoutingPolicy" /\ c.name = l
  BY <1>1, <1>2, RoutingCallTyped
<1>4. /\ ClientInv' /\ ListenersIn(document') = ListenersIn(document)
      /\ BackendSetsIn(document') = BackendSetsIn(document)
      /\ \/ /\ \A k : NoneAttaches(k)'
            /\ PoliciesIn(document') =
                 (PoliciesIn(document) \cup Named(c, "CreateRoutingPolicy")) \ Named(c, "DeleteRoutingPolicy")
            /\ \A k \in ListenersIn(document') : PolicyKept(k) \/ k \in Named(c, "SetRoutingPolicy")
         \/ UNCHANGED clientVars
  BY <1>1, <1>3, MadeChanges DEF RoutingKinds
<1>5. /\ \A k \in ListenersIn(document') : PolicyKept(k)
      /\ PoliciesIn(document) \subseteq PoliciesIn(document')
      /\ (\A k : NoneAttaches(k)') \/ late' = late
  BY <1>3, <1>4 DEF Named, clientVars, PolicyKept
<1>6. /\ PoliciesIn(document) \cup doubted \subseteq PoliciesIn(document') \cup doubted'
      /\ l \in PoliciesIn(document') \cup doubted' /\ doubted' \subseteq doubted \cup {l}
  BY <1>1, <1>5 DEF Known
<1>7. RoutingPolicyTypeOK'
  BY <1>1, <1>6 DEF RoutingPolicyTypeOK
<1>8. PolicyInv'
  BY <1>1, <1>2, <1>6 DEF PolicyInv
<1>9. LateInv'
  BY <1>4, <1>5, <1>6 DEF LateInv, NoneAttaches
<1>10. NoDanglingPolicy'
  BY <1>5, <1>6 DEF NoDanglingPolicy, PolicyKept
<1> QED BY <1>1, <1>4, <1>7, <1>8, <1>9, <1>10

\* The 409 of a load balancer that is busy: the policy is in doubt.
LEMMA PolicyTakenAsDoneStep ==
  ASSUME RoutingInv, NEW l \in Listener, PolicyTakenAsDone(l)
  PROVE  RoutingInv' /\ UNCHANGED clientVars /\ ingresses' = ingresses
<1> USE DEF RoutingInv
<1>1. /\ rpc = "ensure" /\ l \in rtodo /\ Known(l, PoliciesIn(document))
      /\ rpc' = "attach" /\ rnow' = l /\ rtodo' = rtodo \ {l}
      /\ UNCHANGED <<clientVars, ingresses, rbuilt>>
  BY DEF PolicyTakenAsDone
<1>2. rtodo \subseteq PathListeners(rbuilt)
  BY <1>1 DEF PolicyInv
<1>3. /\ document' = document /\ late' = late
      /\ PoliciesIn(document) \cup doubted \subseteq PoliciesIn(document) \cup doubted'
      /\ l \in PoliciesIn(document) \cup doubted' /\ doubted' \subseteq doubted \cup {l}
  BY <1>1 DEF Known, clientVars
<1>4. RoutingPolicyTypeOK'
  BY <1>1, <1>3 DEF RoutingPolicyTypeOK
<1>5. PolicyInv'
  BY <1>1, <1>2, <1>3 DEF PolicyInv
<1>6. LateInv' /\ NoDanglingPolicy'
  BY <1>3 DEF LateInv, NoDanglingPolicy
<1> QED BY <1>1, <1>4, <1>5, <1>6

\* Attaching makes one listener use the policy that is there, or in doubt.
LEMMA AttachPolicyStep ==
  ASSUME ClientInv, RoutingInv, AttachPolicy
  PROVE  /\ RoutingInv' /\ ClientInv' /\ ingresses' = ingresses
         /\ ListenersIn(document') = ListenersIn(document)
         /\ BackendSetsIn(document') = BackendSetsIn(document)
<1> USE DEF RoutingInv
<1>1. /\ rpc = "attach" /\ Made(RoutingCall("SetRoutingPolicy", rnow)) /\ rpc' = "rules"
      /\ UNCHANGED <<ingresses, rbuilt, rtodo, rnow, doubted>>
  BY DEF AttachPolicy
<1> DEFINE c == RoutingCall("SetRoutingPolicy", rnow)
<1>2. /\ rtodo \subseteq PathListeners(rbuilt) /\ rnow \in PathListeners(rbuilt)
      /\ rnow \in PoliciesIn(document) \cup doubted
  BY <1>1 DEF PolicyInv
<1>3. c \in Call /\ c.kind = "SetRoutingPolicy" /\ c.name = rnow
  BY <1>2, RoutingCallTyped
<1>4. /\ ClientInv' /\ ListenersIn(document') = ListenersIn(document)
      /\ BackendSetsIn(document') = BackendSetsIn(document)
      /\ \/ /\ \A k : NoneAttaches(k)'
            /\ PoliciesIn(document') =
                 (PoliciesIn(document) \cup Named(c, "CreateRoutingPolicy")) \ Named(c, "DeleteRoutingPolicy")
            /\ \A k \in ListenersIn(document') : PolicyKept(k) \/ k \in Named(c, "SetRoutingPolicy")
         \/ UNCHANGED clientVars
  BY <1>1, <1>3, MadeChanges DEF RoutingKinds
<1>5. /\ \A k \in ListenersIn(document') : PolicyKept(k) \/ k = rnow
      /\ PoliciesIn(document') = PoliciesIn(document)
      /\ (\A k : NoneAttaches(k)') \/ late' = late
  BY <1>3, <1>4 DEF Named, clientVars, PolicyKept
<1>6. RoutingPolicyTypeOK' /\ PolicyInv'
  BY <1>1, <1>2, <1>5 DEF RoutingPolicyTypeOK, PolicyInv
<1>7. LateInv'
  BY <1>1, <1>4, <1>5 DEF LateInv, NoneAttaches
<1>8. NoDanglingPolicy'
  BY <1>1, <1>2, <1>5 DEF NoDanglingPolicy, PolicyKept
<1> QED BY <1>1, <1>4, <1>6, <1>7, <1>8

\* An update of its rules leaves a policy where it is.
LEMMA UpdateRulesStep ==
  ASSUME ClientInv, RoutingInv, UpdateRules
  PROVE  /\ RoutingInv' /\ ClientInv' /\ ingresses' = ingresses
         /\ ListenersIn(document') = ListenersIn(document)
         /\ BackendSetsIn(document') = BackendSetsIn(document)
<1> USE DEF RoutingInv
<1>1. /\ rpc = "rules" /\ Made(RoutingCall("UpdateRoutingPolicyRules", rnow))
      /\ rpc' = "ensure" /\ rnow' = Absent /\ UNCHANGED <<ingresses, rbuilt, rtodo, doubted>>
  BY DEF UpdateRules
<1> DEFINE c == RoutingCall("UpdateRoutingPolicyRules", rnow)
<1>2. rtodo \subseteq PathListeners(rbuilt) /\ rnow \in PathListeners(rbuilt)
  BY <1>1 DEF PolicyInv
<1>3. c \in Call /\ c.kind = "UpdateRoutingPolicyRules" /\ c.name = rnow
  BY <1>2, RoutingCallTyped
<1>4. /\ ClientInv' /\ ListenersIn(document') = ListenersIn(document)
      /\ BackendSetsIn(document') = BackendSetsIn(document)
      /\ \/ /\ \A k : NoneAttaches(k)'
            /\ PoliciesIn(document') =
                 (PoliciesIn(document) \cup Named(c, "CreateRoutingPolicy")) \ Named(c, "DeleteRoutingPolicy")
            /\ \A k \in ListenersIn(document') : PolicyKept(k) \/ k \in Named(c, "SetRoutingPolicy")
         \/ UNCHANGED clientVars
  BY <1>1, <1>3, MadeChanges DEF RoutingKinds
<1>5. /\ \A k \in ListenersIn(document') : PolicyKept(k)
      /\ PoliciesIn(document') = PoliciesIn(document)
      /\ (\A k : NoneAttaches(k)') \/ late' = late
  BY <1>3, <1>4 DEF Named, clientVars, PolicyKept
<1>6. RoutingPolicyTypeOK' /\ PolicyInv'
  BY <1>1, <1>2 DEF RoutingPolicyTypeOK, PolicyInv
<1>7. LateInv'
  BY <1>1, <1>4, <1>5 DEF LateInv, NoneAttaches
<1>8. NoDanglingPolicy'
  BY <1>1, <1>5 DEF NoDanglingPolicy, PolicyKept
<1> QED BY <1>1, <1>4, <1>6, <1>7, <1>8

\* After a detachment the listener uses no policy, nor will it by a request still on
\* its way; unless the cached document did not show it.
LEMMA DetachStep ==
  ASSUME ClientInv, RoutingInv, NEW l \in Listener, Detach(l)
  PROVE  /\ RoutingInv' /\ ClientInv' /\ ingresses' = ingresses
         /\ ListenersIn(document') = ListenersIn(document)
         /\ BackendSetsIn(document') = BackendSetsIn(document)
<1> USE DEF RoutingInv
<1>1. /\ rpc = "remove" /\ l \in rtodo /\ rpc' = "delete" /\ rnow' = l /\ rtodo' = rtodo \ {l}
      /\ doubted' = IF l \in ListenersIn(document) \ ListenersIn(cache) THEN doubted \cup {l} ELSE doubted
      /\ Made(DetachCall(l)) /\ UNCHANGED <<ingresses, rbuilt>>
  BY DEF Detach
<1> DEFINE c == DetachCall(l)
<1>2. c \in Call /\ c.kind = "DetachRoutingPolicy" /\ c.name = l
  BY DEF DetachCall, Call, RoutingPolicyCall
<1>3. /\ ClientInv' /\ ListenersIn(document') = ListenersIn(document)
      /\ BackendSetsIn(document') = BackendSetsIn(document)
      /\ \/ /\ \A k : NoneAttaches(k)'
            /\ PoliciesIn(document') =
                 (PoliciesIn(document) \cup Named(c, "CreateRoutingPolicy")) \ Named(c, "DeleteRoutingPolicy")
            /\ \A k \in ListenersIn(document') : PolicyKept(k) \/ k \in Named(c, "SetRoutingPolicy")
            /\ document'.listeners[l].routingPolicy = Absent
         \/ UNCHANGED clientVars /\ (Settled(c, cache) \/ DoneAlready(c))
  BY <1>1, <1>2, MadeChanges DEF RoutingKinds
<1>4. ASSUME Settled(c, cache) \/ DoneAlready(c) PROVE l \notin ListenersIn(cache)
  BY <1>2, <1>4 DEF Settled, DoneAlready, CreateKinds, DeleteKinds, Present, Resource, Part, ListenersIn
<1>5. /\ \A k \in ListenersIn(document') : PolicyKept(k)
      /\ PoliciesIn(document') = PoliciesIn(document)
      /\ (\A k : NoneAttaches(k)') \/ late' = late
      /\ doubted \subseteq doubted' /\ doubted' \subseteq Listener
  BY <1>1, <1>2, <1>3 DEF Named, clientVars, PolicyKept, RoutingPolicyTypeOK
<1>6. \/ l \in doubted'
      \/ NoneAttaches(l)' /\ (l \in ListenersIn(document') => document'.listeners[l].routingPolicy = Absent)
  <2>1. CASE UNCHANGED clientVars /\ (Settled(c, cache) \/ DoneAlready(c))
    <3>1. l \in doubted' \/ l \notin ListenersIn(document)
      BY <1>1, <1>4, <2>1
    <3>2. l \notin ListenersIn(document) => NoneAttaches(l)
      BY DEF LateInv, NoneAttaches
    <3> QED BY <2>1, <3>1, <3>2 DEF clientVars, NoneAttaches
  <2> QED BY <1>3, <2>1
<1>7. RoutingPolicyTypeOK'
  BY <1>1, <1>5 DEF RoutingPolicyTypeOK
<1>8. PolicyInv'
  BY <1>1, <1>6 DEF PolicyInv
<1>9. LateInv'
  BY <1>3, <1>5 DEF LateInv, NoneAttaches
<1>10. NoDanglingPolicy'
  BY <1>5 DEF NoDanglingPolicy, PolicyKept
<1> QED BY <1>1, <1>3, <1>7, <1>8, <1>9, <1>10

\* So that the policy may go.
LEMMA DeletePolicyStep ==
  ASSUME ClientInv, RoutingInv, DeletePolicy
  PROVE  /\ RoutingInv' /\ ClientInv' /\ ingresses' = ingresses
         /\ ListenersIn(document') = ListenersIn(document)
         /\ BackendSetsIn(document') = BackendSetsIn(document)
<1> USE DEF RoutingInv
<1>1. /\ rpc = "delete" /\ rpc' = "remove" /\ rnow' = Absent /\ Made(DeleteCall(rnow))
      /\ UNCHANGED <<ingresses, rbuilt, rtodo, doubted>>
  BY DEF DeletePolicy
<1> DEFINE c == DeleteCall(rnow)
<1>2. /\ rnow \in Listener
      /\ \/ rnow \in doubted
         \/ /\ NoneAttaches(rnow)
            /\ rnow \in ListenersIn(document) => document.listeners[rnow].routingPolicy = Absent
  BY <1>1 DEF PolicyInv
<1>3. c \in Call /\ c.kind = "DeleteRoutingPolicy" /\ c.name = rnow
  BY <1>2 DEF DeleteCall, Call, RoutingPolicyCall
<1>4. /\ ClientInv' /\ ListenersIn(document') = ListenersIn(document)
      /\ BackendSetsIn(document') = BackendSetsIn(document)
      /\ \/ /\ \A k : NoneAttaches(k)'
            /\ PoliciesIn(document') =
                 (PoliciesIn(document) \cup Named(c, "CreateRoutingPolicy")) \ Named(c, "DeleteRoutingPolicy")
            /\ \A k \in ListenersIn(document') : PolicyKept(k) \/ k \in Named(c, "SetRoutingPolicy")
         \/ UNCHANGED clientVars
  BY <1>1, <1>3, MadeChanges DEF RoutingKinds
<1>5. /\ \A k \in ListenersIn(document') : PolicyKept(k)
      /\ PoliciesIn(document) \ {rnow} \subseteq PoliciesIn(document')
      /\ (\A k : NoneAttaches(k)') \/ (late' = late /\ document' = document)
  BY <1>3, <1>4 DEF Named, clientVars, PolicyKept
<1>6. RoutingPolicyTypeOK' /\ PolicyInv'
  BY <1>1 DEF RoutingPolicyTypeOK, PolicyInv
<1>7. LateInv'
  BY <1>1, <1>5 DEF LateInv, NoneAttaches
<1>8. NoDanglingPolicy'
  BY <1>1, <1>2, <1>5 DEF NoDanglingPolicy, PolicyKept
<1> QED BY <1>1, <1>4, <1>6, <1>7, <1>8

\* Its steps without a call.
LEMMA RoutingPauses ==
  ASSUME RoutingInv, SyncInv,
         Start \/ ListPolicies \/ RemoveFails \/ Stop \/ \E l \in Listener : EnsureFails(l)
  PROVE  RoutingInv' /\ UNCHANGED clientVars /\ ingresses' = ingresses
<1> USE DEF RoutingInv
<1>1. /\ UNCHANGED clientVars /\ ingresses' = ingresses /\ doubted' = doubted
      /\ document' = document /\ late' = late
  BY DEF Start, ListPolicies, RemoveFails, Stop, EnsureFails, clientVars
<1>2. LateInv' /\ NoDanglingPolicy'
  BY <1>1 DEF LateInv, NoDanglingPolicy
<1>3. CASE Start
  <2>1. /\ AllListeners(BuildState) \subseteq Listener /\ AllPaths(BuildState) \subseteq Path
        /\ PathListeners(AllPaths(BuildState)) = AllListeners(BuildState)
    BY BuildStateTyped, StateTyped, PathsTyped DEF SyncInv
  <2> QED BY <1>1, <1>2, <1>3, <2>1 DEF Start, RoutingPolicyTypeOK, PolicyInv
<1>4. CASE ListPolicies
  BY <1>1, <1>2, <1>4 DEF ListPolicies, RoutingPolicyTypeOK, PolicyInv, PoliciesIn
<1>5. CASE RemoveFails \/ Stop
  BY <1>1, <1>2, <1>5 DEF RemoveFails, Stop, GiveUp, RoutingPolicyTypeOK, PolicyInv
<1>6. ASSUME NEW l \in Listener, EnsureFails(l)
      PROVE  RoutingPolicyTypeOK' /\ PolicyInv'
  <2>1. /\ rpc \in {"ensure", "attach", "rules"} /\ rpc' = "ensure" /\ rnow' = Absent
        /\ rtodo' = rtodo \ {l} /\ rbuilt' = rbuilt
    BY <1>6 DEF EnsureFails, EnsureRefused
  <2> QED BY <1>1, <2>1 DEF RoutingPolicyTypeOK, PolicyInv
<1> QED BY <1>1, <1>2, <1>3, <1>4, <1>5, <1>6

\* Within a sync of its own: the policy is there before it is attached, and
\* detached before it goes.
LEMMA RoutingSteps ==
  ASSUME ClientInv, SyncInv, RoutingInv, RoutingStep
  PROVE  /\ RoutingInv' /\ ClientInv' /\ ingresses' = ingresses
         /\ ListenersIn(document') = ListenersIn(document)
         /\ BackendSetsIn(document') = BackendSetsIn(document)
<1>1. CASE Start \/ ListPolicies \/ RemoveFails \/ Stop \/ \E l \in Listener : EnsureFails(l)
  BY <1>1, RoutingPauses, ClientKept DEF clientVars
<1>2. CASE AttachPolicy \/ UpdateRules \/ DeletePolicy
  BY <1>2, AttachPolicyStep, UpdateRulesStep, DeletePolicyStep
<1>3. CASE \E l \in Listener : CreatePolicy(l) \/ Detach(l)
  BY <1>3, CreatePolicyStep, DetachStep
<1> QED BY <1>1, <1>2, <1>3 DEF RoutingStep

\* A request that is left to itself is still a call; one that attaches a policy is
\* accepted because its listener is there.
LEMMA AbandonedLeaves ==
  ASSUME ClientInv, RoutingInv, NEW c \in Call, Abandoned(c), document' = document, doubted' = doubted,
         c.kind = "SetRoutingPolicy" => c.name \in PoliciesIn(document) \cup doubted
  PROVE  LateInv' /\ late' \subseteq Call
<1>1. late' = late \cup {c} /\ late \subseteq Call
  BY DEF Abandoned, ClientInv, CachedLoadBalancerTypeOK
<1>2. c.kind = "SetRoutingPolicy" => c.name \in ListenersIn(document)
  <2> SUFFICES ASSUME c.kind = "SetRoutingPolicy" PROVE c.name \in ListenersIn(document)
    OBVIOUS
  <2>1. c.name \in Listener /\ Part(c) = "listeners"
    BY DEF Call, BackendSetCall, ListenerCall, RoutingPolicyCall, Part
  <2> QED BY <2>1 DEF Abandoned, Accepted, Valid, Present, Resource, CreateKinds, ListenersIn
<1>3. LateInv'
  BY <1>1, <1>2 DEF RoutingInv, LateInv
<1> QED BY <1>1, <1>3

\* A sync of its own that fails, or the controller's end, leaves behind what is
\* safe to leave: at worst a policy that no listener uses.
LEMMA RoutingStops ==
  ASSUME RoutingInv, document' = document, doubted' = doubted, LateInv',
         \/ /\ rpc = "ensure" /\ rtodo' \subseteq rtodo
            /\ UNCHANGED <<rpc, rbuilt, rnow>>
         \/ /\ rpc \in {"attach", "rules"}
            /\ rpc' = "ensure" /\ rnow' = Absent
            /\ UNCHANGED <<rbuilt, rtodo>>
         \/ GiveUp
  PROVE  RoutingInv'
<1>1. RoutingPolicyTypeOK' /\ PolicyInv'
  BY DEF GiveUp, RoutingInv, RoutingPolicyTypeOK, PolicyInv
<1>2. NoDanglingPolicy'
  BY DEF RoutingInv, NoDanglingPolicy
<1> QED BY <1>1, <1>2 DEF RoutingInv

LEMMA RoutingErrorStep ==
  ASSUME ClientInv, RoutingInv, RoutingError
  PROVE  RoutingInv' /\ ClientInv' /\ document' = document /\ ingresses' = ingresses
<1>1. UNCHANGED <<document, cache, slow, waiting, ingresses, doubted>>
  BY DEF RoutingError
<1>2. LateInv' /\ late' \subseteq Call
  <2>1. CASE UNCHANGED late
    BY <1>1, <2>1 DEF RoutingInv, LateInv, ClientInv, CachedLoadBalancerTypeOK
  <2>2. ASSUME NEW c \in RoutingInHand, Abandoned(c)
        PROVE  LateInv' /\ late' \subseteq Call
    BY <1>1, <2>2, RoutingInHandTyped, AbandonedLeaves
  <2> QED BY <2>1, <2>2 DEF RoutingError
<1>3. ClientInv'
  BY <1>1, <1>2 DEF ClientInv, CachedLoadBalancerTypeOK
<1>4. RoutingInv'
  BY <1>1, <1>2, RoutingStops DEF RoutingError
<1> QED BY <1>1, <1>3, <1>4

\* The controller's end, with both controllers' requests on their way.
LEMMA RestartLeaves ==
  ASSUME ClientInv, SyncInv, RoutingInv, Restart
  PROVE  RoutingInv' /\ ClientInv'
<1>1. /\ document' = document /\ cache' = document /\ slow' = Absent /\ waiting' = {}
      /\ GiveUp /\ doubted' = doubted
  BY DEF Restart, RestartRouting
<1>2. LateInv' /\ late' \subseteq Call
  <2>1. CASE UNCHANGED late
    BY <1>1, <2>1 DEF RoutingInv, LateInv, ClientInv, CachedLoadBalancerTypeOK
  <2>2. ASSUME NEW c \in RoutingInHand, Abandoned(c)
        PROVE  LateInv' /\ late' \subseteq Call
    BY <1>1, <2>2, RoutingInHandTyped, AbandonedLeaves
  <2>3. ASSUME NEW w \in Worker, NEW c \in InHand(w), Abandoned(c)
        PROVE  LateInv' /\ late' \subseteq Call
    <3>1. c \in Call /\ c.kind # "SetRoutingPolicy"
      BY InHandTyped DEF SyncInv, EnsureKinds
    <3> QED BY <1>1, <2>3, <3>1, AbandonedLeaves
  <2> QED BY <2>1, <2>2, <2>3 DEF Restart
<1>3. ClientInv'
  BY <1>1, <1>2 DEF ClientInv, CachedLoadBalancerTypeOK
<1> QED BY <1>1, <1>2, <1>3, RoutingStops

-----------------------------------------------------------------------------
(* Late requests. What they create and delete is noted.                      *)

LEMMA LateSyncs ==
  ASSUME ClientInv, SyncInv, NEW c \in late, LateApplies(c), LateIngress(c)
  PROVE  SyncInv' /\ ClientInv'
<1> USE DEF SyncInv
<1>1. c \in Call /\ document \in Document /\ Change(c)
  BY DEF ClientInv, CachedLoadBalancerTypeOK, LateApplies
<1>2. /\ UNCHANGED <<ingresses, pending, dropped, vanished, syncVars, changes, faults>>
      /\ missed' \subseteq missed \cup Ingress
      /\ astray' = astray \cup (IF c.kind \in {"CreateListener", "CreateBackendSet"} THEN {c.name} ELSE {})
  BY DEF LateIngress
<1>3. /\ ListenersIn(document') =
           (ListenersIn(document) \cup Named(c, "CreateListener")) \ Named(c, "DeleteListener")
      /\ BackendSetsIn(document') =
           (BackendSetsIn(document) \cup Named(c, "CreateBackendSet")) \ Named(c, "DeleteBackendSet")
  BY <1>1, Changed
<1>4. ClientInv'
  <2>1. /\ UNCHANGED <<cache, slow, waiting>> /\ late' \subseteq Matching(late)
        /\ waiting \subseteq Worker \cup {RoutingWorker}
    BY DEF LateApplies, Matching, ClientInv
  <2> QED BY <1>1, <2>1, ClientChanged
<1>5. astray' \subseteq Listener \cup BackendSet
  <2>1. c.kind \in {"CreateListener", "CreateBackendSet"} => c.name \in Listener \cup BackendSet
    BY <1>1 DEF Call, BackendSetCall, ListenerCall, RoutingPolicyCall
  <2> QED BY <1>2, <2>1 DEF IngressReconcileTypeOK
<1>6. BuildState' = BuildState /\ Due' = Due
  BY <1>2 DEF BuildState, Due, syncVars
<1>7. IngressesInv' /\ HoldingInv'
  BY <1>2 DEF IngressesInv, HoldingInv, syncVars
<1>8. IngressReconcileTypeOK'
  BY <1>2, <1>5 DEF IngressReconcileTypeOK, syncVars
<1>9. StaleInv'
  BY <1>2, <1>6 DEF StaleInv, LastSync, syncVars
<1>10. LeftoverInv'
  <2>1. \A l \in ListenersIn(document') : l \in ListenersIn(document) \/ l \in astray'
    BY <1>2, <1>3 DEF Named
  <2>2. \A b \in BackendSetsIn(document') : b \in BackendSetsIn(document) \/ b \in astray'
    BY <1>2, <1>3 DEF Named
  <2>3. astray \subseteq astray'
    BY <1>2
  <2>4. \A w \in Worker : \A n : (Unlists(w, n)' <=> Unlists(w, n)) /\ (Unstages(w, n)' <=> Unstages(w, n))
    BY <1>2 DEF Unlists, Unstages, syncVars
  <2> QED BY <1>6, <2>1, <2>2, <2>3, <2>4 DEF LeftoverInv
<1> QED BY <1>4, <1>7, <1>8, <1>9, <1>10

LEMMA LateServes ==
  ASSUME ClientInv, SyncInv, ServeInv, NEW c \in late, LateApplies(c), LateIngress(c)
  PROVE  ServeInv'
<1>1. c \in Call /\ document \in Document /\ Change(c)
  BY DEF ClientInv, CachedLoadBalancerTypeOK, LateApplies
<1>2. UNCHANGED <<ingresses, pending, dropped, pc, item, built, todo>>
  BY DEF LateIngress, syncVars
<1>3. /\ ListenersIn(document) \ Named(c, "DeleteListener") \subseteq ListenersIn(document')
      /\ BackendSetsIn(document) \ Named(c, "DeleteBackendSet") \subseteq BackendSetsIn(document')
  <2>1. /\ ListenersIn(document') =
             (ListenersIn(document) \cup Named(c, "CreateListener")) \ Named(c, "DeleteListener")
        /\ BackendSetsIn(document') =
             (BackendSetsIn(document) \cup Named(c, "CreateBackendSet")) \ Named(c, "DeleteBackendSet")
    BY <1>1, Changed
  <2> QED BY <2>1
<1>4. BuildState' = BuildState
  BY <1>2 DEF BuildState
<1>5. ASSUME NEW i \in Ingress \ missed'
      PROVE  /\ i \notin missed
             /\ \A l \in IngressListeners(BuildState, i) : l \notin Named(c, "DeleteListener")
             /\ \A b \in IngressBackendSets(BuildState, i) : b \notin Named(c, "DeleteBackendSet")
  BY <1>5 DEF LateIngress, Named
<1>6. FreshInv'
  BY <1>2, <1>4, <1>5, FreshKept DEF ServeInv, FreshInv
<1>7. ServedInv'
  <2>1. ASSUME NEW i \in Ingress \ missed'
        PROVE  Served(i)'
    <3>1. Served(i)
      BY <1>5, <2>1 DEF ServeInv, ServedInv
    <3>2. /\ \A l \in IngressListeners(BuildState, i) : l \in ListenersIn(document) => l \in ListenersIn(document')
          /\ \A b \in IngressBackendSets(BuildState, i) : b \in BackendSetsIn(document) => b \in BackendSetsIn(document')
      BY <1>3, <1>5, <2>1
    <3> QED BY <1>2, <1>4, <3>1, <3>2, ServedKept DEF Coming, Lists, Stages
  <2> QED BY <2>1 DEF ServedInv
<1> QED BY <1>6, <1>7 DEF ServeInv

LEMMA LatePolicies ==
  ASSUME ClientInv, RoutingInv, NEW c \in late, LateApplies(c), LateRouting(c)
  PROVE  RoutingInv'
<1> USE DEF RoutingInv
<1>1. c \in Call /\ document \in Document /\ Change(c)
  BY DEF ClientInv, CachedLoadBalancerTypeOK, LateApplies
<1>2. /\ doubted' = IF c.kind = "DeleteRoutingPolicy" THEN doubted \cup {c.name} ELSE doubted
      /\ UNCHANGED <<rpc, rbuilt, rtodo, rnow>>
  BY DEF LateRouting
<1>3. \A l : NoneAttaches(l)'
  <2>1. UNCHANGED <<cache, slow>> /\ late' \subseteq Matching(late) /\ waiting' \subseteq Worker \cup {RoutingWorker}
    BY DEF LateApplies, Matching, ClientInv
  <2> QED BY <1>1, <2>1, ClientChanged
<1>4. /\ PoliciesIn(document') =
           (PoliciesIn(document) \cup Named(c, "CreateRoutingPolicy")) \ Named(c, "DeleteRoutingPolicy")
      /\ \A k \in ListenersIn(document') : PolicyKept(k) \/ k \in Named(c, "SetRoutingPolicy")
  BY <1>1, Changed
<1>5. PoliciesIn(document) \cup doubted \subseteq PoliciesIn(document') \cup doubted'
  BY <1>2, <1>4 DEF Named
<1>6. doubted \subseteq doubted' /\ doubted' \subseteq Listener
  <2>1. c.kind = "DeleteRoutingPolicy" => c.name \in Listener
    BY <1>1 DEF Call, BackendSetCall, ListenerCall, RoutingPolicyCall
  <2> QED BY <1>2, <2>1 DEF RoutingPolicyTypeOK
<1>7. RoutingPolicyTypeOK'
  BY <1>2, <1>6 DEF RoutingPolicyTypeOK
<1>8. ASSUME NEW k \in ListenersIn(document'), document'.listeners[k].routingPolicy # Absent
      PROVE  \/ k \in ListenersIn(document) /\ document.listeners[k].routingPolicy # Absent
             \/ c.kind = "SetRoutingPolicy" /\ k = c.name
  BY <1>4, <1>8 DEF PolicyKept, Named
<1>9. PolicyInv'
  <2>1. rpc \in {"attach", "rules"} => rnow \in PoliciesIn(document') \cup doubted'
    BY <1>5 DEF PolicyInv
  <2>2. ASSUME rpc = "delete", rnow \notin doubted'
        PROVE  rnow \in ListenersIn(document') => document'.listeners[rnow].routingPolicy = Absent
    <3>1. /\ NoneAttaches(rnow)
          /\ rnow \in ListenersIn(document) => document.listeners[rnow].routingPolicy = Absent
      BY <1>6, <2>2 DEF PolicyInv
    <3> QED BY <1>8, <3>1 DEF NoneAttaches
  <2> QED BY <1>2, <1>3, <2>1, <2>2 DEF PolicyInv
<1>10. LateInv'
  BY <1>3 DEF LateInv, NoneAttaches
<1>11. NoDanglingPolicy'
  <2>1. c.kind = "SetRoutingPolicy" => c.name \in PoliciesIn(document) \cup doubted
    BY DEF LateInv
  <2>2. \A k \in ListenersIn(document) :
          document.listeners[k].routingPolicy # Absent => k \in PoliciesIn(document) \cup doubted
    BY DEF NoDanglingPolicy
  <2> QED BY <1>5, <1>8, <2>1, <2>2 DEF NoDanglingPolicy
<1> QED BY <1>7, <1>9, <1>10, <1>11

-----------------------------------------------------------------------------
(* The steps together.                                                       *)

LEMMA FaultCounted ==
  ASSUME SyncInv, Failing
  PROVE  faults' \in 0..MaxFaults
BY ReconcileAssumption DEF SyncInv, IngressReconcileTypeOK, Failing

\* Steps that leave the Ingresses, the syncs and what is on the load balancer.
LEMMA SyncsAndServeKept ==
  ASSUME SyncInv, ServeInv, faults' \in 0..MaxFaults,
         UNCHANGED <<ingresses, pending, dropped, vanished, missed, astray, syncVars, changes>>,
         ListenersIn(document') = ListenersIn(document),
         BackendSetsIn(document') = BackendSetsIn(document)
  PROVE  SyncInv' /\ ServeInv'
<1>1. SyncInv'
  BY SyncsKept
<1>2. ServeInv'
  BY ServeKept DEF syncVars
<1> QED BY <1>1, <1>2

\* The GETs and their failures.
LEMMA ClientMoves ==
  ASSUME ClientInv,
         Refreshing \/ StoreSlow \/ SlowAnswer \/ \E a \in Worker \cup {RoutingWorker} : RefreshLost(a)
  PROVE  ClientInv' /\ PoliciesUntouched /\ document' = document
<1>1. /\ document \in Document /\ cache \in Document /\ slow \in Document \cup {Absent}
      /\ UNCHANGED <<document, late>> /\ waiting' \subseteq waiting
  BY DEF ClientInv, CachedLoadBalancerTypeOK, Refreshing, Refreshed, Renew, Fetch, StoreSlow,
         SlowAnswer, RefreshLost
<1>2. cache' \in Document /\ slow' \in {slow, document, Absent}
  BY <1>1 DEF Refreshing, Refreshed, Renew, Fetch, StoreSlow, SlowAnswer, RefreshLost
<1> QED BY <1>1, <1>2, ClientRenewed

LEMMA StepKeeps ==
  ASSUME IInv, [Next]_vars
  PROVE  IInv'
<1> USE DEF IInv
<1>1. faults \in 0..MaxFaults
  BY DEF SyncInv, IngressReconcileTypeOK
<1>2. CASE UserStep /\ UNCHANGED routingVars
  <2>1. UNCHANGED clientVars /\ ServeInv'
    BY <1>2, SetIngressServes DEF UserStep, Apply, Edit, Delete, SetIngress
  <2> QED BY <1>2, <2>1, UserSteps, ClientKept, PoliciesKept
<1>3. CASE \E w \in Worker : SyncStep(w) /\ UNCHANGED routingVars
  BY <1>3, SyncSteps, SyncStepsServe, PoliciesKept
<1>4. CASE RoutingStep /\ UNCHANGED ingressVars
  <2>1. /\ RoutingInv' /\ ClientInv' /\ ingresses' = ingresses
        /\ ListenersIn(document') = ListenersIn(document)
        /\ BackendSetsIn(document') = BackendSetsIn(document)
    BY <1>4, RoutingSteps
  <2> QED BY <1>1, <1>4, <2>1, SyncsAndServeKept DEF ingressVars
<1>5. CASE Refreshing \/ (StoreSlow /\ UNCHANGED <<ingresses, ingressVars, routingVars>>)
  <2>1. UNCHANGED <<ingresses, ingressVars, routingVars>>
    BY <1>5 DEF Refreshing
  <2>2. ClientInv' /\ PoliciesUntouched /\ document' = document
    BY <1>5, ClientMoves
  <2>3. RoutingInv'
    BY <2>1, <2>2, PoliciesKept
  <2> QED BY <1>1, <2>1, <2>2, <2>3, SyncsAndServeKept DEF ingressVars
<1>6. CASE ClientFault
  <2>1. /\ UNCHANGED <<ingresses, pending, dropped, vanished, missed, astray, syncVars, changes>>
        /\ UNCHANGED routingVars /\ Failing
    BY <1>6 DEF ClientFault
  <2>2. ClientInv' /\ PoliciesUntouched /\ document' = document
    BY <1>6, ClientMoves DEF ClientFault
  <2>3. RoutingInv'
    BY <2>1, <2>2, PoliciesKept
  <2> QED BY <2>1, <2>2, <2>3, FaultCounted, SyncsAndServeKept
<1>7. CASE RoutingFault
  <2>1. /\ UNCHANGED <<pending, dropped, vanished, missed, astray, syncVars, changes>> /\ Failing
        /\ RoutingError \/ \E l \in Listener : PolicyTakenAsDone(l)
    BY <1>7 DEF RoutingFault
  <2>2. CASE RoutingError
    BY <2>1, <2>2, RoutingErrorStep, FaultCounted, SyncsAndServeKept
  <2>3. CASE \E l \in Listener : PolicyTakenAsDone(l)
    <3>1. RoutingInv' /\ UNCHANGED clientVars /\ ingresses' = ingresses
      BY <2>3, PolicyTakenAsDoneStep
    <3>2. ClientInv' /\ document' = document
      BY <3>1, ClientKept DEF clientVars
    <3> QED BY <2>1, <3>1, <3>2, FaultCounted, SyncsAndServeKept
  <2> QED BY <2>1, <2>2, <2>3
<1>8. CASE Late
  BY <1>8, LateSyncs, LateServes, LatePolicies DEF Late
<1>9. CASE Restart
  BY <1>9, RestartStep, RestartServes, RestartLeaves
<1>10. CASE \E i \in Ingress : DueAgain(i) /\ UNCHANGED routingVars
  <2>1. PICK i \in Ingress : DueAgain(i) /\ UNCHANGED routingVars
    BY <1>10
  <2>2. UNCHANGED clientVars /\ document' = document
    BY <2>1 DEF DueAgain, clientVars
  <2>3. ServeInv'
    BY <2>1, <2>2, ServeKept DEF DueAgain, Enqueue, syncVars
  <2> QED BY <2>1, <2>2, <2>3, DueAgainStep, ClientKept, PoliciesKept
<1>11. CASE UNCHANGED vars
  <2>1. UNCHANGED clientVars /\ UNCHANGED <<ingresses, ingressVars, routingVars>> /\ document' = document
    BY <1>11 DEF vars, clientVars
  <2> QED BY <1>1, <2>1, ClientKept, PoliciesKept, SyncsAndServeKept DEF ingressVars
<1> QED BY <1>2, <1>3, <1>4, <1>5, <1>6, <1>7, <1>8, <1>9, <1>10, <1>11 DEF Next

-----------------------------------------------------------------------------
(* The theorems.                                                             *)

\* The invariant holds in every state the two controllers, their shared client
\* and the users reach.
THEOREM Invariance == Spec => []IInv
<1>1. IInv /\ [Next]_vars => IInv'
  BY StepKeeps
<1> QED BY Initially, <1>1, PTL DEF Spec

\* Types; a worker holds an Ingress exactly while it syncs it, no two the same.
THEOREM TypesOK == Spec => []TypeOK
<1>1. IInv => TypeOK
  BY DEF IInv, ClientInv, SyncInv, RoutingInv, TypeOK
<1> QED BY Invariance, <1>1, PTL

\* No listener uses a routing policy that is not there, unless that policy's
\* creation was taken as done that was not, or its listener was not shown by the
\* cached document when it was deleted, or a late request deleted it (doubted):
\* EnsureRoutingPolicy creates before it attaches, ensureRoutingRules detaches
\* before it deletes, and what a request may still attach is there.
THEOREM PoliciesStay == Spec => []NoDanglingPolicy
<1>1. IInv => NoDanglingPolicy
  BY DEF IInv, RoutingInv
<1> QED BY Invariance, <1>1, PTL

\* At rest there is no listener and no backend set that nobody asks for, however
\* many workers ran side by side on however old states, except what the cached
\* document hid from the sync that was to delete it, and what a late request
\* created (astray).
THEOREM NothingLeft == Spec => []NoLeftovers
<1>1. IInv => NoLeftovers
  <2> SUFFICES ASSUME IInv, Quiet, vanished = {} PROVE NoLeftovers
    BY DEF NoLeftovers
  <2>1. ~Due
    BY DEF Quiet, Due
  <2>2. \A w \in Worker : pc[w] = "take"
    BY DEF Quiet
  <2> QED BY <2>1, <2>2 DEF IInv, SyncInv, LeftoverInv, Unlists, Unstages, NoLeftovers
<1> QED BY Invariance, <1>1, PTL

\* At rest an Ingress has what it asks for, unless it was changed while a sync of
\* another one went by an older state, or its own sync took to be there what was
\* not (the cached document showed it, or a creation was refused with 409), or a
\* late request deleted it (missed).
THEOREM ServedUnlessOvertaken == Spec => []ServedUnlessMissed
<1>1. IInv => ServedUnlessMissed
  <2> SUFFICES ASSUME IInv, Quiet PROVE ServedUnlessMissed
    BY DEF ServedUnlessMissed
  <2>1. \A i \in Ingress : ~Coming(i)
    BY DEF Quiet, Coming
  <2>2. \A w \in Worker : pc[w] = "take"
    BY DEF Quiet
  <2> QED BY <2>1, <2>2 DEF IInv, ServeInv, ServedInv, Served, Lists, Stages, ServedUnlessMissed
<1> QED BY Invariance, <1>1, PTL
=============================================================================
