----------------------------- MODULE Reconcile ------------------------------
(***************************************************************************)
(* The ingress controller and the routing policy controller at work on one *)
(* load balancer, while users apply, edit and delete Ingresses. Neither    *)
(* knows of the other: the order the service asks for (a policy names      *)
(* existing backend sets, a listener is there before a policy is attached, *)
(* a backend set goes after the last policy that names it) comes from      *)
(* failing and trying again. All they share is the cached document of one  *)
(* client, which may be up to a minute old, and the requests it has sent,  *)
(* which outlive the calls that gave up waiting for them.                  *)
(***************************************************************************)
EXTENDS IngressReconcile, RoutingPolicyReconcile

ASSUME RoutingWorkerAssumption == RoutingWorker \notin Worker

vars == <<clientVars, ingresses, ingressVars, routingVars>>

\* The controller starts on what an earlier run has left: some of the Ingresses are
\* served, with their policies; the others, and some deletions, came since. Parts of
\* that are what a Restart finds.
Init ==
  /\ CachedLoadBalancerInit
  /\ IngressGroupInit /\ IngressReconcileInit /\ RoutingPolicyInit
  /\ \E served \in SUBSET Listed :
       LET paths == UNION {ingresses[i].spec : i \in served}
       IN  /\ ListenersIn(document) = PathListeners(paths)
           /\ BackendSetsIn(document) = {p.backendSet : p \in paths}
           /\ PoliciesIn(document) = PathListeners(paths)
           /\ \A l \in PathListeners(paths) : /\ document.listeners[l].routingPolicy = l
                                              /\ document.routingPolicies[l] = RulesFor(paths, l)

\* Requests that were accepted do not stop with the controller.
Restart ==
  /\ RestartIngress
  /\ RestartRouting
  /\ cache' = document /\ slow' = Absent /\ waiting' = {}
  /\ \/ UNCHANGED late
     \/ \E w \in Worker \ waiting : \E call \in InHand(w) : Abandoned(call)
     \/ RoutingWorker \notin waiting /\ \E call \in RoutingInHand : Abandoned(call)
  /\ UNCHANGED document

\* What the routing policy controller meets.
RoutingFault ==
  /\ RoutingWorker \notin waiting
  /\ Failing
  /\ RoutingError \/ \E l \in Listener : PolicyTakenAsDone(l)
  /\ UNCHANGED <<pending, dropped, vanished, missed, astray, syncVars, changes>>

\* What the client they share meets.
ClientFault ==
  /\ Failing
  /\ SlowAnswer \/ \E a \in Worker \cup {RoutingWorker} : RefreshLost(a)
  /\ UNCHANGED <<ingresses, pending, dropped, vanished, missed, astray, syncVars, changes>>
  /\ UNCHANGED routingVars

Late == \E call \in late : LateApplies(call) /\ LateIngress(call) /\ LateRouting(call)

\* A GET gets through.
Refreshing ==
  /\ Renew \/ \E a \in Worker \cup {RoutingWorker} : Refreshed(a)
  /\ UNCHANGED <<ingresses, ingressVars, routingVars>>

Next ==
  \/ UserStep /\ UNCHANGED routingVars
  \/ \E i \in Ingress : DueAgain(i) /\ UNCHANGED routingVars
  \/ \E w \in Worker : SyncStep(w) /\ UNCHANGED routingVars
  \/ RoutingStep /\ UNCHANGED ingressVars
  \/ Refreshing
  \/ StoreSlow /\ UNCHANGED <<ingresses, ingressVars, routingVars>>
  \/ Late
  \/ RoutingFault
  \/ ClientFault
  \/ Restart

Spec == Init /\ [][Next]_vars

\* Syncs go on, the pusher keeps starting new ones, and a key that waits in the
\* queue, which is first in first out, is not passed over forever. Users and
\* faults are bounded; handleErr's choice to drop a key is never forced.
FairSpec ==
  /\ Spec
  /\ \A w \in Worker : WF_vars(SyncStep(w) /\ UNCHANGED routingVars)
  /\ \A i \in Ingress : SF_vars((\E w \in Worker : Take(w, i)) /\ UNCHANGED routingVars)
  /\ WF_vars(RoutingStep /\ UNCHANGED ingressVars)
  /\ WF_vars(Refreshing)

-----------------------------------------------------------------------------
(* Properties.                                                               *)

TypeOK ==
  /\ CachedLoadBalancerTypeOK /\ waiting \subseteq Worker \cup {RoutingWorker}
  /\ IngressReconcileTypeOK /\ RoutingPolicyTypeOK

\* Nothing is queued, synced, or was given up: no sync will come by itself.
Quiet == pending = {} /\ dropped = {} /\ \A w \in Worker : pc[w] = "take"

\* When the controller has come to rest, the load balancer has no listener and
\* no backend set that no Ingress asks for, whatever syncs ran side by side on
\* states built at different moments: what a sync with an old state still
\* created, a later one removes. One exception is an Ingress that came and went
\* before its own sync: a sync of another one may have kept what is there for
\* its sake, and its key finds nothing to do. The other is what no sync could
\* know of (astray): the cached document did not show it to the sync that was to
\* delete it, say because the GET after its creation failed, or a request that
\* had been given up created it later.
NoLeftovers ==
  Quiet /\ vanished = {} =>
           /\ ListenersIn(document) \subseteq AllListeners(BuildState) \cup astray
           /\ BackendSetsIn(document) \subseteq AllBackendSets(BuildState) \cup astray

\* A listener never uses a routing policy that is not there, although the two
\* controllers create and delete listeners and policies independently, by cached
\* documents, and requests may be applied late. The exceptions are policies whose
\* creation a busy load balancer refused, or an old document had them skip
\* (doubted, until they are created or found), and policies deleted while an old
\* document hid the listener to detach them from, or by a late request.
NoDanglingPolicy ==
  \A l \in ListenersIn(document) :
    document.listeners[l].routingPolicy # Absent => l \in PoliciesIn(document) \cup doubted

\* "By default, NIC creates a listener port on the IngressClass backed LB for
\* each backend service port specified in an Ingress resource" (GettingStarted):
\* at rest, what the Ingresses ask for is there.
ServedAtRest ==
  Quiet => /\ AllListeners(BuildState) \subseteq ListenersIn(document)
           /\ AllBackendSets(BuildState) \subseteq BackendSetsIn(document)

\* How far that can fail: an Ingress has at rest what it asks for, unless it was
\* changed while the sync of another one was at work on an older state (such a
\* sync deletes what it has not seen anyone ask for, and nothing is queued that
\* would put it back), or its own sync took to be there what was not (the cached
\* document still showed it, or a busy load balancer refused its creation), or a
\* request that had been given up deleted it later. A change without any of that,
\* or a restart, makes it good.
ServedUnlessMissed ==
  Quiet => \A i \in Ingress \ missed :
             /\ IngressListeners(BuildState, i) \subseteq ListenersIn(document)
             /\ IngressBackendSets(BuildState, i) \subseteq BackendSetsIn(document)

\* The backend sets a listener's rules are to name are there.
Forwardable(l) == RulesFor(AllPaths(BuildState), l).forwardTo \subseteq BackendSetsIn(document)

\* A deleted Ingress goes, unless its key is dropped: the policy that keeps its
\* backend sets from being deleted lets go of them in the end, also while
\* another listener's policy fails in every sync. (A listener that shares the
\* policy must have its own backend sets, or its rules cannot be changed.)
DeletionCompletes ==
  (\A l \in Listener : <>[]Forwardable(l)) =>
    \A i \in Ingress : []<>(ingresses[i].phase # "deleting" \/ i \in dropped)

Routed(p) ==
  /\ document.listeners[p.listener] # Absent
  /\ document.listeners[p.listener].routingPolicy = p.listener
  /\ References(document.routingPolicies[p.listener], p.backendSet)

\* A path whose listener and backend sets stay is routed in the end, and stays
\* so: also when the listener was deleted and created again behind a policy that
\* was there all along, and when a sync with an old state undid it.
PathsRouted ==
  \A p \in UNION UNION {Specs[i] : i \in Ingress} :
    <>[](/\ p \in AllPaths(BuildState)
         /\ p.listener \in ListenersIn(document)
         /\ Forwardable(p.listener))
      => <>[]Routed(p)
=============================================================================
