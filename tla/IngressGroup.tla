---------------------------- MODULE IngressGroup ----------------------------
(***************************************************************************)
(* The Ingress objects of one ingress class, as the controllers' listers   *)
(* show them, and what BuildState (pkg/state/ingressstate.go) and          *)
(* processRoutingPolicy (pkg/controllers/routingpolicy/util.go) make of    *)
(* them: the listeners, backend sets and routing rules the load balancer   *)
(* should have. All are HTTP ingresses, so that every listener's default   *)
(* backend set is default_ingress, which is always wanted and not in       *)
(* BackendSet.                                                             *)
(***************************************************************************)
EXTENDS CachedLoadBalancer

CONSTANTS Ingress,
          Specs   \* the specs an ingress may have: sets of paths

\* A path's service port gives both its listener and its backend set.
Path == [listener : Listener, backendSet : BackendSet]

ASSUME SpecsAssumption == Specs \in [Ingress -> SUBSET SUBSET Path]

VARIABLE ingresses

\* "new": no finalizer of ours yet; "held": with it; "deleting": held, and
\* deleted by the user.
IngressPhase == {"gone", "new", "held", "deleting"}

Gone == [phase |-> "gone", spec |-> {}]

\* The controller starts: Ingresses may be there from an earlier run.
IngressGroupInit ==
  ingresses \in {f \in [Ingress -> {Gone} \cup [phase : {"held", "deleting"},
                                                spec : UNION {Specs[i] : i \in Ingress}]] :
                   \A i \in Ingress : f[i] = Gone \/ f[i].spec \in Specs[i]}

\* Mutant: ingresses being deleted are built into the state like the others.
BuildStateKeepsDeleting ==
  [i \in Ingress |-> IF ingresses[i].phase # "gone" THEN ingresses[i].spec ELSE {}]

\* The paths of each ingress that is not being deleted.
BuildState ==
  [i \in Ingress |-> IF ingresses[i].phase \in {"new", "held"} THEN ingresses[i].spec ELSE {}]

\* Of a built state d: one ingress's listeners and backend sets, and the class's.
IngressListeners(d, i)   == {p.listener : p \in d[i]}
IngressBackendSets(d, i) == {p.backendSet : p \in d[i]}
AllListeners(d)          == UNION {IngressListeners(d, i) : i \in Ingress}
AllBackendSets(d)        == UNION {IngressBackendSets(d, i) : i \in Ingress}

\* The rules of a listener: all its paths, whichever ingress they are from.
AllPaths(d)          == UNION {d[i] : i \in Ingress}
PathListeners(paths) == {p.listener : p \in paths}
RulesFor(paths, l)   ==
  [forwardTo |-> {p.backendSet : p \in {q \in paths : q.listener = l}}]

ListenersIn(doc)   == {l \in Listener : doc.listeners[l] # Absent}
BackendSetsIn(doc) == {b \in BackendSet : doc.backendSets[b] # Absent}
PoliciesIn(doc)    == {l \in Listener : doc.routingPolicies[l] # Absent}
=============================================================================
