----------------------------- MODULE BackendSync -----------------------------
(***************************************************************************)
(* The sync of an ingress class by the backend controller                  *)
(* (pkg/controllers/backend/backend.go) or, on a cluster whose pods have   *)
(* no address in the network, by the node backend controller               *)
(* (pkg/controllers/nodeBackend/nodeBackend.go). A class is synced by one  *)
(* worker at a time, again and again: runPusher queues it every ten        *)
(* seconds whatever became of the last sync, which ControllerQueue shows.  *)
(***************************************************************************)
EXTENDS BackendCluster

VARIABLES
  pc,     \* where the sync is
  todo,   \* Ingresses it has not come to yet
  at,     \* the Ingress it is at
  fit,    \* the fit nodes as it read them first
  got,    \* the addresses read for the backend set; then those whose pods are left
  answer, \* the health of the backend set: backends that do not pass, and those that do
  remade  \* history: sets made or deleted since a sync last saw them as they are

syncVars == <<pc, todo, at, fit, got, answer, remade>>
vars     == <<clusterVars, syncVars>>

Place    == {"idle", "next", "update", "health", "pods", "default"}
NoAnswer == [failing |-> {}, passing |-> {}]

Init ==
  /\ ClusterInit
  /\ pc = "idle" /\ todo = {} /\ at = None /\ fit = {} /\ got = {} /\ answer = NoAnswer
  /\ remade = {}

Idle == pc' = "idle" /\ todo' = {} /\ at' = None /\ fit' = {} /\ got' = {} /\ answer' = NoAnswer

-----------------------------------------------------------------------------
(* The sync.                                                                 *)

Start ==
  /\ pc = "idle"
  /\ Mode = "nodes" => FitNodes # {}
  /\ pc' = "next" /\ todo' = ingresses /\ fit' = IF Mode = "nodes" THEN FitNodes ELSE {}
  /\ UNCHANGED <<clusterVars, at, got, answer, remade>>

\* Mutant: nodes are not filtered.
ReadAnyNode(i) ==
  /\ pc = "next" /\ i \in todo /\ Readable(ServiceOf[i])
  /\ at' = i /\ got' = AddressesOf(ServiceOf[i], Node)
  /\ pc' = "update"
  /\ UNCHANGED <<clusterVars, todo, fit, answer, remade>>

\* The next Ingress, in the lister's order, which is any.
Read(i) ==
  /\ pc = "next" /\ i \in todo /\ Readable(ServiceOf[i])
  /\ at' = i /\ got' = AddressesOf(ServiceOf[i], fit)
  /\ pc' = "update"
  /\ UNCHANGED <<clusterVars, todo, fit, answer, remade>>

\* UpdateBackends: nothing to do by the document the client has, or an update that
\* the service takes if this is the document it has.
Document == IF doc = None THEN lb ELSE doc

Updatable(s) == Document[s] # None /\ (Document[s] = got \/ Document = lb)

UpdateBackends(s) ==
  /\ Updatable(s)
  /\ remade' = IF Document = lb THEN remade \ {s} ELSE remade
  /\ IF Document[s] = got
       THEN doc' = Document /\ UNCHANGED <<lb, passing>>
       ELSE /\ lb' = [lb EXCEPT ![s] = got]
            /\ passing' = [passing EXCEPT ![s] = @ \cap got]
            /\ doc' = lb'
  /\ UNCHANGED <<instance, left, ingresses, default, services, pods, listed, born, nodes>>

\* Mutant: the list of backends is not emptied between two paths.
NextIngressAppends ==
  pc' = "next" /\ todo' = todo \ {at} /\ at' = None /\ answer' = NoAnswer /\ UNCHANGED got

\* The sync is done with the Ingress it is at.
NextIngress ==
  pc' = "next" /\ todo' = todo \ {at} /\ at' = None /\ got' = {} /\ answer' = NoAnswer

Update ==
  /\ pc = "update"
  /\ UpdateBackends(ServiceOf[at])
  /\ IF Mode = "pods" THEN pc' = "health" /\ UNCHANGED <<todo, at, got, answer>> ELSE NextIngress
  /\ UNCHANGED fit

\* Mutant: the backends of unknown health are not looked through.
HealthWithoutUnknown ==
  /\ pc = "health" /\ lb[ServiceOf[at]] # None
  /\ IF got = {} THEN NextIngress
     ELSE /\ answer' = [failing |-> {}, passing |-> passing[ServiceOf[at]]]
          /\ pc' = "pods" /\ UNCHANGED <<todo, at, got>>
  /\ UNCHANGED <<clusterVars, fit, remade>>

\* GetBackendSetHealth: the answer names the backends that do not pass.
Health ==
  /\ pc = "health" /\ lb[ServiceOf[at]] # None
  /\ IF got = {} THEN NextIngress
     ELSE LET s == ServiceOf[at] IN
            /\ answer' = [failing |-> lb[s] \ passing[s], passing |-> passing[s]]
            /\ pc' = "pods" /\ UNCHANGED <<todo, at, got>>
  /\ UNCHANGED <<clusterVars, fit, remade>>

\* ensurePodReadinessCondition, of the pod that is listed by the name of the
\* endpoint: True unless the answer names the backend. The patch carries the UID.
Differs(p, uid) ==
  at \in listed[p].gates /\ (<<p, uid>> \in answer.failing <=> at \in listed[p].true)

PatchCondition(p, uid) ==
  /\ Alive(p, listed[p].uid)
  /\ pods' = [pods EXCEPT ![p].true =
                IF <<p, uid>> \in answer.failing THEN @ \ {at} ELSE @ \cup {at}]

EnsureCondition(p, uid) ==
  /\ pc = "pods" /\ <<p, uid>> \in got /\ listed[p] # None
  /\ IF Differs(p, uid) THEN PatchCondition(p, uid) ELSE UNCHANGED pods
  /\ IF got = {<<p, uid>>} THEN NextIngress
     ELSE got' = got \ {<<p, uid>>} /\ UNCHANGED <<pc, todo, at, answer>>
  /\ UNCHANGED <<instance, left, ingresses, default, services, listed, born, nodes>>
  /\ UNCHANGED <<lb, passing, doc>>
  /\ UNCHANGED <<fit, remade>>

\* getDefaultBackends: one service for all, and pods' nodes whatever its policy.
Defaults == {default[i] : i \in ingresses} \ {None}
DefaultReadable ==
  /\ \A s, t \in Defaults : s = t
  /\ \A s \in Defaults : s \in services /\ (Mode = "nodes" => PodsListed(s))
DefaultAddresses ==
  UNION {IF Mode = "pods" THEN Endpoints(s) ELSE NodesLeft(s) : s \in Defaults}

\* Mutant: nothing is done for a class without a default backend.
ReadDefaultIfAny ==
  /\ pc = "next" /\ todo = {}
  /\ IF DefaultReadable /\ Defaults # {}
       THEN pc' = "default" /\ got' = DefaultAddresses /\ UNCHANGED <<todo, at, fit, answer>>
       ELSE Idle
  /\ UNCHANGED <<clusterVars, remade>>

\* syncDefaultBackend: an error ends the sync without a word.
ReadDefault ==
  /\ pc = "next" /\ todo = {}
  /\ IF DefaultReadable
       THEN pc' = "default" /\ got' = DefaultAddresses /\ UNCHANGED <<todo, at, fit, answer>>
       ELSE Idle
  /\ UNCHANGED <<clusterVars, remade>>

UpdateDefault ==
  /\ pc = "default"
  /\ UpdateBackends(DefaultSet)
  /\ Idle

\* A call that cannot succeed.
Refused ==
  \/ pc = "next" /\ \E i \in todo : ~Readable(ServiceOf[i])
  \/ pc = "update" /\ ~Updatable(ServiceOf[at])
  \/ pc = "health" /\ lb[ServiceOf[at]] = None
  \/ /\ pc = "pods"
     /\ \E p \in Pod, uid \in Uid :
          /\ <<p, uid>> \in got
          /\ listed[p] # None => Differs(p, uid) /\ ~Alive(p, listed[p].uid)
  \/ pc = "default" /\ ~Updatable(DefaultSet)

\* The first error ends the sync of the class: that of a call that cannot succeed,
\* or any other.
Fail ==
  /\ pc # "idle"
  /\ (Refused /\ UNCHANGED left) \/ Event
  /\ Idle
  /\ UNCHANGED <<instance, ingresses, default, services, pods, listed, born, nodes>>
  /\ UNCHANGED <<lb, passing, doc>>
  /\ UNCHANGED remade

Restart ==
  /\ Event /\ Idle
  /\ doc' = None
  /\ UNCHANGED <<instance, ingresses, default, services, pods, listed, born, nodes, lb, passing>>
  /\ UNCHANGED remade

Sync ==
  \/ Start \/ Update \/ Health \/ ReadDefault \/ UpdateDefault \/ Fail
  \/ \E i \in Ingress : Read(i)
  \/ \E p \in Pod, uid \in Uid : EnsureCondition(p, uid)

-----------------------------------------------------------------------------
\* Sets that the ingress controller makes or deletes.
RecordSets ==
  remade' = remade \cup {s \in Service : (lb[s] = None) # (lb'[s] = None)}

Next ==
  \/ Sync
  \/ Restart
  \/ UserStep /\ UNCHANGED syncVars
  \/ IngressController /\ RecordSets /\ UNCHANGED <<pc, todo, at, fit, got, answer>>
  \/ (\E p \in Pod : Watch(p)) /\ UNCHANGED syncVars
  \/ (\E s \in Set, p \in Pod, uid \in Uid : Probe(s, p, uid)) /\ UNCHANGED syncVars
  \/ Expire /\ UNCHANGED syncVars

Spec == Init /\ [][Next]_vars

\* The pusher comes again and again, the lister follows, health checks go on and the
\* cached document grows old. Users, the ingress controller, faults and restarts are
\* left to chance.
FairSpec ==
  /\ Spec
  /\ WF_vars(Sync)
  /\ \A p \in Pod : WF_vars(Watch(p) /\ UNCHANGED syncVars)
  /\ \A s \in Set, p \in Pod, uid \in Uid : WF_vars(Probe(s, p, uid) /\ UNCHANGED syncVars)
  /\ WF_vars(Expire /\ UNCHANGED syncVars)

\* The types, and what the sync holds at each place: the Ingress it is at, and
\* addresses only between reading them and its last use of them.
TypeOK ==
  /\ ClusterTypeOK
  /\ pc \in Place /\ todo \subseteq Ingress /\ at \in Ingress \cup {None}
  /\ at # None <=> pc \in {"update", "health", "pods"}
  /\ at # None => at \in todo
  /\ fit \subseteq Node /\ got \subseteq Address /\ remade \subseteq Service
  /\ pc = "pods" => got # {}
  /\ pc \in {"idle", "next"} => got = {}

NewlyTrue(p, i) ==
  pods[p] # None /\ pods'[p] # None /\ i \in pods'[p].true \ pods[p].true

\* ensurePodReadinessCondition answers a gate with True only when a backend of the
\* pod's name passed the health check of the backend set after it was put there:
\* not to be named among the backends that do not pass is no proof of it, unless
\* UpdateBackends comes first. (A set that the ingress controller made again under
\* the client's old document is the exception.)
ReadyWasServed ==
  [][\A p \in Pod, i \in Ingress :
       NewlyTrue(p, i) => \/ ServiceOf[i] \in remade
                          \/ \E uid \in Uid : <<p, uid>> \in got \cap answer.passing]_vars

\* Every Ingress has its service and its backend set, and there are nodes.
Servable ==
  /\ \A i \in ingresses : lb[ServiceOf[i]] # None /\ ServiceOf[i] \in services
  /\ Mode = "nodes" => FitNodes # {}

Wanted(i) == AddressesOf(ServiceOf[i], FitNodes)

\* ensureBackendsForIngress: once every Ingress of the class can be served, their
\* backend sets come to hold the addresses the services have, however the syncs
\* were cut short and whatever document the client has. (While one Ingress cannot,
\* it may keep all others from it: the first error ends the sync.)
BackendsFollow ==
  <>[]Servable => <>[](\A i \in ingresses : lb[ServiceOf[i]] = Wanted(i))

\* syncDefaultBackend: the default backend set follows the default backend, when
\* the Ingresses agree on one or have none, though nobody hears of its errors.
DefaultFollows ==
  <>[](Servable /\ DefaultReadable) => <>[](lb[DefaultSet] = DefaultAddresses)

\* The gates that handleCreate gives a pod are answered in the end: the pod becomes
\* ready if the Ingresses of its gates stay and can be served.
GatesAlwaysAnswered ==
  \A p \in Pod :
    <>[](Servable /\ pods[p] # None /\ pods[p].gates \subseteq ingresses) => <>[]PodReady(p)

\* The same on a cluster with native pod networking, where the backend controller's
\* ensurePodReadinessCondition answers the gates: a pod that is not ready is a
\* backend all the same, or it would never become ready.
GatesAnswered ==
  \A p \in Pod :
    <>[](Mode = "pods" /\ Servable /\ pods[p] # None /\ pods[p].gates \subseteq ingresses)
      => <>[]PodReady(p)
=============================================================================
