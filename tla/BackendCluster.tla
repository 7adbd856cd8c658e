--------------------------- MODULE BackendCluster ---------------------------
(***************************************************************************)
(* What the backend controllers work between: the cluster, where pods come *)
(* and go behind services, and the load balancer's backend sets with the   *)
(* health of their backends. The readiness gates a pod is created with are *)
(* the webhook's (pkg/podreadiness/webhook.go).                            *)
(*                                                                         *)
(* Each Ingress has one path, so that its gate and its condition go by its *)
(* name, and each service one port, so that its backend set goes by its.   *)
(***************************************************************************)
EXTENDS Naturals

CONSTANTS Ingress, Service, Pod, Node,
          ServiceOf,   \* per Ingress: the service of its path
          PodService,  \* per pod name: the service that selects it
          NodeOf,      \* per pod name: the node it runs on
          Local,       \* services whose external traffic policy is not Cluster
          MaxUid,      \* bound: pods made under one name, one after the other
          Instances,   \* bounds: what there is at first, and how many changes, faults
                       \* and restarts follow
          DefaultSet, None

Uid     == 1..MaxUid
Set     == Service \cup {DefaultSet}
Address == (Pod \X Uid) \cup Node \* a pod's address is its own
Modes   == {"pods", "nodes"}      \* by the cluster's CNI: native or flannel

ASSUME BackendAssumption ==
  /\ MaxUid \in Nat \ {0}
  /\ ServiceOf \in [Ingress -> Service] /\ PodService \in [Pod -> Service]
  /\ NodeOf \in [Pod -> Node] /\ Local \subseteq Service
  /\ Instances \subseteq
       [mode : Modes, ingresses : SUBSET Ingress, pods : SUBSET Pod, events : Nat]
  /\ DefaultSet \notin Service

\* A node that is not ready or about to be deleted is not fit for load balancing.
NodeState == {"ready", "unfit", "gone"}

\* The gates are fixed at creation; "true" are the conditions with status True.
PodState == [uid : Uid, gates : SUBSET Ingress, true : SUBSET Ingress]

Backends == SUBSET Address \* of a backend set

ASSUME NoneAssumption ==
  /\ \A x \in Ingress \cup Service : x # None
  /\ \A pod \in PodState : pod # None
  /\ \A backends \in Backends : backends # None

VARIABLES
  instance,  \* which of the Instances this is
  left,      \* how many changes, faults and restarts may still come
  ingresses, \* the Ingresses of the class, as the lister shows them
  default,   \* per Ingress: the service of its default backend
  services,  \* the services there are
  pods,      \* per name: the pod
  listed,    \* per name: the pod as the lister shows it
  born,      \* per name: how many pods it has had
  nodes,     \* per node: how it is
  lb,        \* per backend set: its backends
  passing,   \* per backend set: the backends that pass its health check
  doc        \* the client's cached document of the load balancer

clusterVars ==
  <<instance, left, ingresses, default, services, pods, listed, born, nodes, lb, passing, doc>>

Mode == instance.mode

Event == left > 0 /\ left' = left - 1

\* handleCreate: a gate per path whose service selects the pod, of whatever class.
GatesOf(p) == {i \in ingresses : ServiceOf[i] = PodService[p]}

NewPod(p, uid) == [uid |-> uid, gates |-> GatesOf(p), true |-> {}]

\* Mutant: the addresses of pods that are not ready are left out.
EndpointsReady(s) ==
  {<<p, pods[p].uid>> : p \in {q \in Pod : /\ PodService[q] = s /\ pods[q] # None
                                            /\ pods[q].gates \subseteq pods[q].true}}

\* GetEndpoints: the addresses of the service's pods, ready or not, which go by name.
Endpoints(s) == {<<p, pods[p].uid>> : p \in {q \in Pod : PodService[q] = s /\ pods[q] # None}}

\* getBackendsFromPods, RetrievePods: the nodes that run the service's pods, fit
\* or not; a pod that is not listed is an error.
PodsListed(s) == \A p \in Pod : PodService[p] = s /\ pods[p] # None => listed[p] # None
NodesOf(s) == {NodeOf[p] : p \in {q \in Pod : PodService[q] = s /\ pods[q] # None}}
NodesLeft(s) == {n \in NodesOf(s) : nodes[n] # "gone"}

FitNodes == {n \in Node : nodes[n] = "ready"}

\* The addresses a service's backend set is to have.
Readable(s) == s \in services /\ (Mode = "nodes" /\ s \in Local => PodsListed(s))
AddressesOf(s, fitNodes) ==
  CASE Mode = "pods" -> Endpoints(s)
    [] s \in Local   -> NodesLeft(s)
    [] OTHER         -> fitNodes

\* The container is ready when its pod is there, and the pod when all gates are true.
PodReady(p) == pods[p] # None /\ pods[p].gates \subseteq pods[p].true

Alive(p, uid) == pods[p] # None /\ pods[p].uid = uid

ClusterInit ==
  /\ instance \in Instances /\ left = instance.events
  /\ ingresses = instance.ingresses /\ services = Service
  /\ default = [i \in Ingress |-> None]
  /\ pods = [p \in Pod |-> IF p \in instance.pods THEN NewPod(p, 1) ELSE None]
  /\ listed = pods
  /\ born = [p \in Pod |-> IF p \in instance.pods THEN 1 ELSE 0]
  /\ nodes = [n \in Node |-> "ready"]
  /\ lb = [s \in Set |-> IF s \in {DefaultSet} \cup {ServiceOf[i] : i \in ingresses}
                          THEN {} ELSE None]
  /\ passing = [s \in Set |-> {}]
  /\ doc = None

-----------------------------------------------------------------------------
(* The users and the cluster.                                                *)

\* The webhook refuses the pod if the service of any path is not found.
CreatePod(p) ==
  /\ Event /\ p \in instance.pods /\ pods[p] = None /\ born[p] < MaxUid
  /\ \A i \in ingresses : ServiceOf[i] \in services
  /\ born' = [born EXCEPT ![p] = @ + 1]
  /\ pods' = [pods EXCEPT ![p] = NewPod(p, born'[p])]
  /\ UNCHANGED <<instance, ingresses, default, services, listed, nodes, lb, passing, doc>>

DeletePod(p) ==
  /\ Event /\ pods[p] # None
  /\ pods' = [pods EXCEPT ![p] = None]
  /\ UNCHANGED <<instance, ingresses, default, services, listed, born, nodes, lb, passing, doc>>

EditIngress(i) ==
  /\ Event
  /\ ingresses' = IF i \in ingresses THEN ingresses \ {i} ELSE ingresses \cup {i}
  /\ UNCHANGED <<instance, default, services, pods, listed, born, nodes, lb, passing, doc>>

EditDefault(i) ==
  /\ Event /\ i \in ingresses
  /\ \E s \in Service \cup {None} : default' = [default EXCEPT ![i] = s]
  /\ UNCHANGED <<instance, ingresses, services, pods, listed, born, nodes, lb, passing, doc>>

EditService(s) ==
  /\ Event
  /\ services' = IF s \in services THEN services \ {s} ELSE services \cup {s}
  /\ UNCHANGED <<instance, ingresses, default, pods, listed, born, nodes, lb, passing, doc>>

EditNode(n) ==
  /\ Event /\ Mode = "nodes"
  /\ \E state \in NodeState \ {nodes[n]} : nodes' = [nodes EXCEPT ![n] = state]
  /\ UNCHANGED <<instance, ingresses, default, services, pods, listed, born, lb, passing, doc>>

\* The pod lister follows.
Watch(p) ==
  /\ listed[p] # pods[p]
  /\ listed' = [listed EXCEPT ![p] = pods[p]]
  /\ UNCHANGED <<instance, left, ingresses, default, services, pods, born, nodes, lb, passing, doc>>

-----------------------------------------------------------------------------
(* The load balancer.                                                        *)

\* The ingress controller creates a set with the backends it should have
\* (getInitialBackendsByBackendSet) or none, and deletes one that no Ingress uses;
\* its call may leave the client's document as it was.
Make(s) ==
  /\ lb[s] = None /\ s \in services /\ \E i \in ingresses : ServiceOf[i] = s
  /\ \/ lb' = [lb EXCEPT ![s] = {}]
     \/ Readable(s) /\ lb' = [lb EXCEPT ![s] = AddressesOf(s, FitNodes)]
  /\ doc' \in {lb', doc}
  /\ UNCHANGED <<instance, left, ingresses, default, services, pods, listed, born, nodes, passing>>

Drop(s) ==
  /\ lb[s] # None /\ \A i \in ingresses : ServiceOf[i] # s
  /\ lb' = [lb EXCEPT ![s] = None] /\ passing' = [passing EXCEPT ![s] = {}]
  /\ doc' \in {lb', doc}
  /\ UNCHANGED <<instance, left, ingresses, default, services, pods, listed, born, nodes>>

\* A health check of a backend tells what it finds. (Nothing reads that of a node.)
Probe(s, p, uid) ==
  /\ lb[s] # None /\ <<p, uid>> \in lb[s] /\ (<<p, uid>> \in passing[s] <=> ~Alive(p, uid))
  /\ passing' = [passing EXCEPT ![s] = IF Alive(p, uid) THEN @ \cup {<<p, uid>>}
                                                       ELSE @ \ {<<p, uid>>}]
  /\ UNCHANGED <<instance, left, ingresses, default, services, pods, listed, born, nodes, lb, doc>>

\* A minute after it was read.
Expire ==
  /\ doc # None /\ doc' = None
  /\ UNCHANGED <<instance, left, ingresses, default, services, pods, listed, born, nodes>>
  /\ UNCHANGED <<lb, passing>>

UserStep ==
  \/ \E p \in Pod : CreatePod(p) \/ DeletePod(p)
  \/ \E i \in Ingress : EditIngress(i) \/ EditDefault(i)
  \/ \E s \in Service : EditService(s)
  \/ \E n \in Node : EditNode(n)

IngressController == \E s \in Service : Make(s) \/ Drop(s)

ClusterTypeOK ==
  /\ instance \in Instances /\ left \in Nat
  /\ ingresses \subseteq Ingress /\ services \subseteq Service
  /\ default \in [Ingress -> Service \cup {None}]
  /\ pods \in [Pod -> PodState \cup {None}] /\ listed \in [Pod -> PodState \cup {None}]
  /\ born \in [Pod -> 0..MaxUid]
  /\ nodes \in [Node -> NodeState]
  /\ lb \in [Set -> Backends \cup {None}]
  /\ \A s \in Set : passing[s] \subseteq IF lb[s] = None THEN {} ELSE lb[s]
  /\ doc \in [Set -> Backends \cup {None}] \cup {None}
=============================================================================
