------------------------- MODULE BackendSync_proofs -------------------------
(***************************************************************************)
(* Proofs about BackendSync, for any Ingresses, services, pods and nodes,  *)
(* any number of pods under one name and of events.                        *)
(*                                                                         *)
(* ReadyWasServed rests on what the client's document is worth: a backend  *)
(* set that the ingress controller has not touched since a sync saw the    *)
(* load balancer as it is, is in the document as it is on the load         *)
(* balancer. So after UpdateBackends the set has the addresses that were   *)
(* read, and the answer about its health is about every one of them.       *)
(***************************************************************************)
EXTENDS BackendSync, TLAPS

-----------------------------------------------------------------------------
(* The inductive invariant.                                                  *)

\* The document is right about the sets that are not on record.
DocumentInv == doc # None => \A s \in Set \ remade : doc[s] = lb[s]

\* Before the answer the set has the backends that were read; the answer is about all of them.
AnswerInv ==
  /\ pc = "health" /\ ServiceOf[at] \notin remade => lb[ServiceOf[at]] = got
  /\ pc = "pods" /\ ServiceOf[at] \notin remade => got \subseteq answer.failing \cup answer.passing

\* What the sync holds at each place, and the types of the cluster.
SyncTyped ==
  /\ pc \in Place /\ todo \subseteq Ingress /\ at \in Ingress \cup {None}
  /\ at # None <=> pc \in {"update", "health", "pods"}
  /\ at # None => at \in todo
  /\ fit \subseteq Node /\ got \subseteq Address /\ remade \subseteq Service
  /\ pc = "pods" => got # {}
  /\ pc \in {"idle", "next"} => got = {}
ClusterTyped == ClusterTypeOK /\ passing \in [Set -> Backends]

IInv == ClusterTyped /\ SyncTyped /\ DocumentInv /\ AnswerInv

-----------------------------------------------------------------------------
(* Facts about the operators.                                                *)

LEMMA TypeParts == TypeOK <=> ClusterTypeOK /\ SyncTyped
BY DEF TypeOK, SyncTyped

LEMMA InstanceTyped ==
  ASSUME instance \in Instances
  PROVE  /\ instance.ingresses \subseteq Ingress /\ instance.pods \subseteq Pod /\ instance.events \in Nat
BY BackendAssumption

LEMMA ServiceInSet == Service \subseteq Set /\ DefaultSet \in Set /\ DefaultSet \notin Service
BY BackendAssumption DEF Set

\* What is read for a service are addresses.
LEMMA EndpointsTyped ==
  ASSUME ClusterTypeOK, NEW s PROVE Endpoints(s) \subseteq Address
<1>1. \A p \in Pod : pods[p] # None => pods[p].uid \in Uid
  BY DEF ClusterTypeOK, PodState
<1> QED BY <1>1 DEF Endpoints, Address

LEMMA NodesLeftTyped == ASSUME NEW s PROVE NodesLeft(s) \subseteq Node
BY BackendAssumption DEF NodesLeft, NodesOf

LEMMA AddressesTyped ==
  ASSUME ClusterTypeOK, NEW s, NEW f, f \subseteq Node PROVE AddressesOf(s, f) \in Backends
BY EndpointsTyped, NodesLeftTyped DEF AddressesOf, Address, Backends

LEMMA DefaultAddressesTyped == ClusterTypeOK => DefaultAddresses \subseteq Address
BY EndpointsTyped, NodesLeftTyped DEF DefaultAddresses, Address

\* A step that touches neither the sync, nor the load balancer, nor the document.
LEMMA ClusterMoves ==
  ASSUME IInv, ClusterTypeOK', UNCHANGED <<lb, passing, doc>>, UNCHANGED syncVars
  PROVE  IInv'
BY DEF IInv, ClusterTyped, SyncTyped, DocumentInv, AnswerInv, syncVars

-----------------------------------------------------------------------------
(* The users, the lister, the load balancer.                                 *)

LEMMA Initially == Init => IInv
<1> SUFFICES ASSUME Init PROVE IInv
  OBVIOUS
<1>1. /\ instance \in Instances /\ left \in Nat /\ ingresses \subseteq Ingress /\ services \subseteq Service
      /\ instance.pods \subseteq Pod
  BY InstanceTyped DEF Init, ClusterInit
<1>2. 1 \in Uid /\ 0 \in 0..MaxUid /\ 1 \in 0..MaxUid
  BY BackendAssumption DEF Uid
<1>3. \A p \in Pod : NewPod(p, 1) \in PodState
  BY <1>1, <1>2 DEF NewPod, PodState, GatesOf
<1>4. pods \in [Pod -> PodState \cup {None}] /\ listed \in [Pod -> PodState \cup {None}]
  <2> HIDE DEF PodState, NewPod
  <2> QED BY <1>3 DEF Init, ClusterInit
<1>5. born \in [Pod -> 0..MaxUid] /\ default \in [Ingress -> Service \cup {None}] /\ nodes \in [Node -> NodeState]
  BY <1>2 DEF Init, ClusterInit, NodeState
<1>6. {} \in Backends
  BY DEF Backends
<1>7. /\ lb \in [Set -> Backends \cup {None}] /\ passing = [s \in Set |-> {}]
      /\ passing \in [Set -> Backends] /\ doc = None
  BY <1>6 DEF Init, ClusterInit
<1>8. ClusterTyped
  BY <1>1, <1>4, <1>5, <1>7 DEF ClusterTyped, ClusterTypeOK
<1>9. SyncTyped /\ DocumentInv /\ AnswerInv
  BY <1>7, NoneAssumption DEF Init, SyncTyped, Place, DocumentInv, AnswerInv
<1> QED BY <1>8, <1>9 DEF IInv

LEMMA UserKeeps == ASSUME IInv, UserStep, UNCHANGED syncVars PROVE IInv'
<1>1. ClusterTypeOK
  BY DEF IInv, ClusterTyped
<1>2. ASSUME NEW p \in Pod, CreatePod(p) PROVE IInv'
  <2>1. born[p] \in Nat /\ born[p] + 1 \in Uid /\ born[p] + 1 \in 0..MaxUid
    BY <1>1, <1>2, BackendAssumption DEF CreatePod, ClusterTypeOK, Uid
  <2>2. born' = [born EXCEPT ![p] = born[p] + 1] /\ pods' = [pods EXCEPT ![p] = NewPod(p, born'[p])]
    BY <1>2 DEF CreatePod
  <2>3. born' \in [Pod -> 0..MaxUid] /\ born'[p] \in Uid
    BY <1>1, <2>1, <2>2 DEF ClusterTypeOK
  <2>4. NewPod(p, born'[p]) \in PodState
    BY <1>1, <2>3 DEF NewPod, PodState, GatesOf, ClusterTypeOK
  <2>5. pods' \in [Pod -> PodState \cup {None}]
    BY <1>1, <2>2, <2>4 DEF ClusterTypeOK
  <2>6. ClusterTypeOK'
    BY <1>1, <1>2, <2>3, <2>5 DEF CreatePod, Event, ClusterTypeOK
  <2> QED BY <1>2, <2>6, ClusterMoves DEF CreatePod
<1>3. ASSUME NEW p \in Pod, DeletePod(p) PROVE IInv'
  <2>1. ClusterTypeOK'
    BY <1>1, <1>3 DEF DeletePod, Event, ClusterTypeOK
  <2> QED BY <1>3, <2>1, ClusterMoves DEF DeletePod
<1>4. ASSUME NEW i \in Ingress, EditIngress(i) PROVE IInv'
  <2>1. ClusterTypeOK'
    BY <1>1, <1>4 DEF EditIngress, Event, ClusterTypeOK
  <2> QED BY <1>4, <2>1, ClusterMoves DEF EditIngress
<1>5. ASSUME NEW i \in Ingress, EditDefault(i) PROVE IInv'
  <2>1. ClusterTypeOK'
    BY <1>1, <1>5 DEF EditDefault, Event, ClusterTypeOK
  <2> QED BY <1>5, <2>1, ClusterMoves DEF EditDefault
<1>6. ASSUME NEW s \in Service, EditService(s) PROVE IInv'
  <2>1. ClusterTypeOK'
    BY <1>1, <1>6 DEF EditService, Event, ClusterTypeOK
  <2> QED BY <1>6, <2>1, ClusterMoves DEF EditService
<1>7. ASSUME NEW n \in Node, EditNode(n) PROVE IInv'
  <2>1. ClusterTypeOK'
    BY <1>1, <1>7 DEF EditNode, Event, ClusterTypeOK
  <2> QED BY <1>7, <2>1, ClusterMoves DEF EditNode
<1> QED BY <1>2, <1>3, <1>4, <1>5, <1>6, <1>7 DEF UserStep

LEMMA WatchKeeps == ASSUME IInv, NEW p \in Pod, Watch(p), UNCHANGED syncVars PROVE IInv'
<1>1. ClusterTypeOK'
  BY DEF Watch, IInv, ClusterTyped, ClusterTypeOK
<1> QED BY <1>1, ClusterMoves DEF Watch

\* The ingress controller's sets are on record from then on, whatever the document says.
LEMMA IngressControllerKeeps ==
  ASSUME IInv, IngressController, RecordSets, UNCHANGED <<pc, todo, at, fit, got, answer>>
  PROVE  IInv'
<1>1. ClusterTypeOK /\ passing \in [Set -> Backends] /\ SyncTyped /\ DocumentInv /\ AnswerInv
  BY DEF IInv, ClusterTyped
<1>2. SyncTyped'
  BY <1>1 DEF SyncTyped, RecordSets
<1>3. ASSUME NEW s \in Service, (lb[s] = None) # (lb'[s] = None),
             lb' \in [Set -> Backends \cup {None}], \A t \in Set \ {s} : lb'[t] = lb[t],
             doc' \in {lb', doc}
      PROVE  DocumentInv' /\ AnswerInv'
  <2>1. s \in remade' /\ remade \subseteq remade'
    BY <1>3 DEF RecordSets
  <2>2. DocumentInv'
    BY <1>1, <1>3, <2>1 DEF DocumentInv
  <2>3. pc \in {"health", "pods"} => at \in Ingress /\ ServiceOf[at] \in Set
    BY <1>1, BackendAssumption, ServiceInSet DEF SyncTyped
  <2>4. AnswerInv'
    BY <1>1, <1>3, <2>1, <2>3 DEF AnswerInv
  <2> QED BY <2>2, <2>4
<1>4. ASSUME NEW s \in Service, Make(s) PROVE IInv'
  <2>1. FitNodes \subseteq Node
    BY DEF FitNodes
  <2>2. PICK backends \in Backends : lb' = [lb EXCEPT ![s] = backends]
    <3>1. {} \in Backends /\ AddressesOf(s, FitNodes) \in Backends
      BY <1>1, <2>1, AddressesTyped DEF Backends
    <3> QED BY <1>4, <3>1 DEF Make
  <2>3. s \in Set /\ backends # None /\ lb[s] = None /\ doc' \in {lb', doc}
    BY <1>4, ServiceInSet, NoneAssumption DEF Make
  <2>4. /\ lb' \in [Set -> Backends \cup {None}] /\ lb'[s] = backends
        /\ \A t \in Set \ {s} : lb'[t] = lb[t]
    BY <1>1, <2>2, <2>3 DEF ClusterTypeOK
  <2>5. UNCHANGED <<instance, left, ingresses, default, services, pods, listed, born, nodes, passing>>
    BY <1>4 DEF Make
  <2>6. \A t \in Set : passing'[t] \subseteq IF lb'[t] = None THEN {} ELSE lb'[t]
    BY <1>1, <2>3, <2>4, <2>5 DEF ClusterTypeOK
  <2>7. ClusterTypeOK' /\ (passing \in [Set -> Backends])'
    BY <1>1, <2>3, <2>4, <2>5, <2>6 DEF ClusterTypeOK
  <2> QED BY <1>2, <1>3, <2>3, <2>4, <2>7 DEF IInv, ClusterTyped
<1>5. ASSUME NEW s \in Service, Drop(s) PROVE IInv'
  <2>1. /\ lb' = [lb EXCEPT ![s] = None] /\ passing' = [passing EXCEPT ![s] = {}]
        /\ doc' \in {lb', doc} /\ lb[s] # None /\ s \in Set
        /\ UNCHANGED <<instance, left, ingresses, default, services, pods, listed, born, nodes>>
    BY <1>5, ServiceInSet DEF Drop
  <2>2. /\ lb' \in [Set -> Backends \cup {None}] /\ lb'[s] = None /\ passing'[s] = {}
        /\ \A t \in Set \ {s} : lb'[t] = lb[t] /\ passing'[t] = passing[t]
        /\ passing' \in [Set -> Backends]
    BY <1>1, <2>1 DEF ClusterTypeOK, Backends
  <2>3. \A t \in Set : passing'[t] \subseteq IF lb'[t] = None THEN {} ELSE lb'[t]
    BY <1>1, <2>2 DEF ClusterTypeOK
  <2>4. ClusterTypeOK'
    BY <1>1, <2>1, <2>2, <2>3 DEF ClusterTypeOK
  <2> QED BY <1>2, <1>3, <2>1, <2>2, <2>4 DEF IInv, ClusterTyped
<1> QED BY <1>4, <1>5 DEF IngressController

LEMMA ProbeKeeps ==
  ASSUME IInv, NEW s \in Set, NEW p \in Pod, NEW uid \in Uid, Probe(s, p, uid), UNCHANGED syncVars
  PROVE  IInv'
<1>1. ClusterTypeOK /\ passing \in [Set -> Backends]
  BY DEF IInv, ClusterTyped
<1>2. PICK b : /\ passing' = [passing EXCEPT ![s] = b] /\ b \subseteq passing[s] \cup {<<p, uid>>}
  BY DEF Probe
<1>3. /\ lb[s] # None /\ <<p, uid>> \in lb[s]
      /\ UNCHANGED <<instance, left, ingresses, default, services, pods, listed, born, nodes, lb, doc>>
  BY DEF Probe
<1>4. b \subseteq lb[s] /\ b \in Backends
  BY <1>1, <1>2, <1>3 DEF ClusterTypeOK, Backends
<1>5. passing' \in [Set -> Backends] /\ \A t \in Set : passing'[t] \subseteq IF lb[t] = None THEN {} ELSE lb[t]
  BY <1>1, <1>2, <1>3, <1>4 DEF ClusterTypeOK
<1>6. ClusterTyped'
  BY <1>1, <1>3, <1>5 DEF ClusterTyped, ClusterTypeOK
<1> QED BY <1>3, <1>6 DEF IInv, SyncTyped, DocumentInv, AnswerInv, syncVars

LEMMA ExpireKeeps == ASSUME IInv, Expire, UNCHANGED syncVars PROVE IInv'
BY DEF Expire, IInv, ClusterTyped, ClusterTypeOK, SyncTyped, DocumentInv, AnswerInv, syncVars

-----------------------------------------------------------------------------
(* The sync.                                                                 *)

\* A step of the sync that reads, or that patches a pod.
LEMMA SyncMoves ==
  ASSUME IInv, ClusterTypeOK', UNCHANGED <<lb, passing, doc, remade>>, SyncTyped', AnswerInv'
  PROVE  IInv'
BY DEF IInv, ClusterTyped, DocumentInv

\* The sync is at rest again, or done with the Ingress it is at.
LEMMA RestTyped ==
  ASSUME SyncTyped, remade' \subseteq Service, fit' \subseteq Node, Idle \/ NextIngress
  PROVE  SyncTyped' /\ AnswerInv'
BY NoneAssumption DEF SyncTyped, AnswerInv, Idle, NextIngress, Place

\* UpdateBackends leaves the document right about all sets that are not on record; the set
\* it is for has the backends that were read, unless it is on record.
LEMMA UpdateBackendsKeeps ==
  ASSUME IInv, NEW s \in Set, UpdateBackends(s)
  PROVE  /\ ClusterTyped' /\ DocumentInv' /\ remade' \subseteq Service
         /\ s \notin remade' => lb'[s] = got
<1>1. /\ ClusterTypeOK /\ passing \in [Set -> Backends] /\ DocumentInv
      /\ got \in Backends /\ remade \subseteq Service
  BY DEF IInv, ClusterTyped, SyncTyped, Backends
<1>2. /\ Document[s] # None /\ (Document[s] = got \/ Document = lb)
      /\ remade' = IF Document = lb THEN remade \ {s} ELSE remade
      /\ UNCHANGED <<instance, left, ingresses, default, services, pods, listed, born, nodes>>
  BY DEF UpdateBackends, Updatable
<1>3. CASE Document[s] = got
  <2>1. doc' = Document /\ UNCHANGED <<lb, passing>>
    BY <1>3 DEF UpdateBackends
  <2>2. ClusterTyped'
    BY <1>1, <1>2, <2>1 DEF ClusterTyped, ClusterTypeOK, Document
  <2>3. CASE Document = lb
    BY <1>1, <1>2, <1>3, <2>1, <2>2, <2>3 DEF DocumentInv
  <2>4. CASE Document # lb
    <3>1. doc # None /\ Document = doc /\ doc' = doc /\ remade' = remade
      BY <1>2, <2>1, <2>4 DEF Document
    <3> QED BY <1>1, <1>3, <2>1, <2>2, <3>1 DEF DocumentInv
  <2> QED BY <2>3, <2>4
<1>4. CASE Document[s] # got
  <2>1. /\ lb' = [lb EXCEPT ![s] = got] /\ passing' = [passing EXCEPT ![s] = passing[s] \cap got]
        /\ doc' = lb'
    BY <1>4 DEF UpdateBackends
  <2>2. /\ lb' \in [Set -> Backends \cup {None}] /\ lb'[s] = got /\ got # None
        /\ passing'[s] \subseteq got
        /\ \A t \in Set \ {s} : lb'[t] = lb[t] /\ passing'[t] = passing[t]
    BY <1>1, <2>1, NoneAssumption DEF ClusterTypeOK
  <2>3. \A t \in Set : passing'[t] \subseteq IF lb'[t] = None THEN {} ELSE lb'[t]
    BY <1>1, <2>2 DEF ClusterTypeOK
  <2>4. passing[s] \cap got \in Backends
    BY <1>1 DEF Backends
  <2>5. passing' \in [Set -> Backends]
    BY <1>1, <2>1, <2>4
  <2>6. ClusterTyped'
    BY <1>1, <1>2, <2>1, <2>2, <2>3, <2>5 DEF ClusterTyped, ClusterTypeOK
  <2> QED BY <1>1, <1>2, <2>1, <2>2, <2>6 DEF DocumentInv
<1> QED BY <1>3, <1>4

LEMMA StartKeeps == ASSUME IInv, Start PROVE IInv'
<1>1. ClusterTypeOK' /\ UNCHANGED <<lb, passing, doc, remade>>
  BY DEF Start, clusterVars, IInv, ClusterTyped, ClusterTypeOK
<1>2. SyncTyped' /\ AnswerInv'
  BY NoneAssumption DEF Start, clusterVars, IInv, ClusterTyped, ClusterTypeOK, SyncTyped, AnswerInv, Place, FitNodes
<1> QED BY <1>1, <1>2, SyncMoves

LEMMA ReadKeeps == ASSUME IInv, NEW i \in Ingress, Read(i) PROVE IInv'
<1>1. ClusterTypeOK' /\ UNCHANGED <<lb, passing, doc, remade>>
  BY DEF Read, clusterVars, IInv, ClusterTyped, ClusterTypeOK
<1>2. got' \subseteq Address
  BY AddressesTyped DEF Read, Backends, IInv, ClusterTyped, SyncTyped
<1>3. SyncTyped' /\ AnswerInv'
  BY <1>2, NoneAssumption DEF Read, IInv, SyncTyped, AnswerInv, Place
<1> QED BY <1>1, <1>3, SyncMoves

LEMMA UpdateKeeps == ASSUME IInv, Update PROVE IInv'
<1>1. pc = "update" /\ UpdateBackends(ServiceOf[at]) /\ fit' = fit
  BY DEF Update
<1>2. at \in Ingress /\ ServiceOf[at] \in Set /\ SyncTyped
  BY <1>1, BackendAssumption, ServiceInSet DEF IInv, SyncTyped
<1>3. /\ ClusterTyped' /\ DocumentInv' /\ remade' \subseteq Service
      /\ ServiceOf[at] \notin remade' => lb'[ServiceOf[at]] = got
  BY <1>1, <1>2, UpdateBackendsKeeps
<1>4. CASE Mode = "pods"
  <2>1. pc' = "health" /\ UNCHANGED <<todo, at, got, answer>>
    BY <1>4 DEF Update
  <2>2. SyncTyped' /\ AnswerInv'
    BY <1>1, <1>2, <1>3, <2>1 DEF SyncTyped, AnswerInv, Place
  <2> QED BY <1>3, <2>2 DEF IInv
<1>5. CASE Mode # "pods"
  <2>1. NextIngress
    BY <1>5 DEF Update
  <2>2. SyncTyped' /\ AnswerInv'
    BY <1>1, <1>2, <1>3, <2>1, RestTyped DEF SyncTyped
  <2> QED BY <1>3, <2>2 DEF IInv
<1> QED BY <1>4, <1>5

\* The answer is about every backend the set has when it is asked for.
LEMMA HealthKeeps == ASSUME IInv, Health PROVE IInv'
<1>1. ClusterTypeOK' /\ UNCHANGED <<lb, passing, doc, remade>> /\ fit' = fit
  BY DEF Health, clusterVars, IInv, ClusterTyped, ClusterTypeOK
<1>2. SyncTyped /\ pc = "health" /\ at \in Ingress
  BY DEF Health, IInv, SyncTyped
<1>3. CASE got = {}
  <2>1. NextIngress
    BY <1>3 DEF Health
  <2> QED BY <1>1, <1>2, <2>1, RestTyped, SyncMoves DEF SyncTyped
<1>4. CASE got # {}
  <2> DEFINE s == ServiceOf[at]
  <2>1. /\ answer' = [failing |-> lb[s] \ passing[s], passing |-> passing[s]]
        /\ pc' = "pods" /\ UNCHANGED <<todo, at, got>>
    BY <1>4 DEF Health
  <2>2. SyncTyped'
    BY <1>1, <1>2, <1>4, <2>1 DEF SyncTyped, Place
  <2>3. answer'.failing \cup answer'.passing = lb[s] \cup passing[s]
    BY <2>1
  <2>4. s \notin remade => lb[s] = got
    BY <1>2 DEF IInv, AnswerInv
  <2>5. AnswerInv'
    BY <1>1, <2>1, <2>3, <2>4 DEF AnswerInv
  <2> QED BY <1>1, <2>2, <2>5, SyncMoves
<1> QED BY <1>3, <1>4

LEMMA EnsureConditionKeeps ==
  ASSUME IInv, NEW p \in Pod, NEW uid \in Uid, EnsureCondition(p, uid) PROVE IInv'
<1>1. /\ pc = "pods" /\ <<p, uid>> \in got /\ at \in Ingress /\ SyncTyped /\ ClusterTypeOK
      /\ UNCHANGED <<instance, left, ingresses, default, services, listed, born, nodes>>
      /\ UNCHANGED <<lb, passing, doc, fit, remade>>
  BY DEF EnsureCondition, IInv, SyncTyped, ClusterTyped
<1>2. pods' \in [Pod -> PodState \cup {None}]
  <2>1. CASE UNCHANGED pods
    BY <1>1, <2>1 DEF ClusterTypeOK
  <2>2. CASE PatchCondition(p, uid)
    <3>1. PICK b : /\ pods' = [pods EXCEPT ![p].true = b] /\ b \subseteq pods[p].true \cup {at}
      BY <2>2 DEF PatchCondition
    <3>2. pods[p] \in PodState
      BY <1>1, <2>2 DEF ClusterTypeOK, PatchCondition, Alive
    <3>3. [pods[p] EXCEPT !.true = b] \in PodState
      BY <1>1, <3>1, <3>2 DEF PodState
    <3> QED BY <1>1, <3>1, <3>3 DEF ClusterTypeOK
  <2> QED BY <2>1, <2>2 DEF EnsureCondition
<1>3. ClusterTypeOK'
  BY <1>1, <1>2 DEF ClusterTypeOK
<1>4. CASE got = {<<p, uid>>}
  <2>1. NextIngress
    BY <1>4 DEF EnsureCondition
  <2> QED BY <1>1, <1>3, <2>1, RestTyped, SyncMoves DEF SyncTyped
<1>5. CASE got # {<<p, uid>>}
  <2>1. got' = got \ {<<p, uid>>} /\ UNCHANGED <<pc, todo, at, answer>>
    BY <1>5 DEF EnsureCondition
  <2>2. got' # {}
    BY <1>1, <1>5, <2>1
  <2>3. SyncTyped' /\ AnswerInv'
    BY <1>1, <2>1, <2>2 DEF SyncTyped, IInv, AnswerInv
  <2> QED BY <1>1, <1>3, <2>3, SyncMoves
<1> QED BY <1>4, <1>5

LEMMA DefaultKeeps == ASSUME IInv, ReadDefault \/ UpdateDefault PROVE IInv'
<1>1. SyncTyped /\ ClusterTypeOK
  BY DEF IInv, ClusterTyped
<1>2. CASE ReadDefault
  <2>1. ClusterTypeOK' /\ UNCHANGED <<lb, passing, doc, remade>> /\ pc = "next"
    BY <1>1, <1>2 DEF ReadDefault, clusterVars, ClusterTypeOK
  <2>2. CASE DefaultReadable
    <3>1. pc' = "default" /\ got' \subseteq Address /\ UNCHANGED <<todo, at, fit, answer>>
      BY <1>1, <1>2, <2>2, DefaultAddressesTyped DEF ReadDefault
    <3>2. SyncTyped' /\ AnswerInv'
      BY <1>1, <2>1, <3>1 DEF SyncTyped, AnswerInv, Place
    <3> QED BY <2>1, <3>2, SyncMoves
  <2>3. CASE ~DefaultReadable
    <3>1. Idle /\ fit' \subseteq Node
      BY <1>2, <2>3 DEF ReadDefault, Idle
    <3> QED BY <1>1, <2>1, <3>1, RestTyped, SyncMoves DEF SyncTyped
  <2> QED BY <2>2, <2>3
<1>3. CASE UpdateDefault
  <2>1. UpdateBackends(DefaultSet) /\ Idle /\ fit' \subseteq Node
    BY <1>3 DEF UpdateDefault, Idle
  <2>2. ClusterTyped' /\ DocumentInv' /\ remade' \subseteq Service
    BY <2>1, ServiceInSet, UpdateBackendsKeeps
  <2> QED BY <1>1, <2>1, <2>2, RestTyped DEF IInv
<1> QED BY <1>2, <1>3

LEMMA EndKeeps == ASSUME IInv, Fail \/ Restart PROVE IInv'
<1>1. /\ SyncTyped /\ ClusterTyped /\ DocumentInv
      /\ UNCHANGED <<instance, ingresses, default, services, pods, listed, born, nodes, lb, passing, remade>>
      /\ Idle /\ fit' \subseteq Node
      /\ doc' \in {doc, None}
      /\ left' = left \/ Event
  BY DEF Fail, Restart, Idle, IInv
<1>2. ClusterTyped'
  BY <1>1 DEF ClusterTyped, ClusterTypeOK, Event
<1>3. DocumentInv'
  BY <1>1 DEF DocumentInv
<1> QED BY <1>1, <1>2, <1>3, RestTyped DEF IInv, SyncTyped

LEMMA StepKeeps == IInv /\ [Next]_vars => IInv'
<1> SUFFICES ASSUME IInv, [Next]_vars PROVE IInv'
  OBVIOUS
<1>1. CASE Sync
  BY <1>1, StartKeeps, ReadKeeps, UpdateKeeps, HealthKeeps, EnsureConditionKeeps, DefaultKeeps, EndKeeps DEF Sync
<1>2. CASE Restart
  BY <1>2, EndKeeps
<1>3. CASE UserStep /\ UNCHANGED syncVars
  BY <1>3, UserKeeps
<1>4. CASE IngressController /\ RecordSets /\ UNCHANGED <<pc, todo, at, fit, got, answer>>
  BY <1>4, IngressControllerKeeps
<1>5. CASE (\E p \in Pod : Watch(p)) /\ UNCHANGED syncVars
  BY <1>5, WatchKeeps
<1>6. CASE (\E s \in Set, p \in Pod, uid \in Uid : Probe(s, p, uid)) /\ UNCHANGED syncVars
  BY <1>6, ProbeKeeps
<1>7. CASE Expire /\ UNCHANGED syncVars
  BY <1>7, ExpireKeeps
<1>8. CASE UNCHANGED vars
  <2>1. ClusterTypeOK'
    BY <1>8 DEF vars, clusterVars, IInv, ClusterTyped, ClusterTypeOK
  <2> QED BY <1>8, <2>1, ClusterMoves DEF vars, clusterVars
<1> QED BY <1>1, <1>2, <1>3, <1>4, <1>5, <1>6, <1>7, <1>8 DEF Next

-----------------------------------------------------------------------------
(* The theorems.                                                             *)

\* Whatever users, pods, health checks, the ingress controller and faults do between the
\* steps of a sync.
THEOREM Invariance == Spec => []IInv
BY Initially, StepKeeps, PTL DEF Spec

\* What the sync of backend.go and nodeBackend.go holds at each place.
THEOREM TypesOK == Spec => []TypeOK
<1>1. IInv => TypeOK
  BY TypeParts DEF IInv, ClusterTyped
<1> QED BY <1>1, Invariance, PTL

\* Only ensurePodReadinessCondition makes a condition true.
LEMMA OnlyConditions ==
  ASSUME IInv, [Next]_vars, NEW p \in Pod, NEW i \in Ingress, NewlyTrue(p, i)
  PROVE  \E q \in Pod, uid \in Uid : EnsureCondition(q, uid)
<1> SUFFICES ASSUME \A q \in Pod, uid \in Uid : ~EnsureCondition(q, uid) PROVE FALSE
  OBVIOUS
<1>1. pods' # pods
  BY DEF NewlyTrue
<1>2. ~Restart /\ ~Expire /\ ~UNCHANGED vars /\ ~IngressController /\ ~Sync
      /\ (\A q \in Pod : ~Watch(q)) /\ \A s \in Set, q \in Pod, uid \in Uid : ~Probe(s, q, uid)
  BY <1>1 DEF Restart, Expire, vars, clusterVars, IngressController, Make, Drop, Watch, Probe,
     Sync, Start, Update, UpdateBackends, Health, ReadDefault, UpdateDefault, Fail, Read
<1>3. PICK q \in Pod : CreatePod(q) \/ DeletePod(q)
  BY <1>1, <1>2 DEF Next, UserStep, EditIngress, EditDefault, EditService, EditNode
<1>4. pods \in [Pod -> PodState \cup {None}]
  BY DEF IInv, ClusterTyped, ClusterTypeOK
<1>5. CASE CreatePod(q)
  <2>1. pods[q] = None /\ pods' = [pods EXCEPT ![q] = NewPod(q, born'[q])]
    BY <1>5 DEF CreatePod
  <2> QED BY <1>4, <2>1 DEF NewlyTrue
<1>6. CASE DeletePod(q)
  <2>1. pods' = [pods EXCEPT ![q] = None]
    BY <1>6 DEF DeletePod
  <2> QED BY <1>4, <2>1 DEF NewlyTrue
<1> QED BY <1>3, <1>5, <1>6

\* A gate is answered with True only for a backend that passed the health check of a set
\* that had it as a backend: ensurePodReadinessCondition comes after UpdateBackends.
THEOREM ServedBeforeReady == Spec => ReadyWasServed
<1>1. ASSUME IInv, [Next]_vars, NEW p \in Pod, NEW i \in Ingress, NewlyTrue(p, i)
      PROVE  ServiceOf[i] \in remade \/ \E uid \in Uid : <<p, uid>> \in got \cap answer.passing
  <2>1. PICK q \in Pod : \E uid \in Uid : EnsureCondition(q, uid)
    BY <1>1, OnlyConditions
  <2>2. PICK uid \in Uid : EnsureCondition(q, uid)
    BY <2>1
  <2>3. pc = "pods" /\ <<q, uid>> \in got /\ pods' # pods
    BY <1>1, <2>2 DEF EnsureCondition, NewlyTrue
  <2>4. Differs(q, uid) /\ PatchCondition(q, uid)
    BY <2>2, <2>3 DEF EnsureCondition
  <2>5. pods' = [pods EXCEPT ![q].true = IF <<q, uid>> \in answer.failing THEN pods[q].true \ {at}
                                                                      ELSE pods[q].true \cup {at}]
    BY <2>4 DEF PatchCondition
  <2>6. pods \in [Pod -> PodState \cup {None}] /\ pods[q] # None
    BY <1>1, <2>4 DEF IInv, ClusterTyped, ClusterTypeOK, PatchCondition, Alive
  <2>7. pods[q] \in PodState /\ \A r \in Pod \ {q} : pods'[r] = pods[r]
    BY <2>5, <2>6
  <2>8. p = q
    BY <1>1, <2>7 DEF NewlyTrue
  <2>9. pods'[q].true = IF <<q, uid>> \in answer.failing THEN pods[q].true \ {at} ELSE pods[q].true \cup {at}
    BY <2>5, <2>6, <2>7 DEF PodState
  <2>10. <<q, uid>> \notin answer.failing /\ i = at
    BY <1>1, <2>8, <2>9 DEF NewlyTrue
  <2>11. ServiceOf[at] \notin remade => got \subseteq answer.failing \cup answer.passing
    BY <1>1, <2>3 DEF IInv, AnswerInv
  <2> QED BY <2>3, <2>8, <2>10, <2>11
<1>2. IInv /\ [Next]_vars =>
        [\A p \in Pod, i \in Ingress :
           NewlyTrue(p, i) => \/ ServiceOf[i] \in remade
                              \/ \E uid \in Uid : <<p, uid>> \in got \cap answer.passing]_vars
  BY <1>1
<1> QED BY <1>2, Invariance, PTL DEF Spec, ReadyWasServed
=============================================================================
