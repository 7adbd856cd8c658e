-------------------------- MODULE IngressReconcile --------------------------
(***************************************************************************)
(* The ingress controller (pkg/controllers/ingress/ingress.go): workers    *)
(* sync one Ingress each, side by side, on one load balancer. The calls of *)
(* the load balancer client are CachedLoadBalancer's; the queue is the set *)
(* of pending keys of PendingKeys, each taken by one worker at a time,     *)
(* which ControllerQueue implements.                                       *)
(*                                                                         *)
(* A worker reads the Ingresses first (BuildState), then the load          *)
(* balancer, and then makes it so, call by call: "stage" creates backend   *)
(* sets, "change" creates listeners and deletes the listeners and backend  *)
(* sets that no Ingress of the class asks for. For an Ingress that is      *)
(* being deleted (handleIngressDelete) there is nothing to create, and its *)
(* finalizer goes last.                                                    *)
(***************************************************************************)
EXTENDS IngressGroup, Naturals

CONSTANTS Worker,
          NoIngress,  \* what a worker between two syncs holds
          MaxChanges, \* bound: changes users make to the Ingresses
          MaxFaults,  \* bound: failures of the API server, the service or the
                      \* controller, and late answers
          MaxEvents   \* bound: both together

ASSUME ReconcileAssumption ==
  /\ MaxChanges \in Nat /\ MaxFaults \in Nat /\ MaxEvents \in Nat
  /\ NoIngress \notin Ingress
  /\ Listener \cap BackendSet = {}

VARIABLES
  pending,  \* ingresses a sync is due for (queued, waiting or dirty)
  dropped,  \* history: given up, without a change or a good sync since
  vanished, \* history: deleted before a sync gave them the finalizer, and not
            \* missed by a state built since
  missed,   \* history: changed while a sync of another was past its build, or
            \* with something taken to be there that was not, or deleted by a
            \* late request; and not changed since without one
  astray,   \* history: listeners and backend sets a sync passed over that the
            \* cached document did not show, or that a late request created;
            \* and not found by a sync since
  pc, item, \* per worker: where it is, and the ingress it syncs
  deletes,  \* per worker: the sync is of an ingress being deleted
  built,    \* per worker: the state built, until the last set is computed from it
  todo,     \* per worker: what its loops have left
  changes, faults \* counted against the bounds

syncVars    == <<pc, item, deletes, built, todo>>
ingressVars == <<pending, dropped, vanished, missed, astray, syncVars, changes, faults>>

NothingBuilt == [i \in Ingress |-> {}]
Nothing      == [stage |-> {}, listen |-> {}, create |-> {}, unlisten |-> {}, unstage |-> {}]

\* The informer's first list is an event for every Ingress there is.
Listed == {i \in Ingress : ingresses[i] # Gone}

IngressReconcileInit ==
  /\ pending = Listed /\ dropped = {} /\ vanished = {} /\ missed = {} /\ astray = {}
  /\ pc = [w \in Worker |-> "take"]
  /\ item = [w \in Worker |-> NoIngress]
  /\ deletes = [w \in Worker |-> FALSE]
  /\ built = [w \in Worker |-> NothingBuilt]
  /\ todo = [w \in Worker |-> Nothing]
  /\ changes = 0 /\ faults = 0

\* A change by a user, and a fault, as far as the bounds go.
Changing == changes < MaxChanges /\ changes + faults < MaxEvents /\ changes' = changes + 1
Failing  == faults < MaxFaults /\ changes + faults < MaxEvents /\ faults' = faults + 1

\* An event of an ingress: its key is added to the queue.
Enqueue(i) == pending' = pending \cup {i} /\ dropped' = dropped \ {i}

Goto(w, place) == pc' = [pc EXCEPT ![w] = place]

\* Mutant: the worker does not let go of its key.
LeaveHolding(w) ==
  /\ Goto(w, "take")
  /\ UNCHANGED item
  /\ deletes' = [deletes EXCEPT ![w] = FALSE]
  /\ built' = [built EXCEPT ![w] = NothingBuilt]
  /\ todo' = [todo EXCEPT ![w] = Nothing]

\* What a sync knows ends with it, and its key is done.
Leave(w) ==
  /\ Goto(w, "take")
  /\ item' = [item EXCEPT ![w] = NoIngress]
  /\ deletes' = [deletes EXCEPT ![w] = FALSE]
  /\ built' = [built EXCEPT ![w] = NothingBuilt]
  /\ todo' = [todo EXCEPT ![w] = Nothing]

-----------------------------------------------------------------------------
(* The users.                                                                *)

\* A sync of another Ingress goes by a state built before now.
Overtaken(i) == \E w \in Worker : pc[w] \notin {"take", "build"} /\ item[w] # i

SetIngress(i, phase, spec) ==
  /\ Changing
  /\ ingresses' = [ingresses EXCEPT ![i] = [phase |-> phase, spec |-> spec]]
  /\ vanished' = IF phase = "gone" THEN vanished \cup {i} ELSE vanished
  /\ missed' = IF Overtaken(i) THEN missed \cup {i} ELSE missed \ {i}
  /\ Enqueue(i)
  /\ UNCHANGED <<clientVars, astray, syncVars, faults>>

Apply(i) ==
  /\ ingresses[i].phase = "gone"
  /\ \E spec \in Specs[i] : SetIngress(i, "new", spec)

Edit(i) ==
  /\ ingresses[i].phase \in {"new", "held"}
  /\ \E spec \in Specs[i] \ {ingresses[i].spec} : SetIngress(i, ingresses[i].phase, spec)

Delete(i) ==
  \/ ingresses[i].phase = "new" /\ SetIngress(i, "gone", {})
  \/ ingresses[i].phase = "held" /\ SetIngress(i, "deleting", ingresses[i].spec)

\* A retry and an event may each bring a key back: it is synced once more than
\* there are changes.
DueAgain(i) ==
  /\ i \notin pending
  /\ Failing
  /\ Enqueue(i)
  /\ UNCHANGED <<clientVars, ingresses, vanished, missed, astray, syncVars, changes>>

-----------------------------------------------------------------------------
(* A sync: reading.                                                          *)

\* sync: an ingress that is gone needs nothing. ensureFinalizer comes before
\* anything of the ingress is put on the load balancer; its patch, like the
\* address ensureLoadBalancerIP writes, is an event of the key in process.
Take(w, i) ==
  /\ pc[w] = "take"
  /\ i \in pending /\ \A v \in Worker : item[v] # i
  /\ IF ingresses[i].phase = "gone" THEN UNCHANGED syncVars
     ELSE /\ item' = [item EXCEPT ![w] = i]
          /\ deletes' = [deletes EXCEPT ![w] = ingresses[i].phase = "deleting"]
          /\ Goto(w, "build")
          /\ UNCHANGED <<built, todo>>
  /\ IF ingresses[i].phase = "new"
       THEN ingresses' = [ingresses EXCEPT ![i].phase = "held"] /\ UNCHANGED pending
       ELSE pending' = pending \ {i} /\ UNCHANGED ingresses
  /\ UNCHANGED <<clientVars, dropped, vanished, missed, astray, changes, faults>>

Build(w) ==
  /\ pc[w] = "build"
  /\ built' = [built EXCEPT ![w] = BuildState]
  /\ Goto(w, "read")
  /\ vanished' = {}
  /\ UNCHANGED <<clientVars, ingresses, pending, dropped, missed, astray>>
  /\ UNCHANGED <<item, deletes, todo, changes, faults>>

\* GetLoadBalancer. The backend sets to delete are taken from this read, the
\* listeners too unless a backend set is missing. (The existing backend sets are
\* brought up to date here, by syncBackendSet: a change within a backend set.)
Read(w) ==
  LET sets     == IF deletes[w] THEN {} ELSE IngressBackendSets(built[w], item[w])
      ports    == IF deletes[w] THEN {} ELSE IngressListeners(built[w], item[w])
      staged   == sets \ BackendSetsIn(cache)
      unlisten == IF staged = {} THEN ListenersIn(cache) \ AllListeners(built[w]) ELSE {}
      unstage  == BackendSetsIn(cache) \ AllBackendSets(built[w])
      listened == IF staged = {} THEN ListenersIn(document) \ AllListeners(built[w]) ELSE {}
  IN  /\ pc[w] = "read"
      /\ todo' = [todo EXCEPT ![w] =
           [stage    |-> staged,
            listen   |-> IF staged = {} THEN ports \ ListenersIn(cache) ELSE {},
            create   |-> {},
            unlisten |-> unlisten,
            unstage  |-> unstage]]
      /\ missed' = IF /\ sets \cap BackendSetsIn(cache) \subseteq BackendSetsIn(document)
                      /\ staged = {} => ports \cap ListenersIn(cache) \subseteq ListenersIn(document)
                     THEN missed ELSE missed \cup {item[w]}
      /\ astray' = (astray \cup listened \cup (BackendSetsIn(document) \ AllBackendSets(built[w])))
                     \ (unlisten \cup unstage)
      /\ IF staged = {}
           THEN Goto(w, "change") /\ built' = [built EXCEPT ![w] = NothingBuilt]
           ELSE Goto(w, "stage") /\ UNCHANGED built
      /\ UNCHANGED <<clientVars, ingresses, pending, dropped, vanished>>
      /\ UNCHANGED <<item, deletes, changes, faults>>

\* RefreshLoadBalancer, after backend sets were created.
Refresh(w) ==
  LET unlisten == ListenersIn(document) \ AllListeners(built[w])
  IN  /\ pc[w] = "stage" /\ todo[w].stage = {}
      /\ Fetch
      /\ todo' = [todo EXCEPT
           ![w].listen   = IngressListeners(built[w], item[w]) \ ListenersIn(document),
           ![w].unlisten = unlisten]
      /\ astray' = astray \ unlisten
      /\ Goto(w, "change")
      /\ built' = [built EXCEPT ![w] = NothingBuilt]
      /\ UNCHANGED <<ingresses, pending, dropped, vanished, missed>>
      /\ UNCHANGED <<item, deletes, changes, faults>>

-----------------------------------------------------------------------------
(* A sync: the loops. Each turn is a call of the load balancer client.       *)

Turn(w, loop, name) ==
  /\ name \in todo[w][loop]
  /\ todo' = [todo EXCEPT ![w][loop] = @ \ {name}]
  /\ UNCHANGED <<ingresses, pending, dropped, vanished, pc, item, deletes, built, changes>>

\* A creation of what the cached document shows and a deletion of what it does
\* not show do nothing.
Ensure(w, kind, name, values) ==
  \E value \in values : Succeeds(w, [kind |-> kind, name |-> name, value |-> value])

\* After a creation, and after a deletion: is it there, is it not?
Created(w, name, there) ==
  /\ missed' = IF name \in there THEN missed ELSE missed \cup {item[w]}
  /\ UNCHANGED <<astray, faults>>

Deleted(name, there) ==
  /\ astray' = IF name \in there THEN astray \cup {name} ELSE astray
  /\ UNCHANGED <<missed, faults>>

CreateBackendSet(w, b) ==
  /\ pc[w] = "stage"
  /\ Turn(w, "stage", b)
  /\ Ensure(w, "CreateBackendSet", b, BackendSetValue)
  /\ Created(w, b, BackendSetsIn(document'))

\* A 409 from a load balancer busy with another request is taken for "already
\* exists": the sync goes on without the backend set.
CreateTakenAsDone(w, b) ==
  /\ pc[w] = "stage"
  /\ Turn(w, "stage", b)
  /\ missed' = missed \cup {item[w]}
  /\ Failing
  /\ UNCHANGED <<clientVars, astray>>

\* Before a listener is created the load balancer is read again.
RefreshListener(w, l) ==
  /\ pc[w] = "change" /\ todo[w].create = {}
  /\ l \in todo[w].listen
  /\ Fetch
  /\ todo' = [todo EXCEPT ![w].listen = @ \ {l}, ![w].create = {l} \ ListenersIn(document)]
  /\ UNCHANGED <<ingresses, pending, dropped, vanished, missed, astray>>
  /\ UNCHANGED <<pc, item, deletes, built, changes, faults>>

CreateListener(w, l) ==
  /\ pc[w] = "change"
  /\ Turn(w, "create", l)
  /\ Ensure(w, "CreateListener", l, Config)
  /\ Created(w, l, ListenersIn(document'))

\* The listeners to create are there.
Listening(w) == pc[w] = "change" /\ todo[w].listen \cup todo[w].create = {}

DeleteListener(w, l) ==
  /\ Listening(w)
  /\ Turn(w, "unlisten", l)
  /\ Ensure(w, "DeleteListener", l, {Absent})
  /\ Deleted(l, ListenersIn(document'))

DeleteBackendSet(w, b) ==
  /\ Listening(w) /\ todo[w].unlisten = {}
  /\ Turn(w, "unstage", b)
  /\ Ensure(w, "DeleteBackendSet", b, {Absent})
  /\ Deleted(b, BackendSetsIn(document'))

-----------------------------------------------------------------------------
(* A sync: the end.                                                          *)

\* handleErr(nil). deleteIngress removes the finalizer, and the object goes.
Finish(w) ==
  /\ pc[w] = "change" /\ todo[w] = Nothing
  /\ IF deletes[w]
       THEN ingresses' = [ingresses EXCEPT ![item[w]] = Gone] /\ Enqueue(item[w])
       ELSE dropped' = dropped \ {item[w]} /\ UNCHANGED <<ingresses, pending>>
  /\ Leave(w)
  /\ UNCHANGED <<clientVars, vanished, missed, astray, changes, faults>>

\* The calls of which the worker may make the next one.
InHand(w) ==
  IF pc[w] = "stage"
    THEN [kind : {"CreateBackendSet"}, name : todo[w].stage, value : BackendSetValue]
  ELSE IF ~Listening(w)
    THEN [kind : {"CreateListener"}, name : todo[w].create, value : Config]
  ELSE IF todo[w].unlisten # {}
    THEN [kind : {"DeleteListener"}, name : todo[w].unlisten, value : {Absent}]
  ELSE [kind : {"DeleteBackendSet"}, name : todo[w].unstage, value : {Absent}]

\* The service refuses to delete a backend set a routing policy still forwards
\* to, and to create a listener that is there; for that the cache is renewed.
Refused(w) ==
  /\ \E call \in InHand(w) : Refuses(call)
  /\ IF todo[w].create = {} THEN UNCHANGED clientVars ELSE Fetch
  /\ UNCHANGED faults

\* Any call may fail, or take too long.
Broken(w) ==
  /\ Failing
  /\ \/ UNCHANGED late
     \/ \E call \in InHand(w) : Abandoned(call)
  /\ UNCHANGED <<document, cache, slow, waiting>>

\* Mutant: the error is logged, and that is all.
ErrorForgets(w) ==
  /\ pc[w] # "take"
  /\ Refused(w) \/ Broken(w)
  /\ Leave(w)
  /\ UNCHANGED <<ingresses, pending, dropped, vanished, missed, astray, changes>>

\* handleErr of an error: the key is tried again, or dropped after five times.
Error(w) ==
  /\ pc[w] # "take"
  /\ Refused(w) \/ Broken(w)
  /\ \/ pending' = pending \cup {item[w]} /\ UNCHANGED dropped
     \/ dropped' = dropped \cup ({item[w]} \ pending) /\ UNCHANGED pending
  /\ Leave(w)
  /\ UNCHANGED <<ingresses, vanished, missed, astray, changes>>

\* The controller is killed, wherever its workers are, and started again.
RestartIngress ==
  /\ Failing
  /\ pending' = Listed /\ dropped' = {} /\ missed' = {}
  /\ pc' = [w \in Worker |-> "take"]
  /\ item' = [w \in Worker |-> NoIngress]
  /\ deletes' = [w \in Worker |-> FALSE]
  /\ built' = [w \in Worker |-> NothingBuilt]
  /\ todo' = [w \in Worker |-> Nothing]
  /\ UNCHANGED <<ingresses, vanished, astray, changes>>

\* What a late request does behind the syncs' back.
LateIngress(call) ==
  /\ missed' = missed \cup
       {i \in Ingress : \/ call.kind = "DeleteListener" /\ call.name \in IngressListeners(BuildState, i)
                        \/ call.kind = "DeleteBackendSet" /\ call.name \in IngressBackendSets(BuildState, i)}
  /\ astray' = astray \cup (IF call.kind \in {"CreateListener", "CreateBackendSet"} THEN {call.name} ELSE {})
  /\ UNCHANGED <<ingresses, pending, dropped, vanished, syncVars, changes, faults>>

-----------------------------------------------------------------------------

UserStep == \E i \in Ingress : Apply(i) \/ Edit(i) \/ Delete(i)

\* A worker that waits for a work request does nothing else.
SyncStep(w) ==
  /\ w \notin waiting
  /\ \/ \E i \in Ingress : Take(w, i)
     \/ Build(w) \/ Read(w) \/ Refresh(w)
     \/ \E b \in BackendSet : CreateBackendSet(w, b) \/ CreateTakenAsDone(w, b) \/ DeleteBackendSet(w, b)
     \/ \E l \in Listener : RefreshListener(w, l) \/ CreateListener(w, l) \/ DeleteListener(w, l)
     \/ Finish(w) \/ Error(w)

\* Types; a worker holds an ingress exactly while it syncs it, no two the same.
IngressReconcileTypeOK ==
  /\ \A i \in Ingress : ingresses[i].phase \in IngressPhase /\ ingresses[i].spec \in Specs[i] \cup {{}}
  /\ pending \subseteq Ingress /\ dropped \subseteq Ingress
  /\ vanished \subseteq Ingress /\ missed \subseteq Ingress
  /\ astray \subseteq Listener \cup BackendSet
  /\ pc \in [Worker -> {"take", "build", "read", "stage", "change"}]
  /\ item \in [Worker -> Ingress \cup {NoIngress}] /\ deletes \in [Worker -> BOOLEAN]
  /\ built \in [Worker -> [Ingress -> SUBSET Path]]
  /\ todo \in [Worker -> [stage : SUBSET BackendSet, listen : SUBSET Listener,
                          create : SUBSET Listener, unlisten : SUBSET Listener,
                          unstage : SUBSET BackendSet]]
  /\ changes \in 0..MaxChanges /\ faults \in 0..MaxFaults
  /\ \A w \in Worker : pc[w] = "take" <=> item[w] = NoIngress
  /\ \A v, w \in Worker : v # w /\ item[v] = item[w] => item[v] = NoIngress
=============================================================================
