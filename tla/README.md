# A TLA+ development of the OCI native ingress controller

The controller makes an Oracle Cloud load balancer (LB) serve what the Ingress
objects of a Kubernetes cluster ask for. This directory holds TLA+ modules that
model its core, configurations with which TLC checks them, and proofs that TLAPS
checks. File names below are relative to `src/`.

* [The system](#the-system): the parts, their state, how they interact, what is hard
* [The modules](#the-modules): what models what, state by state and action by action
* [The runs](#the-runs): what each one asks, its bounds, and the answer
* [Where the code departs from what is said of it](#where-the-code-departs-from-what-is-said-of-it)
* [The proofs](#the-proofs)
* [What is not modelled](#what-is-not-modelled) and [the plan](#the-plan)

## The system

`main.go` starts one process; leader election lets one replica lead.
`server.SetUpControllers` (`pkg/server/server.go:66`) then starts four controllers,
each with a work queue and three workers, all of them using one
`LoadBalancerClient` with one cache:

| Part | State it keeps | Operations | What makes it correct |
|---|---|---|---|
| `LoadBalancerClient` (`pkg/loadbalancer/loadbalancer.go`) | `Cache`: per LB the last document read, its ETag and age | Create, Update, Delete of backend sets, listeners, routing policies; each reads the cached document (up to a minute old), decides, sends one request, polls its work request for at most five minutes, refreshes the cache | an update undoes nothing that others did; nil is returned only for what was done; every call returns |
| Work queues (`vendor/k8s.io/client-go/util/workqueue`, `processNextItem`, `handleErr`) | queue, dirty and processing sets, delaying channel and heap, failures per key | event handlers and `runPusher` add keys; workers take, sync, retry or drop them | no key in two workers; no change and no retry is lost |
| Ingress controller (`pkg/controllers/ingress/ingress.go`) | none between syncs; finalizers on Ingresses | `ensureIngress`: build the state of the class, read the LB, create or update backend sets and listeners, delete those nobody asks for; `deleteIngress` | what is asked for is there, what is not is gone, the finalizer goes last |
| Routing policy controller (`pkg/controllers/routingpolicy`) | none between syncs | every ten seconds: create, attach and update each listener's policy, detach and delete the others | every path is routed; no listener names a missing policy |
| State build (`pkg/state/ingressstate.go`) | `IngressGroupState`, for one sync | merge the Ingresses' settings for the listeners and backend sets they share, or refuse | no setting is silently lost; refusals have a reason |
| Ingress class controller (`pkg/controllers/ingressclass`) | the LB's id, tags and firewall id in annotations; finalizer | create the LB, keep shape, NSGs, names, tags, delete or clear it | one LB per class, none left behind |
| Backend controller, or node backend controller by the cluster's CNI (`pkg/controllers/backend`, `nodeBackend`), and the webhook (`pkg/podreadiness`) | none between syncs; readiness gates and conditions on pods | every ten seconds: the endpoints of each service, or nodes, into its backend set; pods' readiness conditions | backends follow the endpoints; a pod is called ready only when it is served, and then in the end |
| Certificates and CA bundles (`pkg/certificate`, `pkg/controllers/ingress/certificate_util.go`, `util.go`) | caches; hash tags on the resources | in the ingress controller's sync: create or update the resource of a secret, give it to the listener or backend set | a renewed secret is served |
| Certificate cleanup (`pkg/task/certificatecleanup`) | deletion times, in tags | once a day: mark what has no association, delete it after a grace period | no resource in use is deleted, no unused one stays |
| Firewall client (`pkg/waf`) | a cache of policies | in the class controller's sync: make the firewall of a class's LB, or delete it | a class with a policy has a firewall, one without has none |
| TLS policies (`pkg/tlspolicy`) | none | parse and stage policies | |
| Start-up, election, metrics (`main.go`, `pkg/server`, `pkg/metric`) | the lease | | one process writes at a time |

**How they interact.** The controllers never call each other. They share the
informers' listers (read at the start of a sync), the client's cache, and the LB
itself, where the order the service insists on (a policy names existing backend sets; a
backend set goes after the last policy that names it; a listener is there before a
policy is attached) comes about only because a refused call is tried again. The
ingress class controller hands the LB's id to the others in an annotation; until it is there
their syncs end with `ErrIngressClassNotReady`. The ingress controller's syncs and the cleanup task meet at the certificates
service: both replace all tags of a resource, the first with an ETag of its cache, the other with none.

**What is hard.** Nothing spans a sync: between the build of the state and the last call,
minutes may pass in which users change Ingresses and other workers change the LB.
Updates carry the ETag of a cached document, creations and deletions carry none. A
request that was accepted may fail, or be applied after its caller gave up. A sync may stop after any
of its calls. Whether a failure is tried again depends on the queue. `PROJECT.json` lists these
hazards at their lines, with the property that would catch each.

## The modules

### LoadBalancerDocument, LoadBalancerStore, LoadBalancerClient

`LoadBalancerDocument` says what the service stores (`Document`), what each call of the client
asks for (`Call`), when it has nothing to do (`Settled`) or cannot be made (`Missing`) on the document it
has read, the whole value its request carries (`NewValue`), and which requests
the service accepts (`Valid`). Contents are abstracted to what calls treat apart: a backend
set is its details and its list of backends, because `UpdateBackends` and
`UpdateBackendSetDetails` each copy the other half; a listener is its configuration and
its policy's name; a policy is the set of backend sets it forwards to. A policy has its
listener's name, as in `EnsureRoutingPolicy`.

`LoadBalancerStore` is the promise: one document, changed atomically, each change that of one call
on the document as it stands.

`LoadBalancerClient` is the code. A worker goes through the program points

| `pc` | code |
|---|---|
| `get`, `fill` | `GetLoadBalancer`: `ReadCached`, or `Fetch` and then `Fill`, two steps, since the mutex covers the map and not the GET |
| `send` | the call's body: `Skip`, `NotFound`, or one of the service's answers `Accept`, `AlreadyDone` (409/404), `TakenAsDone` (409 of a busy LB), `ListenerExists`, `Refused` |
| `wait` | `waitForWorkRequest`: `WaitSucceeded`, `WaitFailed`, `WaitAbandoned` (five minutes, or a failed poll) |
| `refresh`, `refill` | the refresh at the end; its failure is only logged |

`Return` passes to the next call of `EnsureRoutingPolicy` (find, create, attach, update the
rules) and of the detach-and-delete of a policy. The service (`Apply`, `Fail`) ends accepted requests in
any order, at any time, also after their callers left. `Expire` lets the cache entry grow old at any time.
`issued`, the outcome `assumed` and `since`
(the version a call has decided by, then the one its request was accepted at: the oldest that `NilMeansAchieved` lets a nil rest on) are history variables.

### PendingKeys, ControllerQueue

The client-go queue with its three structures, the delaying queue with its bounded channel
and its heap, the rate limiter's count, and the controllers' loop: `Get`, `Read` (the sync
reads the object), one of `Succeed`, `NotReady`, `Retry`, `GiveUp` (`handleErr`), `AddAfter` (blocks while the
channel is full), `Done`. Keys with event handlers are `Watched` (ingress, ingress class), the others are `Pushed`.
`Change` and `Notify` separate a change of the lister from the event that tells of it. `ShutDown` is `Run`'s.
Mapped lines are those of the ingress controller; the other four loops are the same text.

`PendingKeys` is what all this promises the controllers: a set of pending keys, to which keys are added at any time, from which a worker takes
one that no other worker has, and which only a queue that is shutting down forgets. `Pending` says where a pending key is in the code: its event is on its way, it is dirty, in the channel, in the heap, or in the hands of a
worker blocked in `AddAfter`.

### CachedLoadBalancer, IngressGroup, IngressReconcile, RoutingPolicyReconcile, Reconcile

`CachedLoadBalancer` is `LoadBalancerClient` as two controllers meet it. They share the client and its one document: `cache` is what
`GetLoadBalancer` gives out, and every call first looks there whether it has anything to do (`Settled`), finds what it needs (`Missing`) and takes its ETag. A call is one step, `Applied` or
not; the GET that follows it is another (`Refreshed`, or `RefreshLost`, which is only logged), during which its caller does nothing else (`waiting`). The cache is
renewed at any time after that (`Renew`: the minute is over), or overwritten by an older answer (`SlowAnswer`, `StoreSlow`). A call given up (`Abandoned`) leaves its request in `late`, to be applied at any time
(`LateApplies`), unless it carries an ETag and another change came first. What the one step loses is the time between decision and request: a decision on a document older than the cached one at the answer,
which is the same call with the cache renewed a moment later.

`IngressGroup`: the Ingresses of a class (`gone`, `new` without our finalizer, `held` with it, `deleting`)
and what the controllers compute from them. `IngressReconcile`: workers of the ingress controller.
`RoutingPolicyReconcile`: the routing policy controller's sync. `Reconcile` puts them on one LB, behind one client, with users, faults and restarts.

| `pc` of an ingress worker | code in `ingress.go` |
|---|---|
| `take` | `processNextItem`, `sync` up to `ensureFinalizer` |
| `build` | `BuildState` at 398 (577 for a deletion) |
| `read` | `GetLoadBalancer` at 415 (581): the cached document, the sets of what is to be done |
| `stage` | the loop that creates backend sets, then `RefreshLoadBalancer` |
| `change` | the loops that create listeners (each after a `RefreshLoadBalancer`: `RefreshListener`), delete listeners, delete backend sets; then the finalizer |

| `rpc` | code in `routingpolicy.go` |
|---|---|
| `idle` | between two syncs |
| `ensure`, `attach`, `rules` | the three calls of `EnsureRoutingPolicy` for one listener |
| `remove`, `delete` | detach from the listener, delete the policy |

Four history variables name what the code does not make good by itself: `vanished`, the Ingresses deleted without a finalizer since the last build, and `astray`, the listeners and backend sets that a sync
passed over because the cached document did not show them, or that a late request created (until a sync finds them), for `NoLeftovers`; `missed`, the Ingresses changed while a sync of another one was past its build (`Overtaken`), for
which something was taken to be there that was not (the cached document still showed it, or a busy LB answered 409: `CreateTakenAsDone`), or that a late request took something from, for `ServedUnlessMissed`; and `doubted`, the listeners
whose policy was taken to be there and was not (`PolicyTakenAsDone`, or the cached document), was deleted while the cached document did not show the listener, or was deleted late, for `NoDanglingPolicy`.

The queue is a set of pending keys, each with one worker at a time (`ControllerQueue` implements `PendingKeys`; that a key may be due twice, by an event and a retry, is `DueAgain`).
The controllers start (`Init`) on what an earlier run has left: some of the Ingresses served, with their policies; others applied since, or deleted.
Limits of the model: all Ingresses are HTTP ones with settings that agree; and a policy's rules are
the backend sets they name. An error of `BuildState`, of the lister or of the service, a 409 of a busy LB, a lost or slow GET and a request given up are counted faults (`Error`, `RoutingFault`, `ClientFault`), and so is `DueAgain`;
`MaxEvents` bounds changes and faults together.

### WebAppFirewall, IngressClassLifecycle

One IngressClass with the LB it owns. `class` is the object at the API server, `listed` the lister's copy; a sync works on the copy it took
(`sync.class`) to its end, also after its own patches, and knows by `sync.current` whether a patch with that copy's resource version would pass. Each call is a
step, after which a failure (`Fail`, `ClearFails`), a crash (`Crash`), an edit, an update by another controller (`Touch`) or a deletion by hand (`Lose`) may come.

| `sync.at` | code |
|---|---|
| `finalizer`, `ensure` | `ensureFinalizer`; the first `getLoadBalancer` and the parameters (`ensureLoadBalancer`) |
| `create`, `backfill`, `annotate` | `createLoadBalancer` with its retry token, the annotation of the default tags, that of the id |
| `check`, `tags`, `defaults` | `checkForIngressClassParameterUpdates`: second read, `UpdateLoadBalancer`, annotation |
| `refresh`, `shape` | third read, `UpdateLoadBalancerShape` with its ETag |
| `nsgs`, `updateNsgs` | `checkForNetworkSecurityGroupsUpdate`: fourth read, update |
| `firewall`, `makeFirewall`, `recordFirewall` | `setupWebApplicationFirewall`: the policy of the firewall that the copy names, creation, the annotation |
| `dropFirewall`, `forgetFirewall` | the same without a policy: deletion, whose error is dropped, and the annotation |
| `delete`, `deleteLb` or `clearFirewall`, `clearNsgs`, `clearSet`, `clearTags`, `unfinalize` | `deleteIngressClass` |

The tags stand for all that `UpdateLoadBalancer` sets; `NewTags` and `NewDefaults` are `getUpdatedDefinedAndImplicitDefaultTags` on sets of keys, without
the rule for values that contain tag variables. The checks of settings fixed at creation (reserved addresses) are left out. `WebAppFirewall` has the firewalls and the client's cache of policies; `firewalls` are made at most `MaxFirewalls` times, `adrift` (history) are those that a failed
step left unknown to the class. A load balancer is taken to have one firewall at most, which goes with it.
A retry token gives back the same LB for a day, which is taken to be longer than it takes to record its id (`ExpireToken`), and a request whose LB is gone is rejected until then.
A copy in the cache that is more than a minute old is as good as none.

### StateBuild

`BuildState` as a state machine, one path a step: `NextIngress` (health checker of the default backend set), `MergePath` (the
seven validations and the entries left), `PathUnresolved`, `Finish` (the TLS policies). An
Ingress is a record of what its annotations say, a value for each, with `Unset` for none and `Invalid` for
one that does not parse. Listeners and backend sets are already resolved names. The list of a listener's certificates, which the code
sorts, is a set.

### CertificateService, CertificateSync, CertificateCleanup, CertificateLifecycle

One TLS secret, the Ingresses that use it, and the OCI resource made from it: a certificate for a listener, or a CA bundle for a backend set
(`kind`). The resource is named after the secret's UID, so a secret that is deleted and made again has another.

`CertificateService` is the service with the controller's cache in front of it: one resource per name, whose ETag every change replaces, that of
the associations included. ETags are compared and not ordered, so a copy says only whether it is `current`. The tags are the hash of the content, or the
cleanup task's deletion time, ahead or past. `CertificateSync` is what one sync does, a step per call of the service and per access to the cache:

| `pc` | code |
|---|---|
| `create` | `CreateCertificate`, `CreateCaBundle`, with a retry token made of the name |
| `get` | `GetCertificate` through the cache, the comparison of hashes |
| `etag`, `send` | the second read, for its ETag; `UpdateCertificate` with If-Match |
| `refetch` | after a 409: `getCertificateBustCache`, then an error |
| `wait` | `waitForActiveCertificate` |
| `fill` | `SetCertCache`: the answer of the service and the store into the map are two steps |
| `prune` | `PruneCertificateVersions` (certificates only) |
| `use` | the listener's or the backend set's update |

`then` is what follows a wait or a fill. Each Ingress has one sync at a time and comes back by events, retries and restarts
(`pending`, as in `PendingKeys`, but an event and a retry are one), or is given up (`dropped`). `CertificateCleanup` is the daily round: `List`, `Check` of one resource's associations, `Mark`, `Delete`;
between any two of them the syncs go on. `CertificateLifecycle` puts them together. `misled` (a sync went by a copy that was no longer current, or by
an old secret, and no sync has put that right) and `late` (a resource was marked while it was in use or a sync had its id) are history variables: they name the windows the code
leaves open, which the section on [departures](#where-the-code-departs-from-what-is-said-of-it) describes.

### BackendCluster, BackendSync

`BackendCluster` is what the backend controllers work between: Ingresses, services, pods that are deleted and made again under their name (`uid`), nodes, the
pod lister, the LB's backend sets with the health of each backend, and the client's cached document (`doc`). The webhook is in `CreatePod`: the gates of a pod, fixed
when it is made, and the refusal when the service of a path is not found. `BackendSync` is a sync of a class, for pods (`backend.go`) or for nodes (`nodeBackend.go`):

| `pc` | code |
|---|---|
| `idle` | between two syncs of the pusher |
| `next` | `ensureBackendsForIngress`: the next path's addresses (`Read`), or `syncDefaultBackend` after the last |
| `update` | `UpdateBackends` on the document the client has |
| `health`, `pods` | `GetBackendSetHealth`; `ensurePodReadinessCondition`, one pod a step |
| `default` | `UpdateBackends` of the default backend set |

`UpdateBackends` does nothing if the cached document has the list it is given, and is refused if it does not and the document is old; documents are compared whole, in place of their ETags.
`Refused` are the calls that cannot succeed, `Fail` ends the sync at one of these or at a counted fault. Each Ingress has one path and each service one port. Listers of Ingresses, services and
endpoints show the present, that of pods lags behind.

## The runs

| Run | What it asks | Bounds | Distinct states |
|---|---|---|---|
| `backends` | can calls on one backend set undo each other (`ImplementsStore`), return nil undeservedly (`NilMeansAchieved`), pair a document with another's ETag (`SnapshotsGenuine`)? | 2 workers, 1 backend set, 2 details, 2 lists, 2 requests | 142,000 |
| `listeners` | can calls on a listener, its policy and the backend sets it forwards to undo each other, return nil undeservedly? | 2 workers, 1 listener, 2 backend sets, 2 requests | 815,000 |
| `queue` | are changes and retries kept, and read in the end, with event handlers and with the pusher; is it a set of pending keys (`ImplementsPendingKeys`)? | 2 keys (one watched, one pushed whose class may not be ready), 2 workers, 1 retry, channel of 1 | 181,000 |
| `reconcile` | is anything left over at rest (`NoLeftovers`, but for what [vanished](#where-the-code-departs-from-what-is-said-of-it) or went astray), or missing (`ServedUnlessMissed`, but for what was missed), does a listener ever use a missing policy (`NoDanglingPolicy`, but for the doubted)? | 2 Ingresses that share a listener and may share its backend sets, 2 ingress workers, 2 events: changes by users, at most 1 a fault, late request or restart; the cache grows old and is renewed at will | 3,986,000 |
| `reconcile_live` | do deletions complete, is every path routed? | 2 Ingresses that share nothing, 1 ingress worker, 1 change or fault, after the changes made before the start | 509,000 |
| `served` | is all that is asked for there at rest? **No** | 2 Ingresses, 2 workers, 2 changes, no fault | |
| `class` | is a load balancer forgotten or made twice (`NoneForgotten`), are default tags lost (`DefaultTagsKept`), is an LB deleted that was protected throughout (`ProtectedStays`), a recorded one left without a deletion (`DeletionAsked`), do the settings converge? | 2 LBs, 2 firewalls, 2 tags, 2 bandwidths, 1 NSG, 2 firewall policies, 1 edit and 1 deletion of the class, in either order, 1 fault | 780,000 |
| `not_found` | does a sync survive an LB that is deleted under it? **No** | as `class` | |
| `build` | which settings survive a build, and why is one refused? | groups of 3 Ingresses of 28 kinds, 2 listeners, 2 backend sets | 563,000 |
| `certificates` | is a renewal served at rest (`RenewedUnlessMisled`) and a deletion time taken back from what is used (`RestoredUnlessMisled`), is a sync with an old secret followed by another (`OldSecretRead`), do syncs end (`SyncsEnd`), does an unused resource go (`UnusedGoes`)? | 1 Ingress, 2 UIDs, 2 changes or faults; 2 Ingresses, 1 UID, 1 change or fault; certificate or CA bundle | 581,000 |
| `backend_sync` | is a gate answered with True only for a backend that passed its health check (`ReadyWasServed`), are gates answered (`GatesAnswered`), do backend sets follow the endpoints (`BackendsFollow`, `DefaultFollows`)? | four instances: up to 2 Ingresses, 2 pods with 2 lives each, 2 nodes, 1 to 3 changes, faults or restarts | 228,000 |
| `node_gates` | are gates answered whatever the CNI? **No** | 1 Ingress, 1 pod, nodes, 1 change | |

**Why the bounds are enough.** A lost update needs two writers and one document: two
requests, of which one may be applied late, after its caller gave up, while the other was built on what the first makes old. Two values of each
half of a backend set tell one writer's half from the other's. In the queue a key meets at
most itself (added while in process, waiting or given up), so a second key is there to fill the channel and take
the other worker; a channel of one is full at once, and with one retry both of `handleErr`'s branches are reached. In `reconcile` the second Ingress shares its listener
and backend set with the first, or only the listener; two changes are what it takes for a sync to hold a state that is old in two ways, or a change and a
fault, which may be an error, a busy LB, a lost or slow GET, a request given up, a key that is due again or a restart, at any point. Every exception
of the three properties comes up: without `astray`, `missed` or `doubted` TLC finds each of them violated. In `reconcile_live` a fault
meets the Ingresses applied or deleted before the start, at any point of the first syncs; in place of it a change comes. A key that a fault has had dropped leaves a listener out, whose policy then fails in every sync, while a deletion waits for another policy to go. Two faults in one deletion are left to the argument that faults are bounded and each sync starts from what it reads. What more users, changes or faults could do is for the proofs: they have none of these bounds. In `class` a second LB is what a forgotten token
would create (or what replaces a deleted one); one fault separates any two calls, the edit changes any setting, the LB or its tags while a sync works on an
older copy, and the lister may lag behind all of it. `Starts` has every set of tags, a class with a group to attach, and one with a firewall policy, each new or with an imported LB; an edit leads from one
to the other. A second firewall is that of an LB that was made again. In `build` three Ingresses are one more than a pairwise check sees: a setting
left open by the second must not come between the first and the third. In `certificates` a sync makes up to ten steps at
which a change, another sync or the cleanup task may come between; one Ingress with two changes has the secret renewed twice, or deleted and made again, while the resource of the first UID is
left to the cleanup task; two Ingresses that share a secret meet at one ETag. In `backend_sync` three changes are a pod's deletion, its re-creation under the same name,
and one more that comes between two steps of the sync that saw the first pod; the other instances have two pods that must both be answered, two Ingresses of which the first's error keeps the second waiting, and nodes as backends, with
one service of each traffic policy.

Symmetry is used among workers, keys and values in the runs that check safety only.
`build` switches off the deadlock check, since a build ends; so do `class` and `not_found`, since nothing is left to do once the class is gone, and
`certificates`, `backend_sync` and `node_gates`, since nothing may be left to do once the counted changes are used up.

**Fairness.** `ControllerQueue`: workers, handlers, ticker and waiting loop run, and a sync returns (whatever the service does: `waitForWorkRequest`
gives up after five minutes); senders blocked on a Go channel are served in order, hence strong fairness of
`AddAfter`; nothing is assumed of a sync's outcome. `Reconcile`: syncs go on, the pusher starts another,
a queued key is not passed over for ever (the queue is first in, first out), hence strong fairness of `Take`, and the cached
document is renewed (`Refreshing`), since it is used for a minute only; late requests are never forced.
`IngressClassLifecycle`: syncs go on (a failed or dropped key comes back with the informer's resync of
every minute, which `ingressClassUpdate` does not filter), the lister catches up, copies, tokens and cached policies grow old.
`CertificateLifecycle`: syncs and the daily task go on, the service ends what it has begun, days pass; that a cache entry grows old is left to chance, so
`SyncsEnd` does not rest on it. `BackendSync`: syncs go on, again and again, since the pusher adds every class each ten seconds; the lister and the health checks follow, and
the cached document grows old, without which a conflict would be met for ever.
Users and faults are bounded, and dropping a key is never forced; `DeletionCompletes` does not claim anything of a key that was dropped.

Each property has a mutant in `PROJECT.json`: a definition changed as a plausible bug would change it,
with which TLC finds the property false. The changed definitions stand before the right ones in the modules, under "Mutant".

## Where the code departs from what is said of it

* **`served`** (`ingress.go:563`). A sync deletes what it finds on the LB and does not find in its state, but the state was
  built before the LB was read, and the deletions carry no ETag. Worker 1 syncs the deletion of Ingress 1 and builds the state; Ingress 2 is edited to ask for the same
  listener; worker 1 deletes it; worker 2 syncs Ingress 2 by the cached document, in which the listener still is, and has nothing to do. (Or worker 2 comes first, finds the listener there, and worker 1 deletes it then.) Nothing is queued that would
  put it back: a resync of the informer does not enqueue an Ingress with an unchanged resource version. Ingress 2 is unserved until it
  is next edited, or the process starts again. `GettingStarted.md:660` promises a listener port for each service port. `ServedUnlessMissed` says how far this goes, by `missed`.
* **`not_found`** (`ingressclass.go:434`). For a 404 `getLoadBalancer` returns nil without an error, to "Redirect new LB creation" (line 234). Only its first caller in a sync
  does so; the three later reads use the result unchecked. If the LB is deleted between two of them, the nil is dereferenced and the process ends. The next
  process creates the LB, once the service accepts the retry token again.
* **`node_gates`** (`webhook.go:119`). The webhook gives pods readiness gates whatever the CNI. Only the backend controller answers gates; with flannel the node backend controller runs
  in its place and answers none, so that such a pod is never ready. `GettingStarted.md:68` names both CNIs, and line 484 makes no difference between them.

What else was met while modelling, and is in the modules as the code does it:

* An Ingress can leave something behind. Ingress 1 is applied and shares a listener with Ingress 2; Ingress 2 is deleted, and its sync builds its state while Ingress 1 is there, so it keeps the listener; Ingress 1 is deleted before
  its own sync gave it the finalizer. It is gone at once, its key finds nothing to do, and the listener stays until the next sync in the class builds its state (resyncs are ignored, `ingress.go:151`). It takes
  three changes by users, one more than the `reconcile` run has; the attempt to prove `NoLeftovers` found it. `NoLeftovers` excepts it by the history variable `vanished`: the Ingresses that went without a finalizer since the last build.
* Two more ways to leave something behind, or to miss something, come from the shared cache (`loadbalancer.go:341`, 386, 431, 919). The GET after a listener's creation fails, which is only logged (line 1021), and the Ingress is deleted within the
  minute: its cleanup does not see the listener, and the finalizer goes. Or the GET after a deletion fails, and an Ingress that asks for the same thing in the next minute is told it exists. And a request given up after five minutes may be applied after all
  (line 1008), creating or deleting behind everybody's back. `astray` and `missed` name what this can concern; the next sync that finds it removes the first, nothing brings back the second.
* `createRoutingPolicy` takes a 409 for "may be already present" (line 289), and the service also gives it when busy: `EnsureRoutingPolicy` then goes on to attach a policy that may not be there. Likewise a document that still shows a deleted policy has its creation skipped, one that does not
  show a listener lets the policy be deleted undetached. `doubted` names these listeners.
* Protection comes too late for a sync under way: `deleteIngressClass` decides by its copy of the class (`ingressclass.go:613`), so an LB whose class is annotated after its deletion was asked for may go. `ProtectedStays` claims what was protected ever since (`bare`).
* `handleErr` says a controller "retries 5 times ... After that, it stops trying". The routing policy and
  backend controllers' pusher adds every class again after ten seconds, and the count was reset when the key was dropped. (`ControllerQueue.Push`)
* `GettingStarted.md:841` says that conflicting health checkers for one backend set are refused. A checker with the default values, or none, replaces
  any other silently; in the other order of the Ingresses' names the build is refused (`ingressstate.go:427`). `SettingsHonoured` leaves them out.
* A renewal can be lost at rest, against `GettingStarted.md:557`. Two syncs read the resource, the older answer is stored last, and a sync within the next ten minutes compares the
  new secret's hash with it, or the old secret's sync writes last and its Ingress no longer uses the secret. Nothing queues the others then. These are the cases `misled` names.
* The cleanup task marks what had no association when it asked. A sync may have begun to use it since, or compare the hash tag in a copy of the cache: the resource is then in use with a deletion time, and the comment at
  `certificate_cleanup.go:164` that the tag will be removed does not hold until the next sync without the cache. The service refuses to delete a resource in use, so nothing breaks. These are the cases `late` names.
* A certificate whose creation failed, or that waits three days for its deletion, blocks its name: the list finds active ones only, the creation is refused. A CA bundle deleted by hand is looked up by
  the id the backend set has, and its 404 is returned at every sync.
* `ensurePodReadinessCondition` finds the pod by its name after `UpdateBackends` has waited. A pod that was replaced under its name meanwhile (a StatefulSet's) gets the condition of its predecessor's backend. `ReadyWasServed`
  therefore speaks of backends of the pod's name; for the pod itself it is false.
* The first Ingress with an error ends the sync of its class, so that later ones wait for it (`backend.go:182`): `BackendsFollow` supposes that all can be served. Ingresses with different default backends leave the default
  set as it was, and the error is dropped (line 187).
* A firewall keeps the policy it was made with. When the class names another, `GetFireWallId` makes another firewall, which an LB that has one refuses; `apierrors.IsConflict` does not know the service's errors (`waf.go:75`), so every
  sync ends with that error from then on, after all its other steps. The same holds when a firewall was made and its id not recorded. `Converges` therefore asks for a firewall, not for the policy.
* Gates are fixed when the pod is made, for Ingresses of any class. If the Ingress is edited the gate is never answered, and while any Ingress names a missing service, no pod at all is admitted (`webhook.go:83`).

## The proofs

All safety properties that the passing runs check are proved, and both refinements, for any number of Ingresses, workers, keys, names, values, requests, events and faults. What is assumed
is stated as `ASSUME` in the modules and is of four kinds: values that stand for "none" (`Absent`, `None`, `Unset`) differ from all others; a capacity or a
bound is a natural number, positive where the code needs one; sets of names are not empty or do not overlap; and the inputs (`Group`, `Starts`, `Instances`) have the shape the
module reads them with. TLC evaluates the assumptions in every run.

| Module | Proved | About |
|---|---|---|
| `LoadBalancerDocument_proofs` | lemmas | what a call puts in place of a resource; used by the next and by `Reconcile_proofs` |
| `LoadBalancerClient_proofs` | `TypeOK`, `SnapshotsGenuine`, `NilMeansAchieved`, `ImplementsStore` | the client implements the store |
| `ControllerQueue_proofs` | `TypeOK`, `OneWorkerPerKey`, `NoChangeForgotten`, `NoRetryForgotten`, `ImplementsPendingKeys` | the queue |
| `Reconcile_proofs` | `TypeOK`, `NoDanglingPolicy`, `NoLeftovers`, `ServedUnlessMissed` | the two controllers on one LB |
| `StateBuild_proofs` | `TypeOK`, `SettingsHonoured`, `RefusedForAReason`, `NamesClosed`, `CookieDecided` | `BuildState` |
| `IngressClassLifecycle_proofs` | `TypeOK`, `NoneForgotten`, `DefaultTagsKept`, `ProtectedStays`, `DeletionAsked` | one class and its LB |
| `CertificateLifecycle_proofs` | `TypeOK`, `OldSecretRead`, `RenewedUnlessMisled`, `RestoredUnlessMisled` | a secret, its resource, the cleanup task |
| `BackendSync_proofs` | `TypeOK`, `ReadyWasServed` (of steps) | backend sets, pods and their gates |

Each module defines `IInv`, shows that it holds initially and is kept by every action (one lemma for each action or group of actions, put together in `StepKeeps`), and derives the
properties from it. TLC checked each `IInv` on the instances of the runs before it was proved.

**The client.** `SnapshotsAreGenuine`, `NilIsEarned` and `ClientImplementsStore`, the last one for every step: it changes the LB as one call of
`LoadBalancerStore` would, or not at all. What makes If-Match sound is not in one
place, so none of these is inductive alone. The invariant has, besides the types: an ETag names one document
(and none is newer than the current one); cache and workers hold issued pairs; an accepted request that carries an If-Match carries the value its call would build from
the document issued under that ETag; and a worker that waits, waits for its own call's request. When such a request is applied its ETag
is the current one, so the document it was built from *is* the current one, and `Put` of its value is `LoadBalancerStore!Change`. Creations and deletions carry no ETag, but their values do not depend on the document. `NilIsEarned` goes through the version in which a request was applied, which is not older than the one it was accepted at; a call that had nothing to do, through the version it read.

**The queue.** `NeverInParallel`: the keys in `processing` are those the workers hold, the queue has no key twice and none in process, and a key on
the queue is dirty; a key is queued by `Add` only if it is not in process, and by `Done` when it no longer is. `ChangesKept` and `RetriesKept` follow the key from
place to place under that invariant. `QueueImplementsPendingKeys` does so for all keys at once: each step leaves the union of these places as it is, or adds the key it is about, or is `Get`, which takes it out of
`dirty` (it may still be in the heap, and is then due twice); only `Add` on a queue that is shutting down drops one. That the key taken has no other worker is the invariant again.

**The controllers on one load balancer.** Nothing is assumed of the cached document but its type (`ClientInv`): where it is wrong, the history variables say so. `PoliciesStay` needs the routing policy controller's place (`PolicyInv`): where it attaches or updates the policy of a
listener, the policy is there; where it deletes one, no listener has its name and no request that would still give it one is on its way; and of such requests, that they find their policy and listener as they were (`LateInv`), since any change would make their ETag void. All this but for the doubted.
`NothingLeft` needs to know who will come (`LeftoverInv`): for whatever is on the LB and in no Ingress, and not astray, a worker is
about to read the Ingresses, or has read that nobody asks for it, or has it in its loop of deletions; or a sync is still due, or a key was given up. A worker with an old state could break
this by creating what nobody asks for any more; `StaleInv` shows that its own key is queued again then, since what it creates is its own Ingress's. `HoldingInv` (who is in a sync holds an Ingress with our finalizer) makes that key's next sync find something to do.
The attempt to prove `NoLeftovers` without its exceptions failed for reasons, which are [above](#where-the-code-departs-from-what-is-said-of-it) with the other departures: the history variables name them.

`ServedUnlessOvertaken` is the other direction: here nobody comes to put things right, so that what is there must not be deleted. Two invariants carry it (`ServeInv`), each of the Ingresses that are not `missed`. `FreshInv`: whoever syncs goes by what such an
Ingress asks for now, and has none of it in its loops of deletions; or the Ingress is the sync's own, was changed during it, and is queued again (`Followed`). `ServedInv`: what such an Ingress asks for is on the load balancer, or the Ingress is queued or was given up (`Coming`), or its own sync is under
way and still has to create it. A change keeps both because it either puts the Ingress among the missed ones, or finds no other sync past its build; a call that does nothing keeps them because the thing is there, or the Ingress becomes a missed one.

**The build.** The invariant is over the paths merged so far, in both directions. *Down* (`HoldsInv`): each merged path finds its settings in the entries, which is `SettingsHonoured` once all are merged; a merge
keeps it for the paths before because no validation failed. *Up* (`SourcedInv`): each entry that is there is what some merged path declares, so that a conflict with an entry is a
disagreement with an Ingress, which is `RefusedForAReason`. The TLS status of a backend set needs both: the artifact may come from another Ingress than the switch. `CookieInv` says the cookie is that of the first
to decide among the Ingresses merged so far; the next Ingress comes after all of them, so that only a first load balancer cookie changes it. The TLS policies, merged at the end, rest on a lemma about finite sets: at most one
element is the same as all elements equal.

**The class.** Up to three versions of the IngressClass are about (the API server's, the lister's, the sync's copy), besides the LB and copies of it, and the controller acts on old ones. Nearly
every part of `IInv` says what the versions cannot disagree about: all of them name the LB the controller has created, or the token gives it back (`KnownInv`, from which `NoneForgotten`); every
version that names it records the default tags nobody has claimed, and every copy of the LB has them (`TagsInv`); a version seen with the finalizer holds the class (`FinalizerInv`); a version seen
of a class being deleted that is not protected is on record (`DeletingInv`), whatever the class says by now. `PlaceInv` is what a sync relies on at each of its places, such as that it clears only what is protected and deletes only what is not.

**The certificate.** `RenewedAtRest` and `RestoredAtRest` follow from `SettledInv`: once a sync has compared or written the resource, for the secret as it still is, the resource is
right, or some sync is on record (`misled`) that has made it wrong. A sync on record that has yet to compare counts only if it will compare with what the secret holds now (`Blamed`), since only then is the resource right when that sync leaves the record.
`HeldInv` (a resource whose id a sync has in hand or that is in use is not on its way out) is why marks and deletions by the cleanup task do no harm.

**The backends.** `ServedBeforeReady` is a property of steps. It rests on what the client's cached document is worth: a backend set that the ingress controller has not removed or made again since is in the document as it is on the LB (`DocumentInv`), so
after `UpdateBackends` the set has the addresses that were read, and the answer about its health is about all of them (`AnswerInv`).

**Only model-checked.** Liveness (`ChangesAreRead`, `DeletionCompletes`, `PathsRouted`, `Converges`, `SyncsEnd`, `UnusedGoes`, `BackendsFollow`, `DefaultFollows`, `GatesAnswered`), since the prover does not treat fairness and `ENABLED`.
The violated properties (`ServedAtRest`, `NeverPanics`, `GatesAlwaysAnswered`) have nothing to prove.

## What is not modelled

* The parsing of TLS policy annotations (pure functions) and the staging of a policy on the LB.
* Of certificates: a CA bundle made from a certificate OCID, several certificates on a listener, imports that fail after their answer (the code logs a warning; the hash tag is there by then), more than one version
  pruned in a sync, and the cleanup task's waits. No handler reacts to the deletion of a secret.
* Of the firewall client: the data race on its cache map, whose mutex each call copies (value receivers, `waf.go:112`).
* Of backends: several paths and ports, so named ports with different targets (the code takes those of the first subset) and a node port of 0 (skipped) do not occur; a failed refresh of the cache after an update that succeeded.
* Of the ingress controller: the patch of the status, and conflicts of the finalizer patch, which `RetryOnConflict` repeats with the same resource version (`ingress.go:1149`): the sync fails and comes back with the queue.
* Leader election. One process runs at a time, and may be replaced at any point. The code comes close to that, against the warning at `main.go:207`: `cancel` releases the lease while syncs are under way, and the process exits right after (`OnStoppedLeading`),
  so that what a new leader meets are calls made between the two, and requests accepted before. The latter are in `Reconcile` (`Restart` leaves one in `late`), not in the other models.
* Authentication, API clients, metrics, health, events and logging: no state that others depend on.
* The service: modelled as far as the code relies on it (acceptance, If-Match, work requests that succeed or fail, refusals). Throttling is an error like any other.

## The plan

1. Done: `LoadBalancerClient` with its documents and store, `ControllerQueue` with its promise, `Reconcile` with its parts, `StateBuild`, `IngressClassLifecycle`, `CertificateLifecycle`, `BackendSync`: checked, and
   their safety properties and refinements proved, with a bound on how far `ServedAtRest` can fail.
2. Left out: the lease; the finalizer patch of Ingresses; the staging of TLS policies.
