------------------------- MODULE CachedLoadBalancer -------------------------
(***************************************************************************)
(* LoadBalancerClient as the ingress and the routing policy controllers    *)
(* meet it. They share one cached document, given out for a minute: every  *)
(* call decides by it whether there is anything to do, and takes from it   *)
(* the ETag of an update. A work request that has succeeded is followed by *)
(* a GET that brings the cache up to date, and by a warning if that fails; *)
(* one that takes too long is given up, and may still be applied.          *)
(*                                                                         *)
(* LoadBalancerClient has the steps of a call one by one. Here a call      *)
(* decides, is sent and is answered in one step. What it loses by that, a  *)
(* decision on a document older than the cached one of the moment it is    *)
(* answered, is the same call failing or the cache renewed just before.    *)
(***************************************************************************)
EXTENDS LoadBalancerStore

VARIABLES
  cache,   \* the document calls decide by
  slow,    \* the answer to a GET, not yet in the cache; or Absent
  late,    \* accepted requests that their caller no longer waits for
  waiting  \* callers whose request was applied, before the GET that follows

clientVars == <<document, cache, slow, late, waiting>>

CachedLoadBalancerInit ==
  /\ StoreInit
  /\ cache = document
  /\ slow = Absent /\ late = {} /\ waiting = {}

\* What is left of requests after a change: the others' ETag is no longer it.
Matching(calls) == {call \in calls : call.kind \notin IfMatchKinds}

\* The call sends a request the service accepts.
Accepted(call) ==
  /\ ~Settled(call, cache) /\ ~Missing(call, cache)
  /\ call.kind \in IfMatchKinds => cache = document
  /\ Valid(call, document)

Applied(caller, call) ==
  /\ Accepted(call)
  /\ Change(call)
  /\ late' = Matching(late)
  /\ waiting' = waiting \cup {caller}
  /\ UNCHANGED <<cache, slow>>

\* A creation is answered 409, a deletion 404: somebody else has done it. Only
\* the creation of a listener makes an error of that.
DoneAlready(call) ==
  /\ call.kind \in (CreateKinds \cup DeleteKinds) \ {"CreateListener"}
  /\ Settled(call, document)

\* The call returns nil: it was applied, or is taken as done.
Succeeds(caller, call) ==
  \/ Applied(caller, call)
  \/ (Settled(call, cache) \/ DoneAlready(call)) /\ UNCHANGED clientVars

\* The service, or the cached document, says no.
Refuses(call) == ~Settled(call, cache) /\ ~DoneAlready(call) /\ ~Accepted(call)

\* The caller stops waiting for a request that has been accepted.
Abandoned(call) == Accepted(call) /\ late' = late \cup {call}

-----------------------------------------------------------------------------

\* The GET after a work request, and its failure: "Unable to refresh".
Refreshed(caller) ==
  /\ caller \in waiting
  /\ waiting' = waiting \ {caller}
  /\ cache' = document
  /\ UNCHANGED <<document, slow, late>>

RefreshLost(caller) ==
  /\ caller \in waiting
  /\ waiting' = waiting \ {caller}
  /\ UNCHANGED <<document, cache, slow, late>>

\* RefreshLoadBalancer, or GetLoadBalancer a minute later.
Fetch == cache' = document /\ UNCHANGED <<document, slow, late, waiting>>

Renew == cache # document /\ Fetch

\* Two GETs at the same time: the older answer is stored last.
SlowAnswer ==
  /\ slow = Absent /\ slow' = document
  /\ UNCHANGED <<document, cache, late, waiting>>

StoreSlow ==
  /\ slow # Absent
  /\ cache' = slow /\ slow' = Absent
  /\ UNCHANGED <<document, late, waiting>>

LateApplies(call) ==
  /\ call \in late
  /\ Change(call)
  /\ late' = Matching(late \ {call})
  /\ UNCHANGED <<cache, slow, waiting>>

CachedLoadBalancerTypeOK ==
  /\ document \in Document /\ cache \in Document
  /\ slow \in Document \cup {Absent}
  /\ late \subseteq Call
=============================================================================
