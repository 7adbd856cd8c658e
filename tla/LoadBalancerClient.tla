------------------------ MODULE LoadBalancerClient -------------------------
(***************************************************************************)
(* pkg/loadbalancer/loadbalancer.go: the one LoadBalancerClient that the   *)
(* workers of all controllers share, and its cache of the last document    *)
(* read together with its ETag. A call runs in the goroutine of a worker:  *)
(*                                                                         *)
(*   get     GetLoadBalancer: the cache when younger than a minute, else   *)
(*           a GET whose answer is stored (setCache) in a second step,     *)
(*           since the mutex covers the map access and not the GET         *)
(*   send    decide on the document read, send a request or return         *)
(*   wait    waitForWorkRequest: poll until done, failed or 5 minutes over *)
(*   refresh GET and store the new document, then return                   *)
(*                                                                         *)
(* The service (external) accepts a request, works on it later and ends it *)
(* with success or failure. If-Match holds the request to the version it   *)
(* names. A caller that stops waiting leaves its request behind it.        *)
(***************************************************************************)
EXTENDS LoadBalancerDocument, Naturals, Sequences

CONSTANTS Worker,           \* goroutines that call the client
          Calls,            \* the calls they make
          InitialDocuments, \* what the load balancer may hold at start
          MaxRequests,      \* bound: requests the service accepts
          None

ASSUME ClientAssumption ==
  /\ Calls \subseteq Call
  /\ InitialDocuments \subseteq Document
  /\ MaxRequests \in Nat
  /\ None \notin [etag : Nat, doc : Document]
  /\ None \notin Call

VARIABLES
  current,   \* the service's document and its ETag
  issued,    \* history: every (ETag, document) the service has had
  requests,  \* work requests, in the order of acceptance
  cache,     \* LoadBalancerClient.Cache[lbID], or None
  fresh,     \* the cache entry is younger than LBCacheMaxAgeInMinutes
  pc, call,  \* per worker: where it is, and the call it makes
  seen,      \* per worker: the document and ETag it has read
  request,   \* per worker: the work request it waits for, 0 if none
  result,    \* per worker: once known, "error" or nil, which is "assumed" when a
             \* 409 was taken for "already present" and "nil" in all other cases
  since      \* history, per worker: the version its call has read; once a request
             \* of it is accepted, the version at that moment

serviceVars == <<current, issued, requests>>
cacheVars   == <<cache, fresh>>
workerVars  == <<pc, call, seen, request, result, since>>
vars        == <<serviceVars, cacheVars, workerVars>>

Snapshot == [etag : Nat, doc : Document]
Request  == [call : Call, value : BackendSetValue \cup ListenerValue \cup Rules \cup {Absent},
             ifMatch : Nat, status : {"accepted", "succeeded", "failed"}]
Phase    == {"idle", "get", "fill", "send", "wait", "refresh", "refill"}

Unconditional == 0  \* no If-Match; ETags start at 1

Init ==
  /\ \E doc \in InitialDocuments : current = [etag |-> 1, doc |-> doc]
  /\ issued = {current}
  /\ requests = <<>>
  /\ cache = None /\ fresh = FALSE
  /\ pc = [w \in Worker |-> "idle"]
  /\ call = [w \in Worker |-> None]
  /\ seen = [w \in Worker |-> None]
  /\ request = [w \in Worker |-> 0]
  /\ result = [w \in Worker |-> "none"]
  /\ since = [w \in Worker |-> 0]

-----------------------------------------------------------------------------
(* The cache.                                                               *)

\* The entry passes the age GetLoadBalancer accepts.
Expire ==
  /\ fresh
  /\ fresh' = FALSE
  /\ UNCHANGED <<serviceVars, cache, workerVars>>

\* Mutants: the entry without its ETag; the ETag of another answer.
SetCacheNoETag(w) == cache' = seen[w].doc /\ fresh' = TRUE
SetCacheMixed(w) ==
  /\ cache' = [etag |-> current.etag, doc |-> seen[w].doc]
  /\ fresh' = TRUE

\* The answer of a GET is stored whatever the entry has become meanwhile.
SetCache(w) == cache' = seen[w] /\ fresh' = TRUE

-----------------------------------------------------------------------------
(* Returning. EnsureRoutingPolicy goes on to its next part on nil, and so    *)
(* does the removal of a policy, which detaches it first.                    *)

NextKind(w) ==
  CASE call[w].kind = "FindRoutingPolicy" ->
         IF Present(call[w], seen[w].doc) THEN "SetRoutingPolicy" ELSE "CreateRoutingPolicy"
    [] call[w].kind = "CreateRoutingPolicy" -> "SetRoutingPolicy"
    [] call[w].kind = "SetRoutingPolicy" -> "UpdateRoutingPolicyRules"
    [] call[w].kind = "DetachRoutingPolicy" -> "DeleteRoutingPolicy"
    [] OTHER -> "return"

Return(w, outcome) ==
  /\ IF outcome # "error" /\ NextKind(w) # "return"
       THEN /\ pc' = [pc EXCEPT ![w] = "get"]
            /\ call' = [call EXCEPT ![w].kind = NextKind(w)]
            /\ result' = [result EXCEPT ![w] = "none"]
       ELSE /\ pc' = [pc EXCEPT ![w] = "idle"]
            /\ result' = [result EXCEPT ![w] = outcome]
            /\ UNCHANGED call
  /\ seen' = [seen EXCEPT ![w] = None]
  /\ request' = [request EXCEPT ![w] = 0]
  /\ since' = [since EXCEPT ![w] = IF outcome = "nil" THEN @ ELSE 0]

-----------------------------------------------------------------------------
(* Reading.                                                                  *)

Begin(w) ==
  /\ pc[w] = "idle"
  /\ \E c \in Calls : call' = [call EXCEPT ![w] = c]
  /\ pc' = [pc EXCEPT ![w] = "get"]
  /\ result' = [result EXCEPT ![w] = "none"]
  /\ since' = [since EXCEPT ![w] = 0]
  /\ UNCHANGED <<serviceVars, cacheVars, seen, request>>

ReadCached(w) ==
  /\ pc[w] = "get"
  /\ cache # None /\ fresh
  /\ seen' = [seen EXCEPT ![w] = cache]
  /\ since' = [since EXCEPT ![w] = cache.etag]
  /\ pc' = [pc EXCEPT ![w] = "send"]
  /\ UNCHANGED <<serviceVars, cacheVars, call, request, result>>

\* The GET of getLoadBalancerBustCache is answered.
Fetch(w) ==
  /\ \/ /\ pc[w] = "get" /\ ~(cache # None /\ fresh)
        /\ pc' = [pc EXCEPT ![w] = "fill"]
        /\ since' = [since EXCEPT ![w] = current.etag]
     \/ /\ pc[w] = "refresh"
        /\ pc' = [pc EXCEPT ![w] = "refill"]
        /\ UNCHANGED since
  /\ seen' = [seen EXCEPT ![w] = current]
  /\ UNCHANGED <<serviceVars, cacheVars, call, request, result>>

\* The GET fails: a call that reads gives up, a refresh is only logged.
FetchFails(w) ==
  /\ \/ pc[w] = "get" /\ ~(cache # None /\ fresh) /\ Return(w, "error")
     \/ pc[w] = "refresh" /\ Return(w, result[w])
  /\ UNCHANGED <<serviceVars, cacheVars>>

Fill(w) ==
  /\ pc[w] = "fill"
  /\ SetCache(w)
  /\ pc' = [pc EXCEPT ![w] = "send"]
  /\ UNCHANGED <<serviceVars, call, seen, request, result, since>>

\* The refresh that ends waitForWorkRequest or a refused creation.
Refill(w) ==
  /\ pc[w] = "refill"
  /\ SetCache(w)
  /\ Return(w, result[w])
  /\ UNCHANGED serviceVars

-----------------------------------------------------------------------------
(* Deciding and sending. One step: between the read and the request nothing  *)
(* is shared. What the service answers depends on what it holds by then.     *)

\* There is nothing to do on the document read, or only the read was wanted.
Skip(w) ==
  /\ pc[w] = "send"
  /\ Settled(call[w], seen[w].doc) \/ call[w].kind = "FindRoutingPolicy"
  /\ Return(w, "nil")
  /\ UNCHANGED <<serviceVars, cacheVars>>

\* The resource to update is not in the document read.
NotFound(w) ==
  /\ pc[w] = "send"
  /\ Missing(call[w], seen[w].doc)
  /\ Return(w, "error")
  /\ UNCHANGED <<serviceVars, cacheVars>>

Sends(w) ==
  /\ pc[w] = "send"
  /\ call[w].kind # "FindRoutingPolicy"
  /\ ~Settled(call[w], seen[w].doc)
  /\ ~Missing(call[w], seen[w].doc)

\* Mutant: UpdateBackends sends no If-Match.
IfMatchDropped(w) ==
  IF call[w].kind \in IfMatchKinds \ {"UpdateBackends", "UpdateListener"}
    THEN seen[w].etag ELSE Unconditional

IfMatch(w) == IF call[w].kind \in IfMatchKinds THEN seen[w].etag ELSE Unconditional

\* If-Match: "the resource is updated or deleted only if the ETag you provide
\* matches the resource's current ETag value".
Matches(ifMatch) == ifMatch \in {Unconditional, current.etag}

Accept(w) ==
  /\ Sends(w)
  /\ Len(requests) < MaxRequests
  /\ Matches(IfMatch(w))
  /\ Valid(call[w], current.doc)
  /\ requests' = Append(requests, [call    |-> call[w],
                                   value   |-> NewValue(call[w], seen[w].doc),
                                   ifMatch |-> IfMatch(w),
                                   status  |-> "accepted"])
  /\ request' = [request EXCEPT ![w] = Len(requests) + 1]
  /\ since' = [since EXCEPT ![w] = current.etag]
  /\ pc' = [pc EXCEPT ![w] = "wait"]
  /\ UNCHANGED <<current, issued, cacheVars, call, seen, result>>

\* 409 to the creation of a backend set or a policy that exists, 404 to a
\* deletion of what does not: taken as done.
AlreadyDone(w) ==
  /\ Sends(w)
  /\ \/ call[w].kind \in {"CreateBackendSet", "CreateRoutingPolicy"} /\ Present(call[w], current.doc)
     \/ call[w].kind \in DeleteKinds /\ ~Present(call[w], current.doc)
  /\ Return(w, "nil")
  /\ UNCHANGED <<serviceVars, cacheVars>>

\* The load balancer works on another request.
Busy == \E id \in DOMAIN requests : requests[id].status = "accepted"

\* 409 to the same two creations by a busy load balancer: the code cannot tell
\* it from the other 409 (UpdateBackendSet and UpdateListener retry on it).
TakenAsDone(w) ==
  /\ Sends(w)
  /\ call[w].kind \in {"CreateBackendSet", "CreateRoutingPolicy"}
  /\ ~Present(call[w], current.doc) /\ Busy
  /\ Return(w, "assumed")
  /\ UNCHANGED <<serviceVars, cacheVars>>

\* Either 409 to the creation of a listener: refresh, then a transient error.
ListenerExists(w) ==
  /\ Sends(w)
  /\ call[w].kind = "CreateListener"
  /\ Present(call[w], current.doc) \/ Busy
  /\ pc' = [pc EXCEPT ![w] = "refresh"]
  /\ result' = [result EXCEPT ![w] = "error"]
  /\ UNCHANGED <<serviceVars, cacheVars, call, seen, request, since>>

\* 412, 404 to an update, 400 for a missing or a still referenced backend set,
\* 409 to an update, TLS or cipher settings the code refuses to send, any other
\* error: transient or not, an error.
Refused(w) ==
  /\ Sends(w)
  /\ Return(w, "error")
  /\ UNCHANGED <<serviceVars, cacheVars>>

-----------------------------------------------------------------------------
(* The service works on a request: the conditions hold of the document it    *)
(* changes, not only of the one at hand when it was accepted.                *)

EndRequest(id, status) == requests' = [requests EXCEPT ![id].status = status]

Apply(id) ==
  LET r == requests[id]
      next == [etag |-> current.etag + 1, doc |-> Put(r.call, current.doc, r.value)]
  IN  /\ r.status = "accepted"
      /\ Matches(r.ifMatch)
      /\ Valid(r.call, current.doc)
      /\ current' = next
      /\ issued' = issued \cup {next}
      /\ EndRequest(id, "succeeded")
      /\ UNCHANGED <<cacheVars, workerVars>>

Fail(id) ==
  /\ requests[id].status = "accepted"
  /\ EndRequest(id, "failed")
  /\ UNCHANGED <<current, issued, cacheVars, workerVars>>

-----------------------------------------------------------------------------
(* waitForWorkRequest.                                                       *)

WaitSucceeded(w) ==
  /\ pc[w] = "wait"
  /\ requests[request[w]].status = "succeeded"
  /\ pc' = [pc EXCEPT ![w] = "refresh"]
  /\ result' = [result EXCEPT ![w] = "nil"]
  /\ UNCHANGED <<serviceVars, cacheVars, call, seen, request, since>>

\* Mutant: a work request that failed ends the wait like any other.
WaitFailedIgnored(w) ==
  /\ pc[w] = "wait"
  /\ requests[request[w]].status = "failed"
  /\ Return(w, "nil")
  /\ UNCHANGED <<serviceVars, cacheVars>>

WaitFailed(w) ==
  /\ pc[w] = "wait"
  /\ requests[request[w]].status = "failed"
  /\ Return(w, "error")
  /\ UNCHANGED <<serviceVars, cacheVars>>

\* Five minutes are over, or a poll is answered with an error. The request
\* stays with the service.
WaitAbandoned(w) ==
  /\ pc[w] = "wait"
  /\ Return(w, "error")
  /\ UNCHANGED <<serviceVars, cacheVars>>

-----------------------------------------------------------------------------

Step(w) ==
  \/ ReadCached(w) \/ Fetch(w) \/ FetchFails(w) \/ Fill(w) \/ Refill(w)
  \/ Skip(w) \/ NotFound(w)
  \/ Accept(w) \/ AlreadyDone(w) \/ TakenAsDone(w) \/ ListenerExists(w) \/ Refused(w)
  \/ WaitSucceeded(w) \/ WaitFailed(w) \/ WaitAbandoned(w)

Next ==
  \/ \E w \in Worker : Begin(w) \/ Step(w)
  \/ \E id \in DOMAIN requests : Apply(id) \/ Fail(id)
  \/ Expire

Spec == Init /\ [][Next]_vars

-----------------------------------------------------------------------------
(* Properties.                                                               *)

\* Every variable has its type.
TypeOK ==
  /\ current \in Snapshot /\ issued \subseteq Snapshot
  /\ requests \in Seq(Request)
  /\ cache \in Snapshot \cup {None} /\ fresh \in BOOLEAN
  /\ pc \in [Worker -> Phase]
  /\ call \in [Worker -> Call \cup {None}]
  /\ seen \in [Worker -> Snapshot \cup {None}]
  /\ request \in [Worker -> Nat]
  /\ result \in [Worker -> {"none", "nil", "assumed", "error"}]
  /\ since \in [Worker -> Nat]

\* Whatever the interleaving of GETs, cache stores and updates, the document
\* and the ETag a worker or the cache holds are a pair the service has issued:
\* If-Match never vouches for another document than the one read with it.
\* (setCache stores both halves of one answer; a late store may put an older
\* pair over a newer one, never half of each.)
SnapshotsGenuine ==
  /\ cache # None => cache \in issued
  /\ \A w \in Worker : seen[w] # None => seen[w] \in issued
  /\ \A s, t \in issued : s.etag = t.etag => s = t

\* What a caller that is told nil may rely on: the aim of its call was met by
\* the document the call has read, which may be a minute old, or by a later
\* version; and if a request of it was accepted, by a version no older than that
\* moment. nil is never the answer to a request that was refused, failed, or was
\* given up, nor owed to what was so only before (the several "return nil" of
\* loadbalancer.go: nothing to do on the document read, 404 to a deletion, a work
\* request that succeeded, 409 to a creation). The exception the code has, a 409
\* that only meant "busy", is the result "assumed", of which nothing is claimed.
NilMeansAchieved ==
  \A w \in Worker :
    result[w] = "nil" => \E s \in issued : s.etag >= since[w] /\ Achieved(call[w], s.doc)

Store == INSTANCE LoadBalancerStore WITH document <- current.doc

\* No lost update: every change of the load balancer is one call's change made
\* to the document as it stands then. UpdateBackends and UpdateBackendSetDetails
\* send the whole backend set, UpdateListener the whole listener, each built from
\* a document that may be a minute old, and still undo nothing others did.
ImplementsStore == Store!StoreSpec
=============================================================================
