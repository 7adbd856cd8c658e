--------------------- MODULE LoadBalancerClient_proofs ----------------------
(***************************************************************************)
(* Proofs about LoadBalancerClient, for any number of workers, any set of  *)
(* calls and documents and any number of requests.                         *)
(*                                                                         *)
(* What makes If-Match sound here is not in one place: the cache keeps the *)
(* document and the ETag of one answer, a worker builds its request from   *)
(* the pair it took, and an ETag names one document for ever. IInv states  *)
(* the three together; each alone is not inductive.                        *)
(***************************************************************************)
EXTENDS LoadBalancerClient, LoadBalancerDocument_proofs, TLAPS

-----------------------------------------------------------------------------
(* The inductive invariant.                                                  *)

\* Versions are numbered, and the service's present one is the last.
VersionInv ==
  /\ current \in issued
  /\ \A s \in issued : s.etag \in 1..current.etag

\* The call's aim was met by a version no older than the one numbered etag.
MetSince(c, etag) == \E s \in issued : s.etag >= etag /\ Achieved(c, s.doc)

\* A worker has read what it is about to use, and waits for its own request; if
\* that has succeeded, it did so after it was accepted.
WorkerInv(w) ==
  /\ since[w] <= current.etag
  /\ pc[w] \in {"fill", "send", "refill"} => seen[w] # None
  /\ pc[w] \in {"fill", "send"} => since[w] <= seen[w].etag
  /\ pc[w] # "idle" => call[w] # None
  /\ result[w] = "nil" => pc[w] \in {"idle", "refresh", "refill"}
  /\ pc[w] = "wait" =>
       /\ request[w] \in DOMAIN requests
       /\ requests[request[w]].call = call[w]
       /\ requests[request[w]].status = "succeeded" => MetSince(call[w], since[w])

\* A request carries what its call builds from one version of the document, and
\* names that version unless it carries nothing taken from it.
RequestInv(r) ==
  /\ r.call.kind # "FindRoutingPolicy"
  /\ \E s \in issued :
       /\ \/ r.ifMatch = s.etag
          \/ r.ifMatch = Unconditional /\ r.call.kind \notin IfMatchKinds
       /\ r.value = NewValue(r.call, s.doc)

RequestsInv == \A id \in DOMAIN requests : RequestInv(requests[id])

IInv ==
  /\ TypeOK
  /\ VersionInv
  /\ SnapshotsGenuine
  /\ \A w \in Worker : WorkerInv(w)
  /\ RequestsInv
  /\ NilMeansAchieved

LEMMA Initially == Init => IInv
<1> SUFFICES ASSUME Init PROVE IInv
  OBVIOUS
<1> USE ClientAssumption DEF Init
<1>1. PICK doc \in InitialDocuments : current = [etag |-> 1, doc |-> doc]
  OBVIOUS
<1>2. current \in Snapshot
  BY <1>1 DEF Snapshot
<1>3. TypeOK
  <2>1. requests \in Seq(Request)
    OBVIOUS
  <2>2. issued \subseteq Snapshot
    BY <1>2
  <2>3. pc \in [Worker -> Phase]
    BY DEF Phase
  <2> QED BY <1>2, <2>1, <2>2, <2>3 DEF TypeOK
<1>4. VersionInv
  BY <1>1 DEF VersionInv
<1>5. SnapshotsGenuine
  BY DEF SnapshotsGenuine
<1>6. \A w \in Worker : WorkerInv(w)
  BY <1>1 DEF WorkerInv
<1>7. NilMeansAchieved
  BY DEF NilMeansAchieved
<1>8. RequestsInv
  BY DEF RequestsInv
<1> QED BY <1>3, <1>4, <1>5, <1>6, <1>7, <1>8 DEF IInv

\* What the service holds is not disturbed by a step that leaves it alone.
LEMMA ServiceKept ==
  ASSUME IInv, UNCHANGED serviceVars
  PROVE  /\ VersionInv' /\ RequestsInv'
         /\ current' \in Snapshot /\ issued' \subseteq Snapshot /\ requests' \in Seq(Request)
         /\ \A s, t \in issued' : s.etag = t.etag => s = t
<1> USE DEF serviceVars
<1>1. VersionInv'
  BY DEF IInv, VersionInv
<1>2. RequestsInv'
  BY DEF IInv, RequestsInv, RequestInv
<1>3. current' \in Snapshot /\ issued' \subseteq Snapshot /\ requests' \in Seq(Request)
  BY DEF IInv, TypeOK
<1>4. \A s, t \in issued' : s.etag = t.etag => s = t
  BY DEF IInv, SnapshotsGenuine
<1> QED BY <1>1, <1>2, <1>3, <1>4

\* A return leaves the worker idle or at the start of the call's next part, and
\* disturbs no other worker. If it says nil, the aim was met.
LEMMA Returns ==
  ASSUME IInv, UNCHANGED serviceVars, NEW w \in Worker, pc[w] # "idle",
         NEW outcome \in {"none", "nil", "assumed", "error"}, Return(w, outcome),
         outcome = "nil" => MetSince(call[w], since[w])
  PROVE  /\ pc' \in [Worker -> Phase] /\ call' \in [Worker -> Call \cup {None}]
         /\ seen' \in [Worker -> Snapshot \cup {None}] /\ request' \in [Worker -> Nat]
         /\ result' \in [Worker -> {"none", "nil", "assumed", "error"}]
         /\ since' \in [Worker -> Nat]
         /\ \A v \in Worker : seen'[v] # None => seen'[v] \in issued
         /\ \A v \in Worker : WorkerInv(v)'
         /\ NilMeansAchieved'
<1> USE DEF IInv, TypeOK
<1>1. call[w] \in Call
  BY DEF WorkerInv
<1>2. /\ seen' = [seen EXCEPT ![w] = None] /\ request' = [request EXCEPT ![w] = 0]
      /\ since' = [since EXCEPT ![w] = IF outcome = "nil" THEN since[w] ELSE 0]
  BY DEF Return
<1>3. issued' = issued /\ requests' = requests /\ current' = current
  BY DEF serviceVars
<1>6. since' \in [Worker -> Nat] /\ \A v \in Worker : since'[v] <= current.etag
  BY <1>2 DEF WorkerInv, Snapshot
<1>4. CASE outcome # "error" /\ NextKind(w) # "return"
  <2>1. /\ pc' = [pc EXCEPT ![w] = "get"]
        /\ call' = [call EXCEPT ![w].kind = NextKind(w)]
        /\ result' = [result EXCEPT ![w] = "none"]
    BY <1>4 DEF Return
  <2>2. [call[w] EXCEPT !.kind = NextKind(w)] \in Call
    BY <1>1, <1>4, NextCallTyped DEF NextKind
  <2>3. call' = [call EXCEPT ![w] = [call[w] EXCEPT !.kind = NextKind(w)]]
    BY <2>1
  <2>4. \A v \in Worker : WorkerInv(v)'
    <3> SUFFICES ASSUME NEW v \in Worker PROVE WorkerInv(v)'
      OBVIOUS
    <3>1. CASE v = w
      <4>1. call'[v] = [call[w] EXCEPT !.kind = NextKind(w)]
        BY <2>3, <3>1
      <4>2. pc'[v] = "get" /\ result'[v] = "none" /\ call'[v] # None
        BY <2>1, <2>2, <3>1, <4>1, ClientAssumption
      <4> QED BY <1>3, <1>6, <4>2 DEF WorkerInv
    <3>2. CASE v # w
      <4>1. /\ since'[v] = since[v] /\ pc'[v] = pc[v] /\ request'[v] = request[v]
            /\ seen'[v] = seen[v] /\ result'[v] = result[v] /\ call'[v] = call[v]
        BY <1>2, <2>1, <2>3, <3>2
      <4> QED BY <1>3, <4>1 DEF WorkerInv, MetSince
    <3> QED BY <3>1, <3>2
  <2>5. NilMeansAchieved'
    BY <1>2, <1>3, <2>1, <2>3 DEF NilMeansAchieved
  <2> QED BY <1>2, <1>6, <2>1, <2>2, <2>3, <2>4, <2>5 DEF Phase, SnapshotsGenuine
<1>5. CASE ~(outcome # "error" /\ NextKind(w) # "return")
  <2>1. /\ pc' = [pc EXCEPT ![w] = "idle"]
        /\ result' = [result EXCEPT ![w] = outcome]
        /\ call' = call
    BY <1>5 DEF Return
  <2>2. \A v \in Worker : WorkerInv(v)'
    BY <1>2, <1>3, <1>6, <2>1 DEF WorkerInv, MetSince
  <2>3. NilMeansAchieved'
    BY <1>2, <1>3, <2>1 DEF NilMeansAchieved, MetSince
  <2> QED BY <1>2, <1>6, <2>1, <2>2, <2>3 DEF Phase, SnapshotsGenuine
<1> QED BY <1>4, <1>5

\* The steps of the worker that read and write nothing but its own state and the
\* cache, gathered: what is left to show of a step that returns.
LEMMA ReturnStep ==
  ASSUME IInv, UNCHANGED serviceVars, NEW w \in Worker, pc[w] # "idle",
         NEW outcome \in {"none", "nil", "assumed", "error"}, Return(w, outcome),
         outcome = "nil" => MetSince(call[w], since[w]),
         cache' \in issued \cup {None}, fresh' \in BOOLEAN
  PROVE  IInv'
<1>1. issued' = issued
  BY DEF serviceVars
<1>2. cache' \in Snapshot \cup {None}
  BY DEF IInv, TypeOK
<1>3. TypeOK'
  BY <1>2, ServiceKept, Returns DEF TypeOK
<1>4. SnapshotsGenuine'
  BY <1>1, ServiceKept, Returns DEF SnapshotsGenuine
<1>5. /\ VersionInv' /\ RequestsInv'
      /\ \A v \in Worker : WorkerInv(v)' /\ NilMeansAchieved'
  BY ServiceKept, Returns
<1> QED BY <1>3, <1>4, <1>5 DEF IInv

\* A worker that goes on inside its call, or begins one.
LEMMA AdvanceStep ==
  ASSUME IInv, UNCHANGED <<serviceVars, request>>, NEW w \in Worker,
         NEW p \in Phase, p # "wait", pc' = [pc EXCEPT ![w] = p],
         NEW c \in Call, call' = [call EXCEPT ![w] = c],
         NEW s \in issued \cup {None}, seen' = [seen EXCEPT ![w] = s],
         NEW r \in {"none", "nil", "assumed", "error"}, result' = [result EXCEPT ![w] = r],
         p \in {"fill", "send", "refill"} => s # None,
         NEW e \in Nat, since' = [since EXCEPT ![w] = e], e <= current.etag,
         p \in {"fill", "send"} => e <= s.etag,
         r = "nil" => MetSince(c, e) /\ p \in {"refresh", "refill"},
         cache' \in issued \cup {None}, fresh' \in BOOLEAN
  PROVE  IInv'
<1>1. issued' = issued /\ requests' = requests /\ request' = request /\ current' = current
  BY DEF serviceVars
<1>2. cache' \in Snapshot \cup {None} /\ s \in Snapshot \cup {None}
  BY DEF IInv, TypeOK
<1>3. TypeOK'
  BY <1>1, <1>2, ServiceKept DEF IInv, TypeOK
<1>4. SnapshotsGenuine'
  BY <1>1, ServiceKept DEF IInv, TypeOK, SnapshotsGenuine
<1>5. \A v \in Worker : WorkerInv(v)'
  BY <1>1, ClientAssumption DEF IInv, TypeOK, WorkerInv, MetSince
<1>6. NilMeansAchieved'
  BY <1>1 DEF IInv, TypeOK, NilMeansAchieved, MetSince
<1> QED BY <1>3, <1>4, <1>5, <1>6, ServiceKept DEF IInv

\* Every step of a worker but the one that has a request accepted.
LEMMA WorkerStep ==
  ASSUME IInv, NEW w \in Worker, Begin(w) \/ (Step(w) /\ ~Accept(w))
  PROVE  IInv'
<1>1. /\ pc[w] # "idle" => call[w] \in Call
      /\ pc[w] \in {"fill", "send", "refill"} => seen[w] \in issued
      /\ cache \in issued \cup {None}
      /\ current \in issued
  BY DEF IInv, TypeOK, WorkerInv, SnapshotsGenuine, VersionInv
<1>2. /\ call' = call => call' = [call EXCEPT ![w] = call[w]]
      /\ seen' = seen => seen' = [seen EXCEPT ![w] = seen[w]]
      /\ result' = result => result' = [result EXCEPT ![w] = result[w]]
      /\ since' = since => since' = [since EXCEPT ![w] = since[w]]
      /\ seen[w] \in issued \cup {None}
      /\ fresh \in BOOLEAN /\ result[w] \in {"none", "nil", "assumed", "error"}
  BY DEF IInv, TypeOK, SnapshotsGenuine
<1>3. result[w] = "nil" => MetSince(call[w], since[w])
  BY DEF IInv, NilMeansAchieved, MetSince
<1>. /\ \A s \in issued : s.etag \in Nat /\ s.etag <= current.etag
     /\ since[w] \in Nat /\ since[w] <= current.etag
     /\ current.etag \in Nat
  BY DEF IInv, VersionInv, TypeOK, WorkerInv, Snapshot
<1>4. CASE Begin(w)
  <2>1. PICK c \in Calls : call' = [call EXCEPT ![w] = c]
    BY <1>4 DEF Begin
  <2>2. c \in Call
    BY <2>1, ClientAssumption
  <2>3. /\ UNCHANGED <<serviceVars, request>>
        /\ seen' = [seen EXCEPT ![w] = seen[w]] /\ seen[w] \in issued \cup {None}
        /\ cache' \in issued \cup {None} /\ fresh' \in BOOLEAN
        /\ pc' = [pc EXCEPT ![w] = "get"] /\ result' = [result EXCEPT ![w] = "none"]
        /\ since' = [since EXCEPT ![w] = 0]
    BY <1>1, <1>2, <1>4 DEF Begin, cacheVars
  <2>4. 0 \in Nat /\ 0 <= current.etag /\ "get" \in Phase
    BY DEF Phase
  <2> QED BY ZenonT(60), <2>1, <2>2, <2>3, <2>4, AdvanceStep
<1>5. CASE ReadCached(w)
  <2>1. /\ UNCHANGED <<serviceVars, request>> /\ call[w] \in Call
        /\ call' = [call EXCEPT ![w] = call[w]] /\ seen' = [seen EXCEPT ![w] = cache]
        /\ cache \in issued \cup {None} /\ cache # None
        /\ cache' \in issued \cup {None} /\ fresh' \in BOOLEAN
        /\ pc' = [pc EXCEPT ![w] = "send"]
        /\ result' = [result EXCEPT ![w] = result[w]]
        /\ result[w] # "nil"
        /\ result[w] \in {"none", "nil", "assumed", "error"}
        /\ since' = [since EXCEPT ![w] = cache.etag]
    BY <1>1, <1>2, <1>5 DEF ReadCached, cacheVars, IInv, WorkerInv
  <2>2. cache.etag \in Nat /\ cache.etag <= current.etag /\ cache.etag <= cache.etag
    BY <2>1
  <2>3. "send" \in Phase
    BY DEF Phase
  <2> QED BY ZenonT(60), <2>1, <2>2, <2>3, AdvanceStep
<1>6. CASE Fetch(w)
  <2>1. /\ UNCHANGED <<serviceVars, request>> /\ call[w] \in Call
        /\ call' = [call EXCEPT ![w] = call[w]] /\ seen' = [seen EXCEPT ![w] = current]
        /\ current \in issued \cup {None}
        /\ cache' \in issued \cup {None} /\ fresh' \in BOOLEAN
        /\ result' = [result EXCEPT ![w] = result[w]]
        /\ result[w] \in {"none", "nil", "assumed", "error"}
        /\ current # None
    BY <1>1, <1>2, <1>6, ClientAssumption DEF Fetch, cacheVars, IInv, TypeOK, Snapshot
  <2>2. CASE pc[w] = "get"
    <3>1. /\ pc' = [pc EXCEPT ![w] = "fill"] /\ since' = [since EXCEPT ![w] = current.etag]
          /\ "fill" \in Phase /\ current.etag <= current.etag /\ result[w] # "nil"
      BY <1>6, <2>2 DEF Fetch, Phase, IInv, WorkerInv
    <3> QED BY ZenonT(60), <2>1, <3>1, AdvanceStep
  <2>3. CASE pc[w] # "get"
    <3>1. /\ pc' = [pc EXCEPT ![w] = "refill"] /\ since' = [since EXCEPT ![w] = since[w]]
          /\ "refill" \in Phase
          /\ result[w] = "nil" => MetSince(call[w], since[w])
      BY <1>2, <1>3, <1>6, <2>3 DEF Fetch, Phase
    <3> QED BY ZenonT(60), <2>1, <3>1, AdvanceStep
  <2> QED BY <2>2, <2>3
<1>7. CASE Fill(w)
  <2>1. /\ UNCHANGED <<serviceVars, request>> /\ call[w] \in Call
        /\ call' = [call EXCEPT ![w] = call[w]] /\ seen' = [seen EXCEPT ![w] = seen[w]]
        /\ seen[w] \in issued \cup {None}
        /\ cache' \in issued \cup {None} /\ fresh' \in BOOLEAN
        /\ pc' = [pc EXCEPT ![w] = "send"]
        /\ since' = [since EXCEPT ![w] = since[w]]
    BY <1>1, <1>2, <1>7 DEF Fill, SetCache
  <2>2. /\ result' = [result EXCEPT ![w] = result[w]] /\ result[w] # "nil"
        /\ result[w] \in {"none", "nil", "assumed", "error"}
    BY <1>2, <1>7 DEF Fill, IInv, WorkerInv
  <2>3. "send" \in Phase /\ seen[w] # None /\ since[w] <= seen[w].etag
    BY <1>7 DEF Phase, Fill, IInv, WorkerInv
  <2> QED BY ZenonT(60), <2>1, <2>2, <2>3, AdvanceStep
<1>8. CASE ListenerExists(w)
  <2>1. /\ UNCHANGED <<serviceVars, request>> /\ call[w] \in Call
        /\ call' = [call EXCEPT ![w] = call[w]] /\ seen' = [seen EXCEPT ![w] = seen[w]]
        /\ result' = [result EXCEPT ![w] = "error"]
        /\ cache' \in issued \cup {None} /\ fresh' \in BOOLEAN
        /\ pc' = [pc EXCEPT ![w] = "refresh"]
        /\ since' = [since EXCEPT ![w] = since[w]]
    BY <1>1, <1>2, <1>8 DEF ListenerExists, Sends, cacheVars
  <2>2. "refresh" \in Phase
    BY DEF Phase
  <2> QED BY ZenonT(60), <1>2, <2>1, <2>2, AdvanceStep
<1>9. CASE WaitSucceeded(w)
  <2>1. MetSince(call[w], since[w])
    BY <1>9 DEF WaitSucceeded, IInv, WorkerInv
  <2>2. /\ UNCHANGED <<serviceVars, request>> /\ call[w] \in Call
        /\ call' = [call EXCEPT ![w] = call[w]] /\ seen' = [seen EXCEPT ![w] = seen[w]]
        /\ seen[w] \in issued \cup {None}
        /\ result' = [result EXCEPT ![w] = "nil"]
        /\ cache' \in issued \cup {None} /\ fresh' \in BOOLEAN
        /\ pc' = [pc EXCEPT ![w] = "refresh"] /\ "refresh" \in Phase
        /\ since' = [since EXCEPT ![w] = since[w]]
    BY <1>1, <1>2, <1>9 DEF WaitSucceeded, cacheVars, Phase
  <2> QED BY ZenonT(60), <2>1, <2>2, AdvanceStep
<1>10. CASE FetchFails(w)
  BY <1>1, <1>2, <1>3, <1>10, ReturnStep DEF FetchFails, cacheVars
<1>11. CASE Refill(w)
  BY <1>1, <1>2, <1>3, <1>11, ReturnStep DEF Refill, SetCache
<1>12. CASE Skip(w)
  <2>1. Achieved(call[w], seen[w].doc) /\ seen[w] \in issued /\ seen[w].etag >= since[w]
    BY <1>1, <1>12 DEF Skip, Achieved, IInv, WorkerInv
  <2> QED BY <1>1, <1>2, <1>12, <2>1, ReturnStep DEF Skip, cacheVars, MetSince
<1>13. CASE AlreadyDone(w)
  <2>1. Achieved(call[w], current.doc)
    BY <1>13 DEF AlreadyDone, Achieved, Settled, CreateKinds
  <2>2. MetSince(call[w], since[w])
    BY <1>1, <2>1 DEF MetSince
  <2> QED BY <1>1, <1>2, <1>13, <2>2, ReturnStep DEF AlreadyDone, Sends, cacheVars
<1>14. CASE NotFound(w) \/ TakenAsDone(w) \/ Refused(w) \/ WaitFailed(w) \/ WaitAbandoned(w)
  BY <1>1, <1>2, <1>14, ReturnStep
  DEF NotFound, TakenAsDone, Refused, WaitFailed, WaitAbandoned, Sends, cacheVars
<1> QED BY <1>4, <1>5, <1>6, <1>7, <1>8, <1>9, <1>10, <1>11, <1>12, <1>13, <1>14 DEF Step

\* The request a worker sends carries what its call builds from the version the
\* worker has read, under that version's ETag unless the kind sends none.
LEMMA AcceptStep ==
  ASSUME IInv, NEW w \in Worker, Accept(w)
  PROVE  IInv'
<1> DEFINE r == [call |-> call[w], value |-> NewValue(call[w], seen[w].doc),
                 ifMatch |-> IfMatch(w), status |-> "accepted"]
           n == Len(requests)
<1>1. /\ requests' = Append(requests, r) /\ request' = [request EXCEPT ![w] = n + 1]
      /\ pc' = [pc EXCEPT ![w] = "wait"]
      /\ since' = [since EXCEPT ![w] = current.etag]
      /\ UNCHANGED <<current, issued, cacheVars, call, seen, result>>
  BY DEF Accept
<1>2. /\ call[w] \in Call /\ call[w].kind # "FindRoutingPolicy"
      /\ ~Settled(call[w], seen[w].doc) /\ ~Missing(call[w], seen[w].doc)
      /\ seen[w] \in issued
  BY DEF Accept, Sends, IInv, TypeOK, WorkerInv, SnapshotsGenuine
<1>3. seen[w].etag \in Nat /\ seen[w].doc \in Document
  BY <1>2 DEF IInv, TypeOK, Snapshot
<1>4. r \in Request
  BY <1>2, <1>3, NewValueTyped DEF Request, IfMatch, Unconditional
<1>5. requests \in Seq(Request) /\ n \in Nat
  BY DEF IInv, TypeOK
<1>6. /\ requests' \in Seq(Request)
      /\ DOMAIN requests' = DOMAIN requests \cup {n + 1}
      /\ \A id \in DOMAIN requests : requests'[id] = requests[id]
      /\ requests'[n + 1] = r
  <2> HIDE DEF r
  <2> QED BY <1>1, <1>4, <1>5
<1>7. TypeOK'
  <2> HIDE DEF r
  <2> QED BY <1>1, <1>5, <1>6 DEF IInv, TypeOK, cacheVars, Phase, Snapshot
<1>8. VersionInv' /\ SnapshotsGenuine' /\ NilMeansAchieved'
  <2> HIDE DEF r
  <2>1. VersionInv' /\ SnapshotsGenuine'
    BY <1>1 DEF IInv, VersionInv, SnapshotsGenuine, cacheVars
  <2>2. result[w] # "nil"
    BY DEF Accept, Sends, IInv, WorkerInv
  <2>3. NilMeansAchieved'
    BY <1>1, <2>2 DEF IInv, TypeOK, NilMeansAchieved
  <2> QED BY <2>1, <2>3
<1>9. \A v \in Worker : WorkerInv(v)'
  <2> SUFFICES ASSUME NEW v \in Worker PROVE WorkerInv(v)'
    OBVIOUS
  <2>1. CASE v = w
    <3>1. requests'[n + 1].call = call[w] /\ requests'[n + 1].status = "accepted"
      BY <1>6
    <3>2. current.etag \in Nat
      BY DEF IInv, TypeOK, Snapshot
    <3>3. result[w] # "nil"
      BY DEF Accept, Sends, IInv, WorkerInv
    <3> HIDE DEF r
    <3>4. /\ since'[v] = current.etag /\ pc'[v] = "wait" /\ request'[v] = n + 1
          /\ call'[v] = call[w] /\ call[w] # None /\ result'[v] # "nil"
          /\ current' = current /\ n + 1 \in DOMAIN requests'
      BY <2>1, <3>3, <1>1, <1>2, <1>6, ClientAssumption DEF IInv, TypeOK
    <3> QED BY <3>1, <3>2, <3>4 DEF WorkerInv
  <2>2. CASE v # w
    <3> HIDE DEF r
    <3>1. /\ since'[v] = since[v] /\ pc'[v] = pc[v] /\ request'[v] = request[v]
          /\ UNCHANGED <<call, seen, result, issued, current>>
      BY <2>2, <1>1 DEF IInv, TypeOK
    <3> QED BY <3>1, <1>6 DEF IInv, WorkerInv, MetSince
  <2> QED BY <2>1, <2>2
<1>10. RequestsInv'
  <2> SUFFICES ASSUME NEW id \in DOMAIN requests' PROVE RequestInv(requests[id])'
    BY DEF RequestsInv
  <2>1. CASE id \in DOMAIN requests
    BY <2>1, <1>1, <1>6 DEF IInv, RequestsInv, RequestInv
  <2>2. CASE id = n + 1
    BY <2>2, <1>1, <1>2, <1>6 DEF RequestInv, IfMatch
  <2> QED BY <2>1, <2>2, <1>6
<1> QED BY <1>7, <1>8, <1>9, <1>10 DEF IInv

\* The end of a request changes its status and nothing else of it.
LEMMA EndRequestTyped ==
  ASSUME IInv, NEW id \in DOMAIN requests, NEW status \in {"succeeded", "failed"},
         EndRequest(id, status)
  PROVE  /\ requests' \in Seq(Request) /\ DOMAIN requests' = DOMAIN requests
         /\ requests'[id].status = status
         /\ \A i \in DOMAIN requests :
              /\ requests'[i].call = requests[i].call
              /\ requests'[i].value = requests[i].value
              /\ requests'[i].ifMatch = requests[i].ifMatch
              /\ i # id => requests'[i].status = requests[i].status
<1>1. requests \in Seq(Request) /\ requests[id] \in Request
  BY DEF IInv, TypeOK
<1>2. requests' = [requests EXCEPT ![id] = [requests[id] EXCEPT !.status = status]]
  BY DEF EndRequest
<1>3. [requests[id] EXCEPT !.status = status] \in Request
  BY <1>1 DEF Request
<1> QED BY <1>1, <1>2, <1>3 DEF Request

LEMMA FailStep ==
  ASSUME IInv, NEW id \in DOMAIN requests, Fail(id)
  PROVE  IInv'
<1>1. /\ EndRequest(id, "failed")
      /\ UNCHANGED <<current, issued, cacheVars, workerVars>>
  BY DEF Fail
<1>2. TypeOK'
  BY <1>1, EndRequestTyped DEF IInv, TypeOK, cacheVars, workerVars
<1>3. VersionInv' /\ SnapshotsGenuine' /\ NilMeansAchieved'
  BY <1>1 DEF IInv, VersionInv, SnapshotsGenuine, NilMeansAchieved, cacheVars, workerVars
<1>4. \A v \in Worker : WorkerInv(v)'
  BY <1>1, EndRequestTyped DEF IInv, WorkerInv, MetSince, workerVars
<1>5. RequestsInv'
  BY <1>1, EndRequestTyped DEF IInv, RequestsInv, RequestInv
<1> QED BY <1>2, <1>3, <1>4, <1>5 DEF IInv

\* A request that is applied was built from the very version it changes: the
\* ETags agree, and an ETag names one version. This is what If-Match is for.
LEMMA BuiltFromCurrent ==
  ASSUME IInv, NEW id \in DOMAIN requests, Matches(requests[id].ifMatch)
  PROVE  /\ requests[id].call \in Call /\ requests[id].call.kind # "FindRoutingPolicy"
         /\ requests[id].value = NewValue(requests[id].call, current.doc)
<1>1. RequestInv(requests[id]) /\ requests[id] \in Request
  BY DEF IInv, RequestsInv, TypeOK
<1>2. PICK s \in issued :
        /\ \/ requests[id].ifMatch = s.etag
           \/ requests[id].ifMatch = Unconditional /\ requests[id].call.kind \notin IfMatchKinds
        /\ requests[id].value = NewValue(requests[id].call, s.doc)
  BY <1>1 DEF RequestInv
<1>3. CASE requests[id].ifMatch = s.etag
  <2>1. s.etag # Unconditional
    BY DEF IInv, VersionInv, TypeOK, Snapshot, Unconditional
  <2>2. s = current
    BY <1>3, <2>1 DEF Matches, IInv, VersionInv, SnapshotsGenuine
  <2> QED BY <1>1, <1>2, <2>2 DEF RequestInv, Request
<1>4. CASE requests[id].call.kind \notin IfMatchKinds
  <2>1. requests[id].call \in Call
    BY <1>1 DEF Request
  <2> QED BY <1>1, <1>2, <1>4, <2>1, UnconditionalValue DEF RequestInv
<1> QED BY <1>2, <1>3, <1>4

LEMMA ApplyStep ==
  ASSUME IInv, NEW id \in DOMAIN requests, Apply(id)
  PROVE  IInv'
<1> DEFINE c == requests[id].call
           next == [etag |-> current.etag + 1, doc |-> Put(c, current.doc, requests[id].value)]
<1>1. /\ Matches(requests[id].ifMatch) /\ Valid(c, current.doc)
      /\ current' = next /\ issued' = issued \cup {next}
      /\ EndRequest(id, "succeeded") /\ UNCHANGED <<cacheVars, workerVars>>
  BY DEF Apply
<1>2. /\ c \in Call /\ c.kind # "FindRoutingPolicy"
      /\ requests[id].value = NewValue(c, current.doc)
      /\ current.doc \in Document /\ current.etag \in Nat
  BY <1>1, BuiltFromCurrent DEF IInv, TypeOK, Snapshot
<1>3. next \in Snapshot /\ Achieved(c, next.doc)
  BY <1>1, <1>2, PutTyped, PutAchieves DEF Snapshot
<1>4. next.etag = current.etag + 1
  OBVIOUS
<1> HIDE DEF next
<1>5. TypeOK'
  BY <1>1, <1>3, EndRequestTyped DEF IInv, TypeOK, cacheVars, workerVars
<1>6. VersionInv'
  BY <1>1, <1>2, <1>4 DEF IInv, VersionInv
<1>7. SnapshotsGenuine'
  <2>1. \A s \in issued : s.etag \in Nat /\ s.etag < next.etag
    BY <1>2, <1>4 DEF IInv, VersionInv
  <2>2. \A s, t \in issued' : s.etag = t.etag => s = t
    BY <1>1, <2>1 DEF IInv, SnapshotsGenuine
  <2> QED BY <1>1, <2>2 DEF IInv, SnapshotsGenuine, cacheVars, workerVars
<1>8. NilMeansAchieved'
  BY <1>1 DEF IInv, NilMeansAchieved, workerVars
<1>9. \A v \in Worker : WorkerInv(v)'
  <2> SUFFICES ASSUME NEW v \in Worker PROVE WorkerInv(v)'
    OBVIOUS
  <2>1. /\ UNCHANGED <<pc, call, seen, request, result, since>>
        /\ since[v] \in Nat /\ since[v] <= current.etag
    BY <1>1 DEF workerVars, IInv, TypeOK, WorkerInv
  <2>2. since[v] <= current'.etag
    BY <1>1, <1>2, <1>4, <2>1
  <2>3. ASSUME pc[v] = "wait"
        PROVE  /\ request[v] \in DOMAIN requests'
               /\ requests'[request[v]].call = call[v]
               /\ requests'[request[v]].status = "succeeded" =>
                    \E s \in issued' : s.etag >= since[v] /\ Achieved(call[v], s.doc)
    <3>1. /\ request[v] \in DOMAIN requests /\ requests[request[v]].call = call[v]
          /\ requests[request[v]].status = "succeeded" => MetSince(call[v], since[v])
      BY <2>3 DEF IInv, WorkerInv
    <3>2. CASE request[v] = id
      <4>1. next.etag >= since[v] /\ next \in issued' /\ call[v] = c
        BY <1>1, <1>2, <1>4, <2>1, <3>1, <3>2
      <4>2. /\ request[v] \in DOMAIN requests'
            /\ requests'[request[v]].call = requests[request[v]].call
        BY <1>1, <3>1, EndRequestTyped
      <4> QED BY <1>3, <3>1, <4>1, <4>2
    <3>3. CASE request[v] # id
      <4>1. /\ request[v] \in DOMAIN requests'
            /\ requests'[request[v]].call = requests[request[v]].call
            /\ requests'[request[v]].status = requests[request[v]].status
        BY <1>1, <3>1, <3>3, EndRequestTyped
      <4>2. issued \subseteq issued'
        BY <1>1
      <4> QED BY <3>1, <4>1, <4>2 DEF MetSince
    <3> QED BY <3>2, <3>3
  <2>4. WorkerInv(v)
    BY DEF IInv
  <2> QED BY <2>1, <2>2, <2>3, <2>4 DEF WorkerInv, MetSince
<1>10. RequestsInv'
  <2> SUFFICES ASSUME NEW i \in DOMAIN requests PROVE RequestInv(requests[i])'
    BY <1>1, EndRequestTyped DEF RequestsInv
  <2>1. RequestInv(requests[i]) /\ issued \subseteq issued' /\ next \in issued'
    BY <1>1 DEF IInv, RequestsInv
  <2>2. /\ requests'[i].call = requests[i].call
        /\ requests'[i].value = requests[i].value
        /\ requests'[i].ifMatch = requests[i].ifMatch
        /\ i # id => requests'[i].status = requests[i].status
    BY <1>1, EndRequestTyped
  <2> QED BY <2>1, <2>2 DEF RequestInv
<1> QED BY <1>5, <1>6, <1>7, <1>8, <1>9, <1>10 DEF IInv

LEMMA Inductive == IInv /\ [Next]_vars => IInv'
<1> SUFFICES ASSUME IInv, [Next]_vars PROVE IInv'
  OBVIOUS
<1>1. CASE Expire
  BY <1>1, ServiceKept
  DEF Expire, IInv, TypeOK, SnapshotsGenuine, NilMeansAchieved, WorkerInv, MetSince, serviceVars,
      workerVars
<1>2. ASSUME NEW w \in Worker, Begin(w) \/ Step(w) PROVE IInv'
  BY <1>2, WorkerStep, AcceptStep
<1>3. ASSUME NEW id \in DOMAIN requests, Apply(id) \/ Fail(id) PROVE IInv'
  BY <1>3, ApplyStep, FailStep
<1>4. CASE UNCHANGED vars
  BY <1>4, ServiceKept
  DEF IInv, TypeOK, SnapshotsGenuine, NilMeansAchieved, WorkerInv, MetSince, vars, serviceVars,
      cacheVars, workerVars
<1> QED BY <1>1, <1>2, <1>3, <1>4 DEF Next

-----------------------------------------------------------------------------
(* Theorems.                                                                 *)

LEMMA Invariant == Spec => []IInv
BY Initially, Inductive, PTL DEF Spec

\* Type correctness.
THEOREM TypeCorrect == Spec => []TypeOK
<1>1. IInv => TypeOK
  BY DEF IInv
<1> QED BY <1>1, Invariant, PTL

\* The pair of document and ETag in the cache or in a worker's hands is one the
\* service has issued, for any number of workers filling one cache without a
\* lock around their GETs.
THEOREM SnapshotsAreGenuine == Spec => []SnapshotsGenuine
<1>1. IInv => SnapshotsGenuine
  BY DEF IInv
<1> QED BY <1>1, Invariant, PTL

\* A call that says nil (other than on a 409 taken for "already present") had
\* its aim met by the version it read or a later one, and by none older than the
\* acceptance of its request, if one was accepted.
THEOREM NilIsEarned == Spec => []NilMeansAchieved
<1>1. IInv => NilMeansAchieved
  BY DEF IInv
<1> QED BY <1>1, Invariant, PTL

-----------------------------------------------------------------------------
(* LoadBalancerClient implements LoadBalancerStore.                          *)

\* The store speaks of the same documents and calls.
LEMMA SameStore ==
  /\ Store!Document = Document /\ Store!Call = Call
  /\ \A c, doc : Store!Valid(c, doc) = Valid(c, doc)
  /\ \A c, doc : Store!NewValue(c, doc) = NewValue(c, doc)
  /\ \A c, doc, value : Store!Put(c, doc, value) = Put(c, doc, value)
<1>1. Store!Document = Document
  BY DEF Store!Document, Document, Store!BackendSetValue, BackendSetValue, Store!ListenerValue,
     ListenerValue, Store!Rules, Rules
<1>2. Store!Call = Call
  BY DEF Store!Call, Call, Store!BackendSetCall, BackendSetCall, Store!ListenerCall, ListenerCall,
     Store!RoutingPolicyCall, RoutingPolicyCall, Store!BackendSetValue, BackendSetValue,
     Store!Rules, Rules
<1>3. \A c, doc : Store!Resource(c, doc) = Resource(c, doc)
  BY DEF Store!Resource, Resource, Store!Part, Part
<1>4. \A c, doc : Store!Valid(c, doc) = Valid(c, doc)
  BY <1>3 DEF Store!Valid, Valid, Store!Present, Present, Store!References, References,
     Store!CreateKinds, CreateKinds
<1>5. \A c, doc : Store!NewValue(c, doc) = NewValue(c, doc)
  BY <1>3 DEF Store!NewValue, NewValue
<1>6. \A c, doc, value : Store!Put(c, doc, value) = Put(c, doc, value)
  BY DEF Store!Put, Put, Store!Part, Part
<1> QED BY <1>1, <1>2, <1>4, <1>5, <1>6

\* Every step of the client is one change of the store or none at all: only the
\* end of an accepted request changes the document, by its call's change.
LEMMA StepRefines == IInv /\ [Next]_vars => [Store!StoreNext]_(current.doc)
<1> SUFFICES ASSUME IInv, [Next]_vars PROVE [Store!StoreNext]_(current.doc)
  OBVIOUS
<1>1. ASSUME NEW id \in DOMAIN requests, Apply(id) PROVE Store!StoreNext
  <2> DEFINE c == requests[id].call
  <2>1. /\ Matches(requests[id].ifMatch) /\ Valid(c, current.doc)
        /\ current'.doc = Put(c, current.doc, requests[id].value)
    BY <1>1 DEF Apply
  <2>2. c \in Call /\ requests[id].value = NewValue(c, current.doc)
    BY <2>1, BuiltFromCurrent
  <2>3. Store!Change(c)
    BY <2>1, <2>2, SameStore DEF Store!Change
  <2> QED BY <2>2, <2>3, SameStore DEF Store!StoreNext
<1>2. ASSUME NEW w \in Worker, Begin(w) \/ Step(w) PROVE current' = current
  BY <1>2 DEF Begin, Step, ReadCached, Fetch, FetchFails, Fill, Refill, Skip, NotFound, Accept,
     AlreadyDone, TakenAsDone, ListenerExists, Refused, WaitSucceeded, WaitFailed, WaitAbandoned,
     serviceVars
<1>3. ASSUME NEW id \in DOMAIN requests, Fail(id) PROVE current' = current
  BY <1>3 DEF Fail
<1>4. CASE Expire \/ UNCHANGED vars
  BY <1>4 DEF Expire, vars, serviceVars
<1> QED BY <1>1, <1>2, <1>3, <1>4 DEF Next

\* No lost update, for any number of workers and controllers: the load balancer
\* changes by one call's change at a time, applied to what it holds at that moment.
THEOREM ClientImplementsStore == Spec => ImplementsStore
<1>1. Init => Store!StoreInit
  BY ClientAssumption, SameStore DEF Init, Store!StoreInit
<1> QED BY <1>1, StepRefines, Invariant, PTL DEF Spec, ImplementsStore, Store!StoreSpec
=============================================================================
