--------------------- MODULE CertificateLifecycle_proofs ---------------------
(***************************************************************************)
(* Proofs about CertificateLifecycle, for any Ingresses, any number of     *)
(* UIDs and of versions of the secret, and any number of events.           *)
(*                                                                         *)
(* The heart of IInv is SettledInv: once a sync has compared or written    *)
(* the resource, for the secret as it still is, the resource is right, or  *)
(* some other sync is on record that has made it wrong and has not         *)
(* compared since. What syncs rely on with that is the rest.               *)
(***************************************************************************)
EXTENDS CertificateLifecycle, TLAPS

-----------------------------------------------------------------------------
(* The inductive invariant.                                                  *)

\* What a sync has read is what the secret holds, or the sync is followed by another;
\* the same for whether the Ingress uses the secret.
ReadInv ==
  /\ OldSecretRead
  /\ \A i \in Ingress : pc[i] # "idle" /\ i \notin pending => (i \in wants <=> seen[i] # None)
  /\ \A i \in Ingress : seen[i] = None => pc[i] \in {"idle", "use"}

\* A sync that has the id of a resource keeps it from going; what is in use is not
\* on its way out.
HeldInv ==
  /\ \A i \in Ingress : seen[i] # None /\ pc[i] # "create" => resource[seen[i].uid] # None
  /\ \A u \in Uid : Associated(u) => Usable(u)

\* Who was given up is at rest; who is not about is too.
RestInv ==
  /\ \A i \in dropped : i \notin pending /\ pc[i] = "idle"
  /\ \A i \in Ingress \ instance.ingresses : i \notin pending \cup dropped /\ pc[i] = "idle"

\* An entry of the cache is about the resource it is kept for. A resource that is
\* being created has the tags it is created with.
CacheInv == \A u \in Uid : cache[u] # None => cache[u].copy.uid = u
CreatingInv == \A u \in Uid : InState(u, {"creating"}) => resource[u].tags = "hash"

\* What is done after a wait; and a sync that prunes has done with its copy.
ThenInv ==
  \A i \in Ingress : /\ pc[i] = "wait" => then[i] \in {"use", "prune"}
                     /\ pc[i] = "prune" => copy[i] = None

\* The sync of i has not compared the resource yet, or has; or i is synced.
Comparing(place, next) == place = "get" \/ (place = "fill" /\ next = "compare")
Compared(place, next)  ==
  place \in {"wait", "prune", "use"} \/ (place = "fill" /\ next \in {"prune", "use"})
Before(i)  == Comparing(pc[i], then[i])
Past(i)    == Compared(pc[i], then[i])
Settled(i) == i \notin pending \cup dropped /\ (pc[i] = "idle" \/ Past(i))

\* The resource is what the secret holds, and has no deletion time but one that it
\* got while it was used.
Right ==
  /\ resource[secret.uid] # None /\ resource[secret.uid].version = secret.version
  /\ resource[secret.uid].tags = "hash" \/ secret.uid \in late

\* Ingresses on record that would still compare with what the secret holds now.
Blamed == {j \in misled : Before(j) => seen[j] = secret}

SettledInv ==
  /\ \A i \in Ingress : Settled(i) /\ pc[i] = "idle" => attached[i] = IF i \in wants THEN secret.uid ELSE None
  /\ \A i \in wants : Settled(i) => Right \/ Blamed # {}

IInv ==
  /\ TypeOK
  /\ ReadInv /\ HeldInv /\ RestInv /\ CacheInv /\ CreatingInv /\ ThenInv /\ SettledInv

-----------------------------------------------------------------------------
(* Facts about the values.                                                   *)

\* The Ingresses that use the secret are there.
LEMMA WantsAreIngresses == ServiceTypeOK => wants \subseteq instance.ingresses /\ instance.ingresses \subseteq Ingress
BY CertificateAssumption DEF ServiceTypeOK

Secret == [uid : Uid, version : Version]

\* A new etag changes nothing else of a copy.
LEMMA TouchKeeps ==
  ASSUME ServiceTypeOK, NEW us, Touch(us)
  PROVE  /\ cache' \in [Uid -> CacheEntry \cup {None}] /\ copy' \in [Ingress -> Copy \cup {None}]
         /\ \A u \in Uid : /\ cache'[u] # None <=> cache[u] # None
                           /\ cache'[u] # None => cache'[u].copy.uid = cache[u].copy.uid
         /\ \A i \in Ingress : /\ copy'[i] # None <=> copy[i] # None
                               /\ copy'[i] # None => copy'[i].uid = copy[i].uid
<1>1. \A c \in Copy : Outdated(c, us) \in Copy /\ Outdated(c, us).uid = c.uid
  BY DEF Outdated, Copy
<1>2. Outdated(None, us) = None
  BY DEF Outdated
<1>3. None \notin Copy /\ None \notin CacheEntry
  BY NoneAssumption
<1>4. \A e \in CacheEntry : LET f == [e EXCEPT !.copy = Outdated(@, us)]
                            IN  f \in CacheEntry /\ f.copy.uid = e.copy.uid
  BY <1>1 DEF CacheEntry
<1>5. /\ cache' = [u \in Uid |-> IF cache[u] = None THEN None
                                 ELSE [cache[u] EXCEPT !.copy = Outdated(@, us)]]
      /\ copy' = [i \in Ingress |-> Outdated(copy[i], us)]
  BY DEF Touch
<1>6. cache \in [Uid -> CacheEntry \cup {None}] /\ copy \in [Ingress -> Copy \cup {None}]
  BY DEF ServiceTypeOK
<1>7. \A i \in Ingress : /\ copy'[i] \in Copy \cup {None}
                         /\ copy'[i] # None <=> copy[i] # None
                         /\ copy'[i] # None => copy'[i].uid = copy[i].uid
  <2> HIDE DEF Outdated
  <2> QED BY <1>1, <1>2, <1>3, <1>5, <1>6
<1>8. \A u \in Uid : /\ cache'[u] \in CacheEntry \cup {None}
                     /\ cache'[u] # None <=> cache[u] # None
                     /\ cache'[u] # None => cache'[u].copy.uid = cache[u].copy.uid
  <2> SUFFICES ASSUME NEW u \in Uid
               PROVE  /\ cache'[u] \in CacheEntry \cup {None}
                      /\ cache'[u] # None <=> cache[u] # None
                      /\ cache'[u] # None => cache'[u].copy.uid = cache[u].copy.uid
    OBVIOUS
  <2>1. CASE cache[u] = None
    BY <1>5, <2>1
  <2>2. CASE cache[u] \in CacheEntry
    <3> DEFINE f == [cache[u] EXCEPT !.copy = Outdated(@, us)]
    <3>1. f \in CacheEntry /\ f.copy.uid = cache[u].copy.uid
      BY <1>4, <2>2
    <3>2. cache'[u] = f
      BY <1>3, <1>5, <2>2
    <3> HIDE DEF f
    <3> QED BY <1>3, <2>2, <3>1, <3>2
  <2> QED BY <1>6, <2>1, <2>2
<1> QED BY <1>5, <1>7, <1>8

\* The same of a change of a resource.
LEMMA PutKeeps ==
  ASSUME ServiceTypeOK, NEW u \in Uid, NEW r \in Resource, Put(u, r)
  PROVE  /\ resource' \in [Uid -> Resource \cup {None}] /\ resource'[u] = r /\ r # None
         /\ \A v \in Uid : v # u => resource'[v] = resource[v]
         /\ cache' \in [Uid -> CacheEntry \cup {None}] /\ copy' \in [Ingress -> Copy \cup {None}]
         /\ \A v \in Uid : /\ cache'[v] # None <=> cache[v] # None
                           /\ cache'[v] # None => cache'[v].copy.uid = cache[v].copy.uid
         /\ \A i \in Ingress : /\ copy'[i] # None <=> copy[i] # None
                               /\ copy'[i] # None => copy'[i].uid = copy[i].uid
<1>1. resource' = [resource EXCEPT ![u] = r] /\ Touch({u})
  BY DEF Put
<1>2. r # None
  BY NoneAssumption
<1> QED BY <1>1, <1>2, TouchKeeps DEF ServiceTypeOK

\* An event less to come.
LEMMA EventTyped ==
  ASSUME ServiceTypeOK, Event \/ UNCHANGED left
  PROVE  left' \in Nat
BY DEF ServiceTypeOK, Event

\* What a sync that is not idle is at.
LEMMA SyncHolds ==
  ASSUME IInv, NEW i \in Ingress
  PROVE  /\ pc[i] \in Place /\ then[i] \in Then \cup {None} /\ seen[i] \in Secret \cup {None}
         /\ pc[i] \notin {"idle", "use"} => /\ seen[i] \in Secret /\ seen[i].uid \in Uid
                                            /\ seen[i].version \in Version /\ seen[i] # None
         /\ pc[i] # "idle" => i \in instance.ingresses /\ i \notin dropped
         /\ i \in wants /\ pc[i] # "idle" /\ i \notin pending => seen[i] = secret
BY NoneAssumption DEF IInv, TypeOK, SyncTypeOK, ReadInv, OldSecretRead, RestInv, Secret

-----------------------------------------------------------------------------
(* Steps of the service and of the cleanup task.                             *)

\* A step that leaves the syncs alone keeps what they rely on, if a resource that a
\* sync or a listener has stays there, what is in use stays usable, and what is marked
\* while it is in use is on record.
LEMMA ServiceMoves ==
  ASSUME IInv, UNCHANGED <<kind, secret, instance, wants, attached>>, UNCHANGED syncVars,
         ServiceTypeOK', CleanupTypeOK', CacheInv', CreatingInv',
         \A i \in Ingress : /\ copy'[i] # None <=> copy[i] # None
                            /\ copy'[i] # None => copy'[i].uid = copy[i].uid,
         \A u \in Uid : Associated(u) \/ Users(u) # {} =>
           /\ resource[u] # None => /\ resource'[u] # None
                                    /\ resource'[u].version = resource[u].version
                                    /\ (resource[u].tags = "hash" \/ u \in late)
                                         => (resource'[u].tags = "hash" \/ u \in late')
           /\ Associated(u) /\ Usable(u) => Usable(u)'
  PROVE  IInv'
<1>1. /\ pending' = pending /\ dropped' = dropped /\ misled' = misled
      /\ pc' = pc /\ then' = then /\ seen' = seen
  BY DEF syncVars
<1>2. SyncTypeOK'
  BY <1>1 DEF IInv, TypeOK, SyncTypeOK
<1>3. ReadInv' /\ RestInv' /\ ThenInv'
  BY <1>1 DEF IInv, ReadInv, OldSecretRead, RestInv, ThenInv
<1>4. HeldInv'
  <2>1. \A u \in Uid : Associated(u)' <=> Associated(u)
    BY DEF Associated
  <2>2. ASSUME NEW i \in Ingress, seen'[i] # None, pc'[i] # "create"
        PROVE  resource'[seen'[i].uid] # None
    <3>1. i \in Users(seen[i].uid) /\ seen[i].uid \in Uid /\ resource[seen[i].uid] # None
      BY <1>1, <2>2 DEF Users, IInv, TypeOK, SyncTypeOK, HeldInv
    <3> QED BY <1>1, <3>1
  <2> QED BY <2>1, <2>2 DEF HeldInv, IInv
<1>5. SettledInv'
  <2>1. \A i \in Ingress : Settled(i)' <=> Settled(i)
    BY <1>1 DEF Settled, Past
  <2>2. Blamed' = Blamed
    BY <1>1 DEF Blamed, Before
  <2>3. ASSUME NEW i \in wants, Settled(i), Right
        PROVE  Right'
    <3>1. i \in Ingress /\ secret.uid \in Uid /\ None \notin Uid
      BY CertificateAssumption, WantsAreIngresses DEF IInv, TypeOK, ServiceTypeOK
    <3>2. CASE pc[i] = "idle"
      <4>1. Associated(secret.uid)
        BY <2>3, <3>1, <3>2 DEF Associated, IInv, SettledInv
      <4> QED BY <2>3, <3>1, <4>1 DEF Right
    <3>3. CASE pc[i] # "idle"
      <4>1. seen[i] = secret /\ pc[i] # "create"
        BY <2>3, <3>1, <3>3, SyncHolds DEF Settled, Past, Compared
      <4>2. secret # None
        BY NoneAssumption DEF IInv, TypeOK, ServiceTypeOK
      <4>3. i \in Users(secret.uid)
        BY <3>1, <4>1, <4>2 DEF Users
      <4> QED BY <2>3, <3>1, <4>3 DEF Right
    <3> QED BY <3>2, <3>3
  <2>4. \A i \in Ingress : Settled(i)' /\ pc'[i] = "idle" => attached'[i] = IF i \in wants' THEN secret'.uid ELSE None
    BY <1>1, <2>1 DEF SettledInv, IInv
  <2>5. \A i \in wants' : Settled(i)' => Right' \/ Blamed' # {}
    BY <2>1, <2>2, <2>3, WantsAreIngresses DEF SettledInv, IInv, TypeOK
  <2> QED BY <2>4, <2>5 DEF SettledInv
<1> QED BY <1>2, <1>3, <1>4, <1>5 DEF IInv, TypeOK

LEMMA SettleKeeps ==
  ASSUME IInv, NEW u \in Uid, Settle(u), UNCHANGED <<syncVars, cleanupVars, late>>
  PROVE  IInv'
<1> DEFINE r == [resource[u] EXCEPT !.state = "active"]
<1>1. /\ InState(u, {"creating", "updating"}) /\ Put(u, r)
      /\ UNCHANGED <<kind, instance, secret, wants, attached, left>>
  BY DEF Settle
<1>2. ServiceTypeOK
  BY DEF IInv, TypeOK
<1>3. resource[u] \in Resource
  BY <1>1, <1>2 DEF InState, ServiceTypeOK
<1>4. r \in Resource /\ r.version = resource[u].version /\ r.tags = resource[u].tags /\ r.state = "active"
  BY <1>3 DEF Resource
<1> HIDE DEF r
<1>5. /\ resource' \in [Uid -> Resource \cup {None}] /\ resource'[u] = r /\ r # None
      /\ \A v \in Uid : v # u => resource'[v] = resource[v]
      /\ cache' \in [Uid -> CacheEntry \cup {None}] /\ copy' \in [Ingress -> Copy \cup {None}]
      /\ \A v \in Uid : /\ cache'[v] # None <=> cache[v] # None
                        /\ cache'[v] # None => cache'[v].copy.uid = cache[v].copy.uid
      /\ \A i \in Ingress : /\ copy'[i] # None <=> copy[i] # None
                            /\ copy'[i] # None => copy'[i].uid = copy[i].uid
  BY <1>1, <1>2, <1>4, PutKeeps
<1>6. ServiceTypeOK' /\ CleanupTypeOK'
  BY <1>1, <1>5 DEF IInv, TypeOK, ServiceTypeOK, CleanupTypeOK, cleanupVars
<1>7. CacheInv' /\ CreatingInv'
  BY <1>4, <1>5 DEF IInv, CacheInv, CreatingInv, InState
<1>8. \A v \in Uid :
        /\ resource[v] # None => /\ resource'[v] # None /\ resource'[v].version = resource[v].version
                                 /\ resource'[v].tags = resource[v].tags
        /\ Usable(v) => Usable(v)'
  BY <1>4, <1>5 DEF Usable, InState
<1> QED BY <1>1, <1>5, <1>6, <1>7, <1>8, ServiceMoves

LEMMA ExpireKeeps ==
  ASSUME IInv, NEW u \in Uid, Expire(u), UNCHANGED <<syncVars, cleanupVars, late>>
  PROVE  IInv'
<1>1. /\ cache[u] # None /\ cache' = [cache EXCEPT ![u].fresh = FALSE]
      /\ UNCHANGED <<kind, instance, secret, wants, attached, resource, copy, left>>
  BY DEF Expire
<1>2. ServiceTypeOK
  BY DEF IInv, TypeOK
<1>3. cache[u] \in CacheEntry
  BY <1>1, <1>2 DEF ServiceTypeOK
<1>4. [cache[u] EXCEPT !.fresh = FALSE] \in CacheEntry /\ [cache[u] EXCEPT !.fresh = FALSE].copy = cache[u].copy
  BY <1>3 DEF CacheEntry
<1>5. /\ cache' \in [Uid -> CacheEntry \cup {None}]
      /\ \A v \in Uid : cache'[v] # None => cache[v] # None /\ cache'[v].copy = cache[v].copy
  BY <1>1, <1>2, <1>4 DEF ServiceTypeOK
<1>6. ServiceTypeOK' /\ CleanupTypeOK'
  BY <1>1, <1>2, <1>5 DEF IInv, TypeOK, ServiceTypeOK, CleanupTypeOK, cleanupVars
<1>7. CacheInv' /\ CreatingInv'
  BY <1>1, <1>5 DEF IInv, CacheInv, CreatingInv, InState
<1> QED BY <1>1, <1>6, <1>7, ServiceMoves DEF Usable, InState

LEMMA DaysPassKeeps ==
  ASSUME IInv, NEW u \in Uid, DaysPass(u), UNCHANGED <<syncVars, cleanupVars, late>>
  PROVE  IInv'
<1>1. ServiceTypeOK /\ Users(u) = {}
  BY DEF IInv, TypeOK, DaysPass
<1>2. CASE Leave(u)
  <2>1. /\ InState(u, {"leaving"})
        /\ resource' = [resource EXCEPT ![u] = None] /\ cache' = [cache EXCEPT ![u] = None]
        /\ UNCHANGED <<kind, instance, secret, wants, attached, copy, left>>
    BY <1>2 DEF Leave
  <2>2. ~Associated(u)
    BY <2>1 DEF IInv, HeldInv, Usable, InState
  <2>3. ServiceTypeOK' /\ CleanupTypeOK'
    BY <1>1, <2>1 DEF IInv, TypeOK, ServiceTypeOK, CleanupTypeOK, cleanupVars
  <2>4. CacheInv' /\ CreatingInv'
    BY <1>1, <2>1 DEF IInv, CacheInv, CreatingInv, InState, ServiceTypeOK
  <2>5. \A v \in Uid : v # u => resource'[v] = resource[v]
    BY <1>1, <2>1 DEF ServiceTypeOK
  <2> QED BY <1>1, <2>1, <2>2, <2>3, <2>4, <2>5, ServiceMoves DEF Usable, InState
<1>3. CASE GracePasses(u)
  <2>1. /\ InState(u, {"active"}) /\ resource[u].tags = "marked"
        /\ resource' = [resource EXCEPT ![u].tags = "expired"]
        /\ UNCHANGED <<kind, instance, secret, wants, attached, cache, copy, left>>
    BY <1>3 DEF GracePasses
  <2> DEFINE r == [resource[u] EXCEPT !.tags = "expired"]
  <2>2. resource[u] \in Resource
    BY <1>1, <2>1 DEF InState, ServiceTypeOK
  <2>3. r \in Resource /\ r.version = resource[u].version /\ r.state = "active" /\ r # None
    <3>1. r \in Resource /\ r.version = resource[u].version /\ r.state = "active"
      BY <2>1, <2>2 DEF Resource, Tags, InState
    <3> QED BY <3>1, NoneAssumption
  <2>4. resource' = [resource EXCEPT ![u] = r]
    BY <2>1
  <2> HIDE DEF r
  <2>5. /\ resource' \in [Uid -> Resource \cup {None}] /\ resource'[u] = r
        /\ \A v \in Uid : v # u => resource'[v] = resource[v]
    BY <1>1, <2>3, <2>4 DEF ServiceTypeOK
  <2>6. ServiceTypeOK' /\ CleanupTypeOK'
    BY <1>1, <2>1, <2>5 DEF IInv, TypeOK, ServiceTypeOK, CleanupTypeOK, cleanupVars
  <2>7. CacheInv' /\ CreatingInv'
    BY <2>1, <2>3, <2>5 DEF IInv, CacheInv, CreatingInv, InState
  <2>8. \A v \in Uid :
          /\ resource[v] # None =>
               /\ resource'[v] # None /\ resource'[v].version = resource[v].version
               /\ (resource[v].tags = "hash" \/ v \in late) => (resource'[v].tags = "hash" \/ v \in late)
          /\ Usable(v) => Usable(v)'
    BY <2>1, <2>3, <2>5 DEF Usable, InState
  <2> QED BY <2>1, <2>6, <2>7, <2>8, ServiceMoves
<1> QED BY <1>2, <1>3 DEF DaysPass

\* The steps of the cleanup task that do not touch a resource.
LEMMA CleanupReads ==
  ASSUME IInv, UNCHANGED <<kind, instance, secret, wants, attached, resource, cache, copy>>,
         left' \in Nat, UNCHANGED syncVars, CleanupTypeOK', RecordMark
  PROVE  IInv'
<1>1. ServiceTypeOK' /\ CacheInv' /\ CreatingInv'
  BY DEF IInv, TypeOK, ServiceTypeOK, CacheInv, CreatingInv, InState
<1>2. \A u \in Uid : u \in late => u \in late'
  BY DEF RecordMark
<1> QED BY <1>1, <1>2, ServiceMoves DEF Usable, InState

LEMMA MarkKeeps == ASSUME IInv, NEW u \in Uid, Mark(u), RecordMark, UNCHANGED syncVars PROVE IInv'
<1>1. ServiceTypeOK /\ CleanupTypeOK /\ CleanupTypeOK' /\ left' \in Nat
  BY EventTyped DEF Mark, IInv, TypeOK, CleanupTypeOK
<1>2. CASE UNCHANGED <<resource, cache, copy>>
  BY <1>1, <1>2, CleanupReads DEF Mark
<1>3. CASE InState(u, {"active"}) /\ Put(u, [resource[u] EXCEPT !.state = "updating", !.tags = "marked"])
  <2> DEFINE r == [resource[u] EXCEPT !.state = "updating", !.tags = "marked"]
  <2>1. resource[u] \in Resource
    BY <1>1, <1>3 DEF InState, ServiceTypeOK
  <2>2. r \in Resource /\ r.version = resource[u].version /\ r.state = "updating" /\ r.tags = "marked"
    BY <2>1 DEF Resource, Tags
  <2>3. Put(u, r) /\ UNCHANGED <<kind, instance, secret, wants, attached>>
    BY <1>3 DEF Mark
  <2> HIDE DEF r
  <2>4. /\ resource' \in [Uid -> Resource \cup {None}] /\ resource'[u] = r /\ r # None
        /\ \A v \in Uid : v # u => resource'[v] = resource[v]
        /\ cache' \in [Uid -> CacheEntry \cup {None}] /\ copy' \in [Ingress -> Copy \cup {None}]
        /\ \A v \in Uid : /\ cache'[v] # None <=> cache[v] # None
                          /\ cache'[v] # None => cache'[v].copy.uid = cache[v].copy.uid
        /\ \A i \in Ingress : /\ copy'[i] # None <=> copy[i] # None
                              /\ copy'[i] # None => copy'[i].uid = copy[i].uid
    BY <1>1, <2>2, <2>3, PutKeeps
  <2>5. ServiceTypeOK'
    BY <1>1, <2>3, <2>4 DEF ServiceTypeOK
  <2>6. CacheInv' /\ CreatingInv'
    BY <2>2, <2>4 DEF IInv, CacheInv, CreatingInv, InState
  <2>7. \A v \in Uid : Associated(v) \/ Users(v) # {} =>
          ((resource[v].tags = "hash" \/ v \in late) => (resource'[v].tags = "hash" \/ v \in late'))
    <3> SUFFICES ASSUME NEW v \in Uid, Associated(v) \/ Users(v) # {},
                        resource[v].tags = "hash" \/ v \in late
                 PROVE  resource'[v].tags = "hash" \/ v \in late'
      OBVIOUS
    <3>1. CASE v # u
      BY <2>4, <3>1 DEF RecordMark
    <3>2. CASE v = u
      BY <1>3, <2>2, <2>4, <3>2 DEF RecordMark, InState
    <3> QED BY <3>1, <3>2
  <2>8. \A v \in Uid :
          /\ resource[v] # None => resource'[v] # None /\ resource'[v].version = resource[v].version
          /\ Usable(v) => Usable(v)'
    BY <2>2, <2>4 DEF Usable, InState
  <2> QED BY <1>1, <2>3, <2>4, <2>5, <2>6, <2>7, <2>8, ServiceMoves
<1> QED BY <1>2, <1>3 DEF Mark

\* Only what is not in use is deleted, and a resource that leaves still is there.
LEMMA DeleteKeeps == ASSUME IInv, NEW u \in Uid, Delete(u), RecordMark, UNCHANGED syncVars PROVE IInv'
<1>1. ServiceTypeOK /\ CleanupTypeOK /\ CleanupTypeOK' /\ left' \in Nat
  BY EventTyped DEF Delete, IInv, TypeOK, CleanupTypeOK
<1>2. CASE UNCHANGED <<resource, cache, copy>>
  BY <1>1, <1>2, CleanupReads DEF Delete
<1>3. CASE InState(u, {"active"}) /\ ~Associated(u) /\ Put(u, [resource[u] EXCEPT !.state = "leaving"])
  <2> DEFINE r == [resource[u] EXCEPT !.state = "leaving"]
  <2>1. resource[u] \in Resource
    BY <1>1, <1>3 DEF InState, ServiceTypeOK
  <2>2. r \in Resource /\ r.version = resource[u].version /\ r.tags = resource[u].tags /\ r.state = "leaving"
    BY <2>1 DEF Resource
  <2>3. Put(u, r) /\ UNCHANGED <<kind, instance, secret, wants, attached>>
    BY <1>3 DEF Delete
  <2> HIDE DEF r
  <2>4. /\ resource' \in [Uid -> Resource \cup {None}] /\ resource'[u] = r /\ r # None
        /\ \A v \in Uid : v # u => resource'[v] = resource[v]
        /\ cache' \in [Uid -> CacheEntry \cup {None}] /\ copy' \in [Ingress -> Copy \cup {None}]
        /\ \A v \in Uid : /\ cache'[v] # None <=> cache[v] # None
                          /\ cache'[v] # None => cache'[v].copy.uid = cache[v].copy.uid
        /\ \A i \in Ingress : /\ copy'[i] # None <=> copy[i] # None
                              /\ copy'[i] # None => copy'[i].uid = copy[i].uid
    BY <1>1, <2>2, <2>3, PutKeeps
  <2>5. ServiceTypeOK'
    BY <1>1, <2>3, <2>4 DEF ServiceTypeOK
  <2>6. CacheInv' /\ CreatingInv'
    BY <2>2, <2>4 DEF IInv, CacheInv, CreatingInv, InState
  <2>7. \A v \in Uid :
          /\ v \in late => v \in late' \/ resource'[v].tags = "hash"
          /\ resource[v] # None => /\ resource'[v] # None /\ resource'[v].version = resource[v].version
                                   /\ resource'[v].tags = resource[v].tags
          /\ Associated(v) /\ Usable(v) => Usable(v)'
    BY <1>3, <2>2, <2>4 DEF Usable, InState, RecordMark
  <2> QED BY <1>1, <2>3, <2>4, <2>5, <2>6, <2>7, ServiceMoves
<1> QED BY <1>2, <1>3 DEF Delete

LEMMA CleanupKeeps == ASSUME IInv, CleanupTask PROVE IInv'
<1>1. RecordMark /\ UNCHANGED syncVars /\ CleanupTypeOK
  BY DEF CleanupTask, IInv, TypeOK
<1>2. CASE List
  <2>1. CleanupTypeOK' /\ left' \in Nat
    BY <1>1, <1>2 DEF List, Listed, CleanupTypeOK, serviceVars, IInv, TypeOK, ServiceTypeOK
  <2> QED BY <1>1, <1>2, <2>1, CleanupReads DEF List, serviceVars
<1>3. CASE Abort
  <2>1. CleanupTypeOK' /\ left' \in Nat
    BY <1>3, EventTyped DEF Abort, RoundOver, CleanupTypeOK, IInv, TypeOK
  <2> QED BY <1>1, <1>3, <2>1, CleanupReads DEF Abort
<1>4. ASSUME NEW u \in Uid, Check(u) PROVE IInv'
  <2>1. CleanupTypeOK' /\ left' \in Nat
    BY <1>1, <1>4 DEF Check, CleanupTypeOK, serviceVars, IInv, TypeOK, ServiceTypeOK
  <2> QED BY <1>1, <1>4, <2>1, CleanupReads DEF Check, serviceVars
<1> QED BY <1>1, <1>2, <1>3, <1>4, MarkKeeps, DeleteKeeps DEF CleanupTask, CleanupStep

-----------------------------------------------------------------------------
(* Steps of a sync.                                                          *)

\* What others rely on when the sync of i moves.
OthersStay(i) ==
  /\ UNCHANGED <<kind, secret, instance, wants, checks, marks, deletes, late>>
  /\ \A j \in Ingress \ {i} :
       /\ j \in pending' <=> j \in pending
       /\ j \in dropped' <=> j \in dropped
       /\ attached'[j] = attached[j]
       /\ copy'[j] # None <=> copy[j] # None
       /\ copy'[j] # None => copy'[j].uid = copy[j].uid
  /\ \A u \in Uid : /\ resource[u] # None => resource'[u] # None
                    /\ Usable(u) => Usable(u)'

\* The sync of i is at a place, does next what it is to do after a wait, and works with sec.
Moves(i, place, next, sec) ==
  /\ pc' = [pc EXCEPT ![i] = place]
  /\ then' = [then EXCEPT ![i] = next]
  /\ seen' = [seen EXCEPT ![i] = sec]

\* What the types ask of a sync.
Holds(i, place, next, sec) ==
  /\ next # None <=> place \in {"wait", "fill"}
  /\ place = "idle" => sec = None
  /\ place \in {"idle", "create", "get", "use", "prune"} => copy'[i] = None
  /\ place \in {"send", "fill"} => copy'[i] # None /\ copy'[i].uid = sec.uid
  /\ place = "wait" => next \in {"use", "prune"}

\* A move keeps the invariant if it does for the Ingress itself, and those who are
\* synced find the resource right, or somebody to blame, as they did.
LEMMA SyncMoves ==
  ASSUME IInv, NEW i \in Ingress, i \in instance.ingresses,
         NEW place \in Place, NEW next \in Then \cup {None}, NEW sec \in Secret \cup {None},
         Moves(i, place, next, sec), Holds(i, place, next, sec), OthersStay(i),
         ServiceTypeOK', CacheInv', CreatingInv',
         pending' \subseteq Ingress, dropped' \subseteq Ingress, misled' \subseteq Ingress,
         sec # None /\ sec # secret => i \in pending',
         place # "idle" /\ i \notin pending' => (i \in wants <=> sec # None),
         sec = None => place \in {"idle", "use"},
         sec # None /\ place # "create" => resource'[sec.uid] # None,
         \A u \in Uid : attached'[i] = u /\ attached[i] # u => Usable(u)',
         i \in dropped' => i \notin pending' /\ place = "idle",
         i \notin pending' \cup dropped' /\ place = "idle" =>
           attached'[i] = IF i \in wants THEN secret.uid ELSE None,
         i \in wants /\ Settled(i)' => Right' \/ Blamed' # {},
         Right \/ Blamed # {} => Right' \/ Blamed' # {}
  PROVE  IInv'
<1>1. /\ ServiceTypeOK /\ SyncTypeOK /\ ReadInv /\ HeldInv /\ RestInv /\ ThenInv /\ SettledInv
      /\ \A j \in Ingress : pc[j] \in Place /\ then[j] \in Then \cup {None} /\ seen[j] \in Secret \cup {None}
  BY DEF IInv, TypeOK, SyncTypeOK, Secret
<1>2. /\ UNCHANGED <<kind, secret, instance, wants, checks, marks, deletes, late>>
      /\ \A j \in Ingress \ {i} :
           /\ j \in pending' <=> j \in pending
           /\ j \in dropped' <=> j \in dropped
           /\ attached'[j] = attached[j]
           /\ copy'[j] # None <=> copy[j] # None
           /\ copy'[j] # None => copy'[j].uid = copy[j].uid
      /\ \A u \in Uid : /\ resource[u] # None => resource'[u] # None
                        /\ Usable(u) => Usable(u)'
  BY DEF OthersStay
<1>3. /\ pc'[i] = place /\ then'[i] = next /\ seen'[i] = sec
      /\ \A j \in Ingress \ {i} : pc'[j] = pc[j] /\ then'[j] = then[j] /\ seen'[j] = seen[j]
      /\ pc' \in [Ingress -> Place] /\ then' \in [Ingress -> Then \cup {None}]
      /\ seen' \in [Ingress -> Secret \cup {None}]
  BY <1>1 DEF Moves, SyncTypeOK, Secret
<1>4. SyncTypeOK'
  <2>1. \A j \in Ingress :
          /\ then'[j] # None <=> pc'[j] \in {"wait", "fill"}
          /\ pc'[j] = "idle" => seen'[j] = None
          /\ pc'[j] \in {"idle", "create", "get", "use"} => copy'[j] = None
          /\ pc'[j] \in {"send", "fill"} => copy'[j] # None /\ copy'[j].uid = seen'[j].uid
    <3>1. ASSUME NEW j \in Ingress \ {i}
          PROVE  /\ then'[j] # None <=> pc'[j] \in {"wait", "fill"}
                 /\ pc'[j] = "idle" => seen'[j] = None
                 /\ pc'[j] \in {"idle", "create", "get", "use"} => copy'[j] = None
                 /\ pc'[j] \in {"send", "fill"} => copy'[j] # None /\ copy'[j].uid = seen'[j].uid
      BY <1>1, <1>2, <1>3, <3>1 DEF SyncTypeOK
    <3>2. /\ then'[i] # None <=> pc'[i] \in {"wait", "fill"}
          /\ pc'[i] = "idle" => seen'[i] = None
          /\ pc'[i] \in {"idle", "create", "get", "use"} => copy'[i] = None
          /\ pc'[i] \in {"send", "fill"} => copy'[i] # None /\ copy'[i].uid = seen'[i].uid
      BY <1>3 DEF Holds
    <3> QED BY <3>1, <3>2
  <2> QED BY <1>3, <2>1 DEF SyncTypeOK, Secret
<1>5. TypeOK'
  BY <1>2, <1>4 DEF TypeOK, IInv, CleanupTypeOK
<1>6. ReadInv'
  BY <1>1, <1>2, <1>3 DEF ReadInv, OldSecretRead
<1>7. HeldInv'
  <2>1. ASSUME NEW j \in Ingress, seen'[j] # None, pc'[j] # "create"
        PROVE  resource'[seen'[j].uid] # None
    <3>1. CASE j = i
      BY <1>3, <2>1, <3>1
    <3>2. CASE j # i
      <4>1. seen[j] \in Secret /\ pc[j] # "create" /\ seen[j] # None
        BY <1>1, <1>3, <2>1, <3>2
      <4>2. seen[j].uid \in Uid /\ resource[seen[j].uid] # None
        BY <1>1, <4>1 DEF HeldInv, Secret
      <4> QED BY <1>2, <1>3, <3>2, <4>2
    <3> QED BY <3>1, <3>2
  <2>2. ASSUME NEW u \in Uid, NEW j \in Ingress, attached'[j] = u
        PROVE  Usable(u)'
    <3>1. u # None
      BY CertificateAssumption
    <3>2. CASE attached[j] = u
      BY <1>1, <1>2, <3>2 DEF HeldInv, Associated
    <3>3. CASE attached[j] # u
      BY <1>2, <2>2, <3>1, <3>3
    <3> QED BY <3>2, <3>3
  <2> QED BY <2>1, <2>2 DEF HeldInv, Associated
<1>8. RestInv'
  BY <1>1, <1>2, <1>3 DEF RestInv
<1>9. ThenInv'
  BY <1>1, <1>2, <1>3 DEF ThenInv, Holds
<1>10. SettledInv'
  <2>1. ASSUME NEW j \in Ingress, Settled(j)', pc'[j] = "idle"
        PROVE  attached'[j] = IF j \in wants' THEN secret'.uid ELSE None
    <3>1. CASE j = i
      BY <1>2, <1>3, <2>1, <3>1 DEF Settled
    <3>2. CASE j # i
      <4>1. Settled(j) /\ pc[j] = "idle"
        BY <1>2, <1>3, <2>1, <3>2 DEF Settled
      <4> QED BY <1>1, <1>2, <3>2, <4>1 DEF SettledInv
    <3> QED BY <3>1, <3>2
  <2>2. ASSUME NEW j \in wants', Settled(j)'
        PROVE  Right' \/ Blamed' # {}
    <3>1. j \in wants /\ j \in Ingress
      BY <1>1, <1>2, WantsAreIngresses
    <3>2. CASE j = i
      BY <2>2, <3>1, <3>2
    <3>3. CASE j # i
      <4>1. Settled(j)
        BY <1>2, <1>3, <2>2, <3>1, <3>3 DEF Settled, Past
      <4> QED BY <1>1, <3>1, <4>1 DEF SettledInv
    <3> QED BY <3>2, <3>3
  <2> QED BY <2>1, <2>2 DEF SettledInv
<1> QED BY <1>5, <1>6, <1>7, <1>8, <1>9, <1>10 DEF IInv

\* A sync goes on with the secret it has, and has the id of a resource that is there.
LEMMA GoesOn ==
  ASSUME IInv, NEW i \in Ingress, pc[i] # "idle", seen[i] # None,
         NEW place \in Place \ {"idle", "create"}, NEW next \in Then \cup {None},
         pc' = [pc EXCEPT ![i] = place], then' = [then EXCEPT ![i] = next],
         UNCHANGED <<kind, instance, secret, wants, attached, pending, dropped, seen>>,
         UNCHANGED <<cleanupVars, late>>,
         Holds(i, place, next, seen[i]),
         ServiceTypeOK', CacheInv', CreatingInv', misled' \subseteq Ingress,
         \A j \in Ingress \ {i} : /\ copy'[j] # None <=> copy[j] # None
                                  /\ copy'[j] # None => copy'[j].uid = copy[j].uid,
         \A u \in Uid : /\ resource[u] # None => resource'[u] # None
                        /\ Usable(u) => Usable(u)',
         resource'[seen[i].uid] # None,
         Compared(place, next) /\ i \in wants /\ i \notin pending => Right' \/ Blamed' # {},
         Right \/ Blamed # {} => Right' \/ Blamed' # {}
  PROVE  IInv'
<1> DEFINE sec == seen[i]
<1>1. sec \in Secret \cup {None} /\ i \in instance.ingresses /\ i \notin dropped
  BY SyncHolds
<1>2. seen \in [Ingress -> Secret \cup {None}]
  BY DEF IInv, TypeOK, SyncTypeOK, Secret
<1>3. Moves(i, place, next, sec)
  BY <1>2 DEF Moves
<1>4. Holds(i, place, next, sec) /\ sec # None
  OBVIOUS
<1>5. OthersStay(i)
  BY DEF OthersStay, cleanupVars
<1>6. /\ pending' \subseteq Ingress /\ dropped' \subseteq Ingress
      /\ sec # None /\ sec # secret => i \in pending'
      /\ place # "idle" /\ i \notin pending' => (i \in wants <=> sec # None)
      /\ resource'[sec.uid] # None
      /\ i \notin dropped'
  BY <1>1 DEF IInv, TypeOK, SyncTypeOK, ReadInv, OldSecretRead
<1>7. i \in wants /\ Settled(i)' => Right' \/ Blamed' # {}
  <2>1. pc'[i] = place /\ then'[i] = next
    BY DEF IInv, TypeOK, SyncTypeOK
  <2>2. Settled(i)' => i \notin pending /\ Compared(place, next)
    BY <2>1 DEF Settled, Past
  <2> QED BY <2>2
<1>8. \A u \in Uid : attached'[i] = u /\ attached[i] # u => Usable(u)'
  OBVIOUS
<1> HIDE DEF sec
<1> QED BY <1>1, <1>3, <1>4, <1>5, <1>6, <1>7, <1>8, SyncMoves

\* A sync goes on, and no more than a read is made, or an etag changed.
LEMMA ReadsOn ==
  ASSUME IInv, NEW i \in Ingress, pc[i] \notin {"idle", "create"}, seen[i] # None,
         NEW place \in Place \ {"idle", "create"}, NEW next \in Then \cup {None},
         pc' = [pc EXCEPT ![i] = place], then' = [then EXCEPT ![i] = next],
         UNCHANGED <<kind, instance, secret, wants, attached, resource, left>>,
         UNCHANGED <<pending, dropped, seen, misled>>, UNCHANGED <<cleanupVars, late>>,
         Holds(i, place, next, seen[i]),
         cache' \in [Uid -> CacheEntry \cup {None}], copy' \in [Ingress -> Copy \cup {None}], CacheInv',
         \A j \in Ingress \ {i} : /\ copy'[j] # None <=> copy[j] # None
                                  /\ copy'[j] # None => copy'[j].uid = copy[j].uid,
         Comparing(place, next) => Before(i),
         Compared(place, next) => Past(i)
  PROVE  IInv'
<1>1. ServiceTypeOK' /\ CreatingInv' /\ misled' \subseteq Ingress
  BY DEF IInv, TypeOK, ServiceTypeOK, SyncTypeOK, CreatingInv, InState
<1>2. resource'[seen[i].uid] # None
  BY DEF IInv, HeldInv
<1>3. \A u \in Uid : /\ resource[u] # None => resource'[u] # None
                     /\ Usable(u) => Usable(u)'
  BY DEF Usable, InState
<1>4. Right => Right'
  BY DEF Right
<1>5. Blamed \subseteq Blamed'
  <2> SUFFICES ASSUME NEW j \in Blamed PROVE j \in Blamed'
    OBVIOUS
  <2>1. j \in misled /\ j \in Ingress /\ (Before(j) => seen[j] = secret)
    BY DEF Blamed, IInv, TypeOK, SyncTypeOK
  <2>2. Before(j)' => Before(j)
    <3>1. CASE j = i
      <4>1. pc'[i] = place /\ then'[i] = next
        BY DEF IInv, TypeOK, SyncTypeOK
      <4> QED BY <3>1, <4>1 DEF Before
    <3>2. CASE j # i
      <4>1. pc'[j] = pc[j] /\ then'[j] = then[j]
        BY <2>1, <3>2 DEF IInv, TypeOK, SyncTypeOK
      <4> QED BY <4>1 DEF Before
    <3> QED BY <3>1, <3>2
  <2> QED BY <2>1, <2>2 DEF Blamed
<1>6. Compared(place, next) /\ i \in wants /\ i \notin pending => Right \/ Blamed # {}
  BY SyncHolds DEF Settled, SettledInv, IInv
<1>7. Compared(place, next) /\ i \in wants /\ i \notin pending => Right' \/ Blamed' # {}
  BY <1>4, <1>5, <1>6
<1>8. Right \/ Blamed # {} => Right' \/ Blamed' # {}
  BY <1>4, <1>5
<1> QED BY <1>1, <1>2, <1>3, <1>7, <1>8, GoesOn

\* What a sync has fetched is a copy of its resource.
LEMMA FetchGets ==
  ASSUME IInv, NEW i \in Ingress, pc[i] \notin {"idle", "create", "use"}, NEW next, Fetch(i, next)
  PROVE  /\ pc' = [pc EXCEPT ![i] = "fill"] /\ then' = [then EXCEPT ![i] = next]
         /\ copy' \in [Ingress -> Copy \cup {None}]
         /\ copy'[i] # None /\ copy'[i].uid = seen[i].uid
         /\ \A j \in Ingress \ {i} : copy'[j] = copy[j]
<1>1. seen[i].uid \in Uid
  BY SyncHolds
<1>2. resource[seen[i].uid] \in Resource
  BY <1>1 DEF Fetch, IInv, TypeOK, ServiceTypeOK
<1>3. CopyOf(seen[i].uid) \in Copy /\ CopyOf(seen[i].uid).uid = seen[i].uid
  BY <1>1, <1>2 DEF CopyOf, Copy, Resource
<1>4. copy \in [Ingress -> Copy \cup {None}] /\ None \notin Copy
  BY NoneAssumption DEF IInv, TypeOK, ServiceTypeOK
<1>5. copy' = [copy EXCEPT ![i] = CopyOf(seen[i].uid)]
  BY DEF Fetch
<1> HIDE DEF CopyOf
<1> QED BY <1>3, <1>4, <1>5 DEF Fetch, GotoThen

\* A read of the service: the sync's next step is to fill the cache.
LEMMA FetchKeeps ==
  ASSUME IInv, NEW i \in Ingress, pc[i] \notin {"idle", "create", "use"},
         NEW next \in Then, Fetch(i, next), UNCHANGED misled, Reads, UNCHANGED <<cleanupVars, late>>,
         next = "compare" => pc[i] = "get",
         next \in {"prune", "use"} => Past(i)
  PROVE  IInv'
<1> DEFINE place == "fill"
<1>1. /\ pc' = [pc EXCEPT ![i] = place] /\ then' = [then EXCEPT ![i] = next]
      /\ copy' \in [Ingress -> Copy \cup {None}]
      /\ copy'[i] # None /\ copy'[i].uid = seen[i].uid
      /\ \A j \in Ingress \ {i} : copy'[j] = copy[j]
  BY FetchGets
<1>2. /\ UNCHANGED <<kind, instance, secret, wants, attached, resource, left>>
      /\ UNCHANGED <<pending, dropped, seen, misled>>
      /\ cache' = cache
  BY DEF Reads
<1>3. cache' \in [Uid -> CacheEntry \cup {None}] /\ CacheInv'
  BY <1>2 DEF IInv, TypeOK, ServiceTypeOK, CacheInv
<1>4. next # None /\ next \in Then \cup {None} /\ place \in Place \ {"idle", "create"} /\ seen[i] # None
  BY NoneAssumption, SyncHolds DEF Place
<1>5. Holds(i, place, next, seen[i])
  BY <1>1, <1>4 DEF Holds
<1>6. /\ Comparing(place, next) => Before(i)
      /\ Compared(place, next) => Past(i)
  BY DEF Comparing, Compared, Before
<1> HIDE DEF place
<1> QED BY <1>1, <1>2, <1>3, <1>4, <1>5, <1>6, ReadsOn

LEMMA WaitKeeps == ASSUME IInv, NEW i \in Ingress, Wait(i), UNCHANGED <<cleanupVars, late>> PROVE IInv'
<1>1. /\ pc[i] = "wait" /\ then[i] \in {"use", "prune"} /\ Past(i)
      /\ Fetch(i, then[i]) /\ UNCHANGED misled /\ Reads
  BY DEF Wait, IInv, ThenInv, Past, Compared
<1> DEFINE next == then[i]
<1>2. next \in Then /\ next # "compare" /\ Fetch(i, next)
  BY <1>1 DEF Then
<1> HIDE DEF next
<1> QED BY <1>1, <1>2, FetchKeeps

LEMMA RefetchKeeps == ASSUME IInv, NEW i \in Ingress, Refetch(i), UNCHANGED <<cleanupVars, late>> PROVE IInv'
<1> DEFINE next == "retry"
<1>1. pc[i] = "refetch" /\ Fetch(i, next) /\ UNCHANGED misled /\ Reads
  BY DEF Refetch
<1>2. next \in Then /\ next \notin {"compare", "prune", "use"}
  BY DEF Then
<1> HIDE DEF next
<1> QED BY <1>1, <1>2, FetchKeeps

LEMMA GetEtagKeeps == ASSUME IInv, NEW i \in Ingress, GetEtag(i), UNCHANGED <<cleanupVars, late>> PROVE IInv'
<1>1. pc[i] = "etag" /\ UNCHANGED misled /\ Reads
  BY DEF GetEtag
<1>2. CASE ~Hit(i)
  <2> DEFINE next == "send"
  <2>1. next \in Then /\ next \notin {"compare", "prune", "use"} /\ Fetch(i, next)
    BY <1>2 DEF Then, GetEtag
  <2> HIDE DEF next
  <2> QED BY <1>1, <2>1, FetchKeeps
<1>3. CASE Hit(i)
  <2> DEFINE place == "send"
             next  == None
             c     == cache[seen[i].uid].copy
  <2>1. /\ copy' = [copy EXCEPT ![i] = c]
        /\ pc' = [pc EXCEPT ![i] = place] /\ then' = [then EXCEPT ![i] = next]
    BY <1>3 DEF GetEtag, Goto
  <2>2. seen[i].uid \in Uid /\ seen[i] # None
    BY <1>1, SyncHolds
  <2>3. c \in Copy /\ c.uid = seen[i].uid
    BY <1>3, <2>2 DEF Hit, IInv, TypeOK, ServiceTypeOK, CacheInv, CacheEntry
  <2> HIDE DEF c
  <2>4. /\ copy' \in [Ingress -> Copy \cup {None}] /\ copy'[i] # None /\ copy'[i].uid = seen[i].uid
        /\ \A j \in Ingress \ {i} : copy'[j] = copy[j]
    BY <2>1, <2>3, NoneAssumption DEF IInv, TypeOK, ServiceTypeOK
  <2>5. cache' \in [Uid -> CacheEntry \cup {None}] /\ CacheInv'
    BY <1>1 DEF Reads, IInv, TypeOK, ServiceTypeOK, CacheInv
  <2>6. /\ next \in Then \cup {None} /\ place \in Place \ {"idle", "create"}
        /\ ~Comparing(place, next) /\ ~Compared(place, next)
    BY DEF Place, Comparing, Compared
  <2>7. Holds(i, place, next, seen[i])
    BY <2>4 DEF Holds
  <2> HIDE DEF place, next
  <2> QED BY <1>1, <2>1, <2>2, <2>4, <2>5, <2>6, <2>7, ReadsOn DEF Reads
<1> QED BY <1>2, <1>3

\* A comparison that finds the resource right, and is right, takes the Ingress off the
\* record: it was on it for nothing but what the secret holds now, if at all. One that
\* goes by an old copy puts it on the record.
LEMMA CompareKeeps ==
  ASSUME IInv, NEW i \in Ingress, Before(i), NEW c \in Copy, c.uid = seen[i].uid, Compare(i, c),
         UNCHANGED <<kind, instance, secret, wants, attached, resource, left>>,
         UNCHANGED <<pending, dropped, seen>>, UNCHANGED <<cleanupVars, late>>,
         cache' \in [Uid -> CacheEntry \cup {None}], copy' \in [Ingress -> Copy \cup {None}], CacheInv',
         copy'[i] = None, \A j \in Ingress \ {i} : copy'[j] = copy[j]
  PROVE  IInv'
<1>1. /\ pc[i] \notin {"idle", "create", "use"} /\ seen[i] \in Secret /\ seen[i] # None
      /\ seen[i].uid \in Uid /\ resource[seen[i].uid] # None
  <2>1. pc[i] \notin {"idle", "create", "use"}
    BY DEF Before, Comparing
  <2>2. seen[i] \in Secret /\ seen[i] # None /\ seen[i].uid \in Uid
    BY <2>1, SyncHolds
  <2> QED BY <2>1, <2>2 DEF IInv, HeldInv
<1>2. CASE ~UpToDate(i, c)
  <2> DEFINE place == "etag"
             next  == None
  <2>1. pc' = [pc EXCEPT ![i] = place] /\ then' = [then EXCEPT ![i] = next] /\ UNCHANGED misled
    BY <1>2 DEF Compare, Goto
  <2>2. /\ next \in Then \cup {None} /\ place \in Place \ {"idle", "create"}
        /\ ~Comparing(place, next) /\ ~Compared(place, next) /\ Holds(i, place, next, seen[i])
    BY DEF Place, Comparing, Compared, Holds
  <2> HIDE DEF place, next
  <2> QED BY <1>1, <2>1, <2>2, ReadsOn
<1>3. CASE UpToDate(i, c)
  <2> DEFINE place == "use"
             next  == None
             good  == UpToDate(i, CopyOf(c.uid))
  <2>1. /\ pc' = [pc EXCEPT ![i] = place] /\ then' = [then EXCEPT ![i] = next]
        /\ misled' = IF good THEN misled \ {i} ELSE misled \cup {i}
    BY <1>1, <1>3 DEF Compare, Goto
  <2>2. good => resource[seen[i].uid].tags = "hash" /\ resource[seen[i].uid].version = seen[i].version
    BY DEF UpToDate, CopyOf
  <2> HIDE DEF good
  <2>3. /\ next \in Then \cup {None} /\ place \in Place \ {"idle", "create"} /\ Holds(i, place, next, seen[i])
        /\ ~Comparing(place, next)
    BY DEF Place, Holds, Comparing
  <2> HIDE DEF place, next
  <2>4. pc'[i] = place /\ then'[i] = next /\ \A j \in Ingress \ {i} : pc'[j] = pc[j] /\ then'[j] = then[j]
    BY <2>1 DEF IInv, TypeOK, SyncTypeOK
  <2>5. misled \subseteq Ingress /\ misled' \subseteq Ingress
    BY <2>1 DEF IInv, TypeOK, SyncTypeOK
  <2>6. ServiceTypeOK' /\ CreatingInv'
    BY DEF IInv, TypeOK, ServiceTypeOK, CreatingInv, InState
  <2>7. (good /\ seen[i] = secret) => Right'
    BY <1>1, <2>2 DEF Right
  <2>8. ~good => i \in Blamed'
    BY <2>1, <2>3, <2>4 DEF Blamed, Before
  <2>9. \A j \in Blamed : j # i => j \in Blamed'
    BY <2>1, <2>4, <2>5 DEF Blamed, Before
  <2>10. i \in Blamed => seen[i] = secret
    BY DEF Blamed
  <2>11. Right => Right'
    BY DEF Right
  <2>12. Right \/ Blamed # {} => Right' \/ Blamed' # {}
    BY <2>7, <2>8, <2>9, <2>10, <2>11
  <2>13. i \in wants /\ i \notin pending => Right' \/ Blamed' # {}
    BY <1>1, <2>7, <2>8, SyncHolds
  <2>14. \A u \in Uid : /\ resource[u] # None => resource'[u] # None
                        /\ Usable(u) => Usable(u)'
    BY DEF Usable, InState
  <2> QED BY <1>1, <2>1, <2>3, <2>5, <2>6, <2>12, <2>13, <2>14, GoesOn
<1> QED BY <1>2, <1>3

LEMMA GetKeeps == ASSUME IInv, NEW i \in Ingress, Get(i), UNCHANGED <<cleanupVars, late>> PROVE IInv'
<1>1. pc[i] = "get" /\ Reads /\ seen[i].uid \in Uid
  BY SyncHolds DEF Get
<1>2. CASE ~Hit(i)
  <2> DEFINE next == "compare"
  <2>1. next \in Then /\ next \notin {"prune", "use"} /\ Fetch(i, next) /\ UNCHANGED misled
    BY <1>2 DEF Then, Get
  <2> HIDE DEF next
  <2> QED BY <1>1, <2>1, FetchKeeps
<1>3. CASE Hit(i)
  <2> DEFINE c == cache[seen[i].uid].copy
  <2>1. Compare(i, c) /\ UNCHANGED copy
    BY <1>3 DEF Get
  <2>2. c \in Copy /\ c.uid = seen[i].uid
    BY <1>1, <1>3 DEF Hit, IInv, TypeOK, ServiceTypeOK, CacheInv, CacheEntry
  <2> HIDE DEF c
  <2>3. /\ cache' \in [Uid -> CacheEntry \cup {None}] /\ copy' \in [Ingress -> Copy \cup {None}]
        /\ CacheInv' /\ copy'[i] = None
    BY <1>1, <2>1 DEF Reads, IInv, TypeOK, ServiceTypeOK, SyncTypeOK, CacheInv
  <2>4. Before(i)
    BY <1>1 DEF Before, Comparing
  <2> QED BY <1>1, <2>1, <2>2, <2>3, <2>4, CompareKeeps DEF Reads
<1> QED BY <1>2, <1>3

LEMMA PruneKeeps == ASSUME IInv, NEW i \in Ingress, Prune(i), UNCHANGED <<cleanupVars, late>> PROVE IInv'
<1>1. /\ pc[i] = "prune" /\ Past(i) /\ seen[i] # None /\ seen[i].uid \in Uid /\ copy[i] = None
      /\ UNCHANGED <<kind, instance, secret, wants, attached, resource, left>>
      /\ UNCHANGED <<pending, dropped, seen, misled>>
  BY SyncHolds DEF Prune, Past, Compared, IInv, ThenInv
<1>2. ASSUME NEW place \in {"wait", "use"}, NEW next \in {"use", None}, next # None <=> place = "wait",
             pc' = [pc EXCEPT ![i] = place], then' = [then EXCEPT ![i] = next],
             cache' \in [Uid -> CacheEntry \cup {None}], copy' \in [Ingress -> Copy \cup {None}],
             CacheInv',
             \A j \in Ingress : /\ copy'[j] # None <=> copy[j] # None
                                /\ copy'[j] # None => copy'[j].uid = copy[j].uid
      PROVE  IInv'
  <2>1. /\ next \in Then \cup {None} /\ place \in Place \ {"idle", "create"} /\ ~Comparing(place, next)
        /\ Holds(i, place, next, seen[i])
    BY <1>1, <1>2 DEF Then, Place, Comparing, Holds
  <2> QED BY <1>1, <1>2, <2>1, ReadsOn
<1>3. ServiceTypeOK /\ CacheInv
  BY DEF IInv, TypeOK
<1>4. CASE Goto(i, "use") /\ UNCHANGED <<cache, copy>>
  <2> DEFINE place == "use"
             next  == None
  <2>1. pc' = [pc EXCEPT ![i] = place] /\ then' = [then EXCEPT ![i] = next]
    BY <1>4 DEF Goto
  <2>2. place \in {"wait", "use"} /\ next \in {"use", None} /\ (next # None <=> place = "wait")
    OBVIOUS
  <2>3. cache' \in [Uid -> CacheEntry \cup {None}] /\ copy' \in [Ingress -> Copy \cup {None}] /\ CacheInv'
    BY <1>3, <1>4 DEF ServiceTypeOK, CacheInv
  <2> HIDE DEF place, next
  <2> QED BY <1>2, <1>4, <2>1, <2>2, <2>3
<1>5. CASE Touch({seen[i].uid}) /\ GotoThen(i, "wait", "use")
  <2> DEFINE place == "wait"
             next  == "use"
  <2>1. pc' = [pc EXCEPT ![i] = place] /\ then' = [then EXCEPT ![i] = next]
    BY <1>5 DEF GotoThen
  <2>2. place \in {"wait", "use"} /\ next \in {"use", None} /\ (next # None <=> place = "wait")
    BY NoneAssumption DEF Then
  <2>3. /\ cache' \in [Uid -> CacheEntry \cup {None}] /\ copy' \in [Ingress -> Copy \cup {None}]
        /\ \A u \in Uid : /\ cache'[u] # None <=> cache[u] # None
                          /\ cache'[u] # None => cache'[u].copy.uid = cache[u].copy.uid
        /\ \A j \in Ingress : /\ copy'[j] # None <=> copy[j] # None
                              /\ copy'[j] # None => copy'[j].uid = copy[j].uid
    BY <1>3, <1>5, TouchKeeps
  <2>4. CacheInv'
    BY <1>3, <2>3 DEF CacheInv
  <2> HIDE DEF place, next
  <2> QED BY <1>2, <2>1, <2>2, <2>3, <2>4
<1> QED BY <1>4, <1>5 DEF Prune

\* A sync that writes the resource, or has it written: it makes it right for all, or it
\* puts itself on the record.
LEMMA WriteKeeps ==
  ASSUME IInv, NEW i \in Ingress, pc[i] # "idle", seen[i] \in Secret, NEW next \in {"use", "prune"},
         GotoThen(i, "wait", next), Written(i),
         UNCHANGED <<kind, instance, secret, wants, attached, left, pending, dropped, seen>>,
         UNCHANGED <<cleanupVars, late>>,
         resource' \in [Uid -> Resource \cup {None}], Usable(seen[i].uid)',
         resource'[seen[i].uid].version = seen[i].version, resource'[seen[i].uid].tags = "hash",
         \A u \in Uid : u # seen[i].uid => resource'[u] = resource[u],
         cache' \in [Uid -> CacheEntry \cup {None}], copy' \in [Ingress -> Copy \cup {None}],
         \A u \in Uid : /\ cache'[u] # None <=> cache[u] # None
                        /\ cache'[u] # None => cache'[u].copy.uid = cache[u].copy.uid,
         \A j \in Ingress : /\ copy'[j] # None <=> copy[j] # None
                            /\ copy'[j] # None => copy'[j].uid = copy[j].uid
  PROVE  IInv'
<1> DEFINE place == "wait"
<1>1. pc' = [pc EXCEPT ![i] = place] /\ then' = [then EXCEPT ![i] = next]
  BY DEF GotoThen
<1>2. /\ next \in Then \cup {None} /\ next # None /\ place \in Place \ {"idle", "create"}
      /\ ~Comparing(place, next) /\ Holds(i, place, next, seen[i])
  BY NoneAssumption DEF Then, Place, Comparing, Holds
<1>3. seen[i] # None /\ seen[i].uid \in Uid
  BY NoneAssumption DEF Secret
<1>4. ServiceTypeOK' /\ CacheInv' /\ CreatingInv'
  BY <1>3 DEF IInv, TypeOK, ServiceTypeOK, CacheInv, CreatingInv, InState
<1>5. misled \subseteq Ingress /\ misled' \subseteq Ingress
  BY DEF Written, IInv, TypeOK, SyncTypeOK
<1>6. resource'[seen[i].uid] # None
  BY DEF Usable, InState
<1>7. \A u \in Uid : /\ resource[u] # None => resource'[u] # None
                     /\ Usable(u) => Usable(u)'
  BY <1>6 DEF Usable, InState
<1> HIDE DEF place
<1>8. Right' \/ Blamed' # {}
  <2>1. CASE seen[i] = secret
    BY <1>6, <2>1 DEF Right
  <2>2. CASE seen[i] # secret
    <3>1. pc'[i] = place /\ then'[i] = next
      BY <1>1 DEF IInv, TypeOK, SyncTypeOK
    <3>2. i \in misled'
      BY <2>2 DEF Written
    <3> QED BY <1>2, <3>1, <3>2 DEF Blamed, Before
  <2> QED BY <2>1, <2>2
<1> QED BY <1>1, <1>2, <1>3, <1>4, <1>5, <1>6, <1>7, <1>8, GoesOn

LEMMA CreateResourceKeeps ==
  ASSUME IInv, NEW i \in Ingress, CreateResource(i), UNCHANGED <<cleanupVars, late>> PROVE IInv'
<1>1. /\ pc[i] = "create" /\ seen[i] \in Secret /\ seen[i].uid \in Uid /\ seen[i].version \in Version
      /\ ServiceTypeOK
  BY SyncHolds DEF CreateResource, IInv, TypeOK
<1>2. /\ GotoThen(i, "wait", "use") /\ Written(i)
      /\ UNCHANGED <<kind, instance, secret, wants, attached, left, pending, dropped, seen>>
  BY DEF CreateResource
<1>3. CASE Create(seen[i].uid, seen[i].version)
  <2> DEFINE r == [state |-> "creating", version |-> seen[i].version, tags |-> "hash"]
  <2>1. Put(seen[i].uid, r)
    BY <1>3 DEF Create
  <2>2. r \in Resource /\ r.version = seen[i].version /\ r.tags = "hash" /\ r.state = "creating"
    BY <1>1 DEF Resource, Tags
  <2> HIDE DEF r
  <2>3. /\ resource' \in [Uid -> Resource \cup {None}] /\ resource'[seen[i].uid] = r /\ r # None
        /\ \A v \in Uid : v # seen[i].uid => resource'[v] = resource[v]
        /\ cache' \in [Uid -> CacheEntry \cup {None}] /\ copy' \in [Ingress -> Copy \cup {None}]
        /\ \A v \in Uid : /\ cache'[v] # None <=> cache[v] # None
                          /\ cache'[v] # None => cache'[v].copy.uid = cache[v].copy.uid
        /\ \A j \in Ingress : /\ copy'[j] # None <=> copy[j] # None
                              /\ copy'[j] # None => copy'[j].uid = copy[j].uid
    BY <1>1, <2>1, <2>2, PutKeeps
  <2>4. Usable(seen[i].uid)'
    BY <1>2, <2>2, <2>3 DEF Usable, InState
  <2> QED BY <1>1, <1>2, <2>2, <2>3, <2>4, WriteKeeps
<1>4. CASE /\ InState(seen[i].uid, {"creating"}) /\ resource[seen[i].uid].version = seen[i].version
           /\ UNCHANGED <<resource, cache, copy>>
  <2>1. Usable(seen[i].uid)' /\ resource[seen[i].uid].tags = "hash"
    BY <1>1, <1>2, <1>4 DEF Usable, InState, IInv, CreatingInv
  <2>2. /\ resource' \in [Uid -> Resource \cup {None}]
        /\ cache' \in [Uid -> CacheEntry \cup {None}] /\ copy' \in [Ingress -> Copy \cup {None}]
    BY <1>1, <1>4 DEF ServiceTypeOK
  <2> QED BY <1>1, <1>2, <1>4, <2>1, <2>2, WriteKeeps
<1> QED BY <1>3, <1>4 DEF CreateResource

LEMMA SendKeeps == ASSUME IInv, NEW i \in Ingress, Send(i), UNCHANGED <<cleanupVars, late>> PROVE IInv'
<1>1. /\ pc[i] = "send" /\ seen[i] \in Secret /\ seen[i].uid \in Uid /\ seen[i].version \in Version
      /\ seen[i] # None /\ ServiceTypeOK
      /\ UNCHANGED <<kind, instance, secret, wants, attached, left, pending, dropped, seen>>
  BY SyncHolds DEF Send, IInv, TypeOK
<1>2. CASE copy[i].current /\ InState(seen[i].uid, {"active"})
  <2> DEFINE r    == [state |-> "updating", version |-> seen[i].version, tags |-> "hash"]
             next == IF kind = "certificate" THEN "prune" ELSE "use"
  <2>1. Put(seen[i].uid, r) /\ GotoThen(i, "wait", next) /\ Written(i)
    BY <1>2 DEF Send
  <2>2. r \in Resource /\ r.version = seen[i].version /\ r.tags = "hash" /\ r.state = "updating"
    BY <1>1 DEF Resource, Tags
  <2>3. next \in {"use", "prune"}
    OBVIOUS
  <2> HIDE DEF r, next
  <2>4. /\ resource' \in [Uid -> Resource \cup {None}] /\ resource'[seen[i].uid] = r /\ r # None
        /\ \A v \in Uid : v # seen[i].uid => resource'[v] = resource[v]
        /\ cache' \in [Uid -> CacheEntry \cup {None}] /\ copy' \in [Ingress -> Copy \cup {None}]
        /\ \A v \in Uid : /\ cache'[v] # None <=> cache[v] # None
                          /\ cache'[v] # None => cache'[v].copy.uid = cache[v].copy.uid
        /\ \A j \in Ingress : /\ copy'[j] # None <=> copy[j] # None
                              /\ copy'[j] # None => copy'[j].uid = copy[j].uid
    BY <1>1, <2>1, <2>2, PutKeeps
  <2>5. Usable(seen[i].uid)'
    BY <1>1, <2>2, <2>4 DEF Usable, InState
  <2> QED BY <1>1, <2>1, <2>2, <2>3, <2>4, <2>5, WriteKeeps
<1>3. CASE ~(copy[i].current /\ InState(seen[i].uid, {"active"}))
  <2> DEFINE place == "refetch"
             next  == None
  <2>1. /\ pc' = [pc EXCEPT ![i] = place] /\ then' = [then EXCEPT ![i] = next]
        /\ UNCHANGED <<resource, cache, copy, misled>>
    BY <1>3 DEF Send, Goto
  <2>2. /\ next \in Then \cup {None} /\ place \in Place \ {"idle", "create"}
        /\ ~Comparing(place, next) /\ ~Compared(place, next) /\ Holds(i, place, next, seen[i])
    BY DEF Place, Comparing, Compared, Holds
  <2>3. /\ cache' \in [Uid -> CacheEntry \cup {None}] /\ copy' \in [Ingress -> Copy \cup {None}] /\ CacheInv'
    BY <1>1, <2>1 DEF ServiceTypeOK, IInv, CacheInv
  <2> HIDE DEF place, next
  <2> QED BY <1>1, <2>1, <2>2, <2>3, ReadsOn
<1> QED BY <1>2, <1>3

\* A sync that ends with an error is due again, or given up.
LEMMA RetryKeeps ==
  ASSUME IInv, NEW i \in Ingress, pc[i] # "idle", Retry(i),
         UNCHANGED <<kind, instance, secret, wants, attached, resource>>, UNCHANGED <<cleanupVars, late>>,
         left' \in Nat, cache' \in [Uid -> CacheEntry \cup {None}], CacheInv',
         copy' = [copy EXCEPT ![i] = None]
  PROVE  IInv'
<1> DEFINE place == "idle"
           next  == None
           sec   == None
<1>1. Moves(i, place, next, sec) /\ UNCHANGED misled
  BY DEF Retry, End, Goto, Moves
<1>2. place \in Place /\ next \in Then \cup {None} /\ sec \in Secret \cup {None}
  BY DEF Place
<1>3. /\ copy' \in [Ingress -> Copy \cup {None}] /\ copy'[i] = None
      /\ \A j \in Ingress \ {i} : copy'[j] = copy[j]
  BY DEF IInv, TypeOK, ServiceTypeOK
<1>4. Holds(i, place, next, sec)
  BY <1>3 DEF Holds
<1>5. i \in instance.ingresses /\ i \notin dropped
  BY SyncHolds
<1>6. /\ pending' \subseteq Ingress /\ dropped' \subseteq Ingress /\ misled' \subseteq Ingress
      /\ \A j \in Ingress \ {i} : (j \in pending' <=> j \in pending) /\ (j \in dropped' <=> j \in dropped)
      /\ i \in pending' \cup dropped'
      /\ i \in dropped' => i \notin pending'
  BY <1>1, <1>5 DEF Retry, IInv, TypeOK, SyncTypeOK
<1>7. OthersStay(i)
  BY <1>3, <1>6 DEF OthersStay, cleanupVars, Usable, InState
<1>8. ServiceTypeOK' /\ CreatingInv'
  BY <1>3 DEF IInv, TypeOK, ServiceTypeOK, CreatingInv, InState
<1>9. Right \/ Blamed # {} => Right' \/ Blamed' # {}
  <2>1. Right => Right'
    BY DEF Right
  <2>2. \A j \in Ingress : Before(j)' => Before(j) /\ seen'[j] = seen[j]
    BY <1>1 DEF Moves, Before, Comparing, IInv, TypeOK, SyncTypeOK
  <2>3. \A j \in Blamed : j \in Blamed'
    BY <1>1, <2>2 DEF Blamed, IInv, TypeOK, SyncTypeOK
  <2> QED BY <2>1, <2>3
<1>10. ~Settled(i)'
  BY <1>6 DEF Settled
<1>11. /\ sec = None /\ place = "idle" /\ attached'[i] = attached[i]
       /\ i \notin pending' \cup dropped' /\ place = "idle" =>
            attached'[i] = IF i \in wants THEN secret.uid ELSE None
  BY <1>6
<1> HIDE DEF place, next, sec
<1> QED BY <1>1, <1>2, <1>4, <1>5, <1>6, <1>7, <1>8, <1>9, <1>10, <1>11, SyncMoves

LEMMA FailKeeps == ASSUME IInv, NEW i \in Ingress, Fail(i), UNCHANGED <<cleanupVars, late>> PROVE IInv'
<1>1. /\ pc[i] # "idle" /\ Retry(i)
      /\ UNCHANGED <<kind, instance, secret, wants, attached, resource>>
      /\ copy' = [copy EXCEPT ![i] = None]
  BY DEF Fail
<1>2. left' \in Nat
  BY EventTyped DEF Fail, IInv, TypeOK
<1>3. cache' \in [Uid -> CacheEntry \cup {None}] /\ CacheInv'
  BY DEF Fail, IInv, TypeOK, ServiceTypeOK, CacheInv
<1> QED BY <1>1, <1>2, <1>3, RetryKeeps

LEMMA FillKeeps == ASSUME IInv, NEW i \in Ingress, Fill(i), UNCHANGED <<cleanupVars, late>> PROVE IInv'
<1> DEFINE next == then[i]
           e    == [copy |-> copy[i], fresh |-> TRUE]
<1>1. /\ pc[i] = "fill"
      /\ cache' = [cache EXCEPT ![seen[i].uid] = e]
      /\ copy' = IF next = "send" THEN copy ELSE [copy EXCEPT ![i] = None]
      /\ UNCHANGED <<kind, instance, secret, wants, attached, resource, left>>
  BY DEF Fill
<1>2. seen[i] \in Secret /\ seen[i].uid \in Uid /\ seen[i] # None /\ seen \in [Ingress -> Secret \cup {None}]
  BY <1>1, SyncHolds DEF IInv, TypeOK, SyncTypeOK, Secret
<1>3. next \in Then
  BY <1>1 DEF IInv, TypeOK, SyncTypeOK
<1>4. copy[i] \in Copy /\ copy[i] # None /\ copy[i].uid = seen[i].uid
  BY <1>1 DEF IInv, TypeOK, SyncTypeOK, ServiceTypeOK
<1>5. e \in CacheEntry /\ e.copy = copy[i]
  BY <1>4 DEF CacheEntry
<1> HIDE DEF e
<1>6. cache' \in [Uid -> CacheEntry \cup {None}] /\ CacheInv'
  BY <1>1, <1>2, <1>4, <1>5 DEF CacheInv, IInv, TypeOK, ServiceTypeOK
<1>7. /\ copy' \in [Ingress -> Copy \cup {None}]
      /\ \A j \in Ingress \ {i} : copy'[j] = copy[j]
      /\ next # "send" => copy'[i] = None
      /\ next = "send" => copy'[i] = copy[i]
  BY <1>1 DEF IInv, TypeOK, ServiceTypeOK
<1>8. CASE next = "retry"
  <2>1. Retry(i) /\ copy' = [copy EXCEPT ![i] = None]
    BY <1>1, <1>8 DEF Fill
  <2>2. left' \in Nat
    BY <1>1 DEF IInv, TypeOK, ServiceTypeOK
  <2> QED BY <1>1, <1>6, <2>1, <2>2, RetryKeeps
<1>9. CASE next = "compare"
  <2> DEFINE c == copy[i]
  <2>1. Compare(i, c) /\ UNCHANGED <<pending, dropped, seen>>
    BY <1>9 DEF Fill
  <2>2. Before(i)
    BY <1>1, <1>9 DEF Before, Comparing
  <2>3. c \in Copy /\ c.uid = seen[i].uid /\ copy'[i] = None
    BY <1>4, <1>7, <1>9
  <2> HIDE DEF c
  <2> QED BY <1>1, <1>6, <1>7, <2>1, <2>2, <2>3, CompareKeeps
<1>10. CASE next \in {"send", "prune", "use"}
  <2> DEFINE place == next
             then1 == None
  <2>1. /\ pc' = [pc EXCEPT ![i] = place] /\ then' = [then EXCEPT ![i] = then1]
        /\ UNCHANGED <<pending, dropped, seen, misled>>
    BY <1>10 DEF Fill, Goto
  <2>2. /\ then1 \in Then \cup {None} /\ place \in Place \ {"idle", "create"} /\ ~Comparing(place, then1)
    BY <1>10 DEF Place, Comparing
  <2>3. Compared(place, then1) => Past(i)
    BY <1>1, <1>10 DEF Compared, Past
  <2>4. Holds(i, place, then1, seen[i])
    BY <1>4, <1>7, <1>10 DEF Holds
  <2> HIDE DEF place, then1
  <2> QED BY <1>1, <1>2, <1>6, <1>7, <2>1, <2>2, <2>3, <2>4, ReadsOn
<1> QED BY <1>3, <1>8, <1>9, <1>10 DEF Then

LEMMA TakeKeeps == ASSUME IInv, NEW i \in Ingress, Take(i), UNCHANGED <<cleanupVars, late>> PROVE IInv'
<1>1. /\ pc[i] = "idle" /\ i \in pending /\ pending' = pending \ {i} /\ UNCHANGED <<dropped, misled>>
      /\ UNCHANGED <<kind, instance, secret, wants, attached, resource, cache, copy, left>>
  BY DEF Take, serviceVars
<1>2. /\ i \in instance.ingresses /\ i \notin dropped /\ copy[i] = None /\ seen[i] = None
      /\ seen \in [Ingress -> Secret \cup {None}] /\ secret \in Secret /\ secret.uid \in Uid
  BY <1>1 DEF IInv, TypeOK, SyncTypeOK, ServiceTypeOK, RestInv, Secret
<1>3. ServiceTypeOK' /\ CacheInv' /\ CreatingInv'
  BY <1>1 DEF IInv, TypeOK, ServiceTypeOK, CacheInv, CreatingInv, InState
<1>4. /\ pending' \subseteq Ingress /\ dropped' \subseteq Ingress /\ misled' \subseteq Ingress
      /\ OthersStay(i) /\ attached'[i] = attached[i] /\ i \notin dropped' /\ copy'[i] = None
  BY <1>1, <1>2 DEF OthersStay, cleanupVars, Usable, InState, IInv, TypeOK, SyncTypeOK
<1>5. ASSUME NEW place \in Place, NEW sec \in Secret \cup {None}, NEW next, next = None,
             Moves(i, place, next, sec), place \in {"create", "get", "use"},
             place = "use" => i \notin wants /\ sec = None,
             place # "use" => i \in wants /\ sec = secret,
             place = "get" => resource[secret.uid] # None
      PROVE  IInv'
  <2>1. Holds(i, place, next, sec) /\ next \in Then \cup {None}
    BY <1>4, <1>5 DEF Holds
  <2>2. /\ pc'[i] = place /\ then'[i] = next /\ seen'[i] = sec
        /\ \A j \in Ingress \ {i} : pc'[j] = pc[j] /\ then'[j] = then[j] /\ seen'[j] = seen[j]
    BY <1>5 DEF Moves, IInv, TypeOK, SyncTypeOK
  <2>3. /\ sec # None /\ sec # secret => i \in pending'
        /\ place # "idle" /\ i \notin pending' => (i \in wants <=> sec # None)
        /\ sec = None => place \in {"idle", "use"}
        /\ sec # None /\ place # "create" => resource'[sec.uid] # None
    <3>1. secret # None
      BY <1>2, NoneAssumption DEF Secret
    <3> QED BY <1>1, <1>5, <3>1
  <2>4. ~(i \in wants /\ Settled(i)')
    BY <1>5, <2>2 DEF Settled, Past, Compared
  <2>5. Right \/ Blamed # {} => Right' \/ Blamed' # {}
    <3>1. Right => Right'
      BY <1>1 DEF Right
    <3>2. \A j \in Blamed : j = i => j \in Blamed'
      BY <1>1, <1>5, <2>2 DEF Blamed, Before, Comparing
    <3>3. \A j \in Blamed : j # i => j \in Blamed'
      BY <1>1, <1>4, <2>2 DEF Blamed, Before
    <3> QED BY <3>1, <3>2, <3>3
  <2> QED BY <1>2, <1>3, <1>4, <1>5, <2>1, <2>3, <2>4, <2>5, SyncMoves
<1> DEFINE next == None
<1>6. CASE i \in wants
  <2> DEFINE place == IF Find(i, secret.uid) = {} THEN "create" ELSE "get"
  <2>1. Moves(i, place, next, secret)
    BY <1>6 DEF Take, Goto, Moves
  <2>2. place = "get" => resource[secret.uid] # None
    <3>1. Associated(secret.uid) => Usable(secret.uid)
      BY <1>2 DEF IInv, HeldInv
    <3> QED BY <3>1 DEF Find, InState, Usable, Associated
  <2>3. place \in {"create", "get"} /\ place \in Place
    BY DEF Place
  <2> HIDE DEF place, next
  <2> QED BY <1>2, <1>5, <1>6, <2>1, <2>2, <2>3 DEF next
<1>7. CASE i \notin wants
  <2> DEFINE place == "use"
             sec   == None
  <2>1. Moves(i, place, next, sec)
    <3>1. seen' = [seen EXCEPT ![i] = None]
      BY <1>2, <1>7 DEF Take
    <3> QED BY <1>7, <3>1 DEF Take, Goto, Moves
  <2>2. place \in Place /\ place = "use" /\ sec = None /\ next = None
    BY DEF Place
  <2> HIDE DEF place, sec, next
  <2> QED BY <1>5, <1>7, <2>1, <2>2
<1> QED BY <1>6, <1>7

\* A sync that ends well leaves the listener or backend set with what the Ingress asks for,
\* unless it is followed by another.
LEMMA UseKeeps == ASSUME IInv, NEW i \in Ingress, Use(i), UNCHANGED <<cleanupVars, late>> PROVE IInv'
<1> DEFINE u == IF seen[i] = None THEN None ELSE seen[i].uid
<1>1. /\ pc[i] = "use" /\ Associate(i, u) /\ dropped' = dropped \ {i}
      /\ UNCHANGED <<kind, instance, secret, wants, resource, left, pending, misled>>
      /\ pc' = [pc EXCEPT ![i] = "idle"] /\ then' = [then EXCEPT ![i] = None] /\ seen' = [seen EXCEPT ![i] = None]
  BY DEF Use, End, Goto
<1>2. /\ seen[i] \in Secret \cup {None} /\ copy[i] = None /\ i \in instance.ingresses
      /\ i \notin dropped /\ (i \in wants /\ i \notin pending => seen[i] = secret)
      /\ (i \notin pending => (i \in wants <=> seen[i] # None))
      /\ ServiceTypeOK /\ u \in Uid \cup {None}
  BY <1>1, SyncHolds DEF IInv, TypeOK, SyncTypeOK, Secret, ReadInv
<1>3. i \notin pending => u = IF i \in wants THEN secret.uid ELSE None
  BY <1>2
<1> HIDE DEF u
<1>4. /\ u # None => Usable(u)
      /\ attached' = [attached EXCEPT ![i] = u]
  BY <1>1 DEF Associate
<1>5. /\ cache' \in [Uid -> CacheEntry \cup {None}] /\ copy' \in [Ingress -> Copy \cup {None}]
      /\ \A v \in Uid : /\ cache'[v] # None <=> cache[v] # None
                        /\ cache'[v] # None => cache'[v].copy.uid = cache[v].copy.uid
      /\ \A j \in Ingress : /\ copy'[j] # None <=> copy[j] # None
                            /\ copy'[j] # None => copy'[j].uid = copy[j].uid
  <2>1. CASE UNCHANGED <<cache, copy>>
    BY <1>2, <2>1 DEF ServiceTypeOK
  <2>2. CASE Touch({u, attached[i]} \ {None})
    BY <1>2, <2>2, TouchKeeps
  <2> QED BY <1>1, <2>1, <2>2 DEF Associate
<1>6. attached' \in [Ingress -> Uid \cup {None}] /\ attached'[i] = u
      /\ \A j \in Ingress \ {i} : attached'[j] = attached[j]
  BY <1>2, <1>4 DEF ServiceTypeOK
<1>7. ServiceTypeOK' /\ CacheInv' /\ CreatingInv'
  BY <1>1, <1>2, <1>5, <1>6 DEF ServiceTypeOK, IInv, CacheInv, CreatingInv, InState
<1>8. /\ pending' \subseteq Ingress /\ dropped' \subseteq Ingress /\ misled' \subseteq Ingress
      /\ OthersStay(i) /\ i \notin dropped' /\ copy'[i] = None
  BY <1>1, <1>2, <1>5, <1>6 DEF OthersStay, cleanupVars, Usable, InState, IInv, TypeOK, SyncTypeOK
<1> DEFINE place == "idle"
           next  == None
           sec   == None
<1>9. /\ place \in Place /\ next \in Then \cup {None} /\ sec \in Secret \cup {None} /\ sec = None /\ place = "idle"
      /\ Moves(i, place, next, sec) /\ Holds(i, place, next, sec)
  BY <1>1, <1>8 DEF Place, Moves, Holds
<1>10. \A v \in Uid : attached'[i] = v /\ attached[i] # v => Usable(v)'
  <2>1. \A v \in Uid : attached'[i] = v => Usable(v) /\ v # None
    BY <1>4, <1>6, CertificateAssumption
  <2> QED BY <1>1, <2>1 DEF Usable, InState
<1>11. i \notin pending' \cup dropped' /\ place = "idle" => attached'[i] = IF i \in wants THEN secret.uid ELSE None
  BY <1>1, <1>3, <1>6
<1>12. Right \/ Blamed # {} => Right' \/ Blamed' # {}
  <2>1. Right => Right'
    BY <1>1 DEF Right
  <2>2. \A j \in Ingress : Before(j)' => Before(j) /\ seen'[j] = seen[j]
    BY <1>1 DEF Before, Comparing, IInv, TypeOK, SyncTypeOK
  <2>3. \A j \in Blamed : j \in Blamed'
    BY <1>1, <2>2 DEF Blamed, IInv, TypeOK, SyncTypeOK
  <2> QED BY <2>1, <2>3
<1>13. i \in wants /\ Settled(i)' => Right' \/ Blamed' # {}
  <2>1. Settled(i)' => Settled(i)
    BY <1>1, <1>2 DEF Settled, Past, Compared
  <2> QED BY <1>12, <2>1 DEF IInv, SettledInv
<1> HIDE DEF place, next, sec
<1> QED BY <1>2, <1>7, <1>8, <1>9, <1>10, <1>11, <1>12, <1>13, SyncMoves

-----------------------------------------------------------------------------
(* The users, a restart, and all together.                                   *)

LEMMA Initially == Init => IInv
<1> SUFFICES ASSUME Init PROVE IInv
  OBVIOUS
<1>1. ServiceTypeOK
  BY CertificateAssumption DEF Init, ServiceInit, ServiceTypeOK, Uid, Version
<1>2. SyncTypeOK /\ CleanupTypeOK
  BY <1>1, WantsAreIngresses DEF Init, ServiceInit, SyncInit, CleanupInit, SyncTypeOK, CleanupTypeOK, Place
<1>3. ReadInv /\ HeldInv /\ RestInv /\ CacheInv /\ CreatingInv /\ ThenInv
  BY CertificateAssumption DEF Init, ServiceInit, SyncInit, ReadInv, OldSecretRead, HeldInv, Associated, RestInv,
     CacheInv, CreatingInv, InState, ThenInv
<1>4. SettledInv
  BY <1>1, WantsAreIngresses DEF Init, ServiceInit, SyncInit, SettledInv, Settled, ServiceTypeOK
<1> QED BY <1>1, <1>2, <1>3, <1>4 DEF IInv, TypeOK

\* Who uses the secret is queued when it changes, and who has it in its hands though it no
\* longer uses it has been queued already.
LEMMA SetSecretKeeps ==
  ASSUME IInv, NEW uid \in Uid, SetSecret(uid), UNCHANGED <<cleanupVars, late>> PROVE IInv'
<1>1. /\ secret.version < MaxVersion /\ secret' = [uid |-> uid, version |-> secret.version + 1]
      /\ pending' = pending \cup wants /\ dropped' = dropped \ wants
      /\ UNCHANGED <<kind, instance, wants, attached, resource, cache, copy, pc, then, seen, misled>>
  BY DEF SetSecret, Enqueue
<1>2. ServiceTypeOK /\ SyncTypeOK /\ wants \subseteq instance.ingresses /\ wants \subseteq Ingress
  BY WantsAreIngresses DEF IInv, TypeOK
<1>3. secret' \in Secret /\ left' \in Nat
  <2>1. secret.version + 1 \in Version
    BY <1>1, <1>2, CertificateAssumption DEF ServiceTypeOK, Version
  <2> QED BY <1>1, <1>2, <2>1, EventTyped DEF Secret, SetSecret
<1>4. TypeOK'
  BY <1>1, <1>2, <1>3 DEF IInv, TypeOK, ServiceTypeOK, SyncTypeOK, CleanupTypeOK, cleanupVars, Secret
<1>5. \A j \in Ingress : seen[j] # None => j \in pending'
  BY <1>1, <1>2 DEF SyncTypeOK, IInv, ReadInv
<1>6. ReadInv'
  BY <1>1, <1>5 DEF ReadInv, OldSecretRead, IInv
<1>7. HeldInv' /\ CacheInv' /\ CreatingInv' /\ ThenInv'
  BY <1>1 DEF IInv, HeldInv, Associated, Usable, InState, CacheInv, CreatingInv, ThenInv
<1>8. RestInv'
  BY <1>1, <1>2 DEF IInv, RestInv
<1>9. SettledInv'
  <2>1. \A j \in Ingress : Settled(j)' => j \notin wants /\ (pc[j] = "idle" => Settled(j))
    BY <1>1 DEF Settled
  <2> QED BY <1>1, <1>2, <2>1 DEF IInv, SettledInv
<1> QED BY <1>4, <1>6, <1>7, <1>8, <1>9 DEF IInv

LEMMA ToggleKeeps ==
  ASSUME IInv, NEW i \in Ingress, Toggle(i), UNCHANGED <<cleanupVars, late>> PROVE IInv'
<1>1. /\ i \in instance.ingresses /\ wants' = IF i \in wants THEN wants \ {i} ELSE wants \cup {i}
      /\ pending' = pending \cup {i} /\ dropped' = dropped \ {i}
      /\ UNCHANGED <<kind, instance, secret, attached, resource, cache, copy, pc, then, seen, misled, late>>
  BY DEF Toggle, Enqueue
<1>2. ServiceTypeOK /\ SyncTypeOK /\ wants' \subseteq instance.ingresses /\ wants \subseteq Ingress
  BY <1>1, WantsAreIngresses DEF IInv, TypeOK, ServiceTypeOK
<1>3. left' \in Nat
  BY <1>2, EventTyped DEF Toggle
<1>4. TypeOK'
  BY <1>1, <1>2, <1>3 DEF IInv, TypeOK, ServiceTypeOK, SyncTypeOK, CleanupTypeOK, cleanupVars
<1>5. ReadInv' /\ RestInv'
  BY <1>1, <1>2 DEF IInv, ReadInv, OldSecretRead, RestInv
<1>6. HeldInv' /\ CacheInv' /\ CreatingInv' /\ ThenInv'
  BY <1>1 DEF IInv, HeldInv, Associated, Usable, InState, CacheInv, CreatingInv, ThenInv
<1>7. SettledInv'
  <2>1. \A j \in Ingress : Settled(j)' => j # i /\ Settled(j) /\ (j \in wants' <=> j \in wants)
    BY <1>1 DEF Settled, Past
  <2>2. (Right' <=> Right) /\ Blamed' = Blamed
    BY <1>1 DEF Right, Blamed, Before
  <2>3. wants' \subseteq Ingress
    BY <1>1, <1>2
  <2>4. \A j \in Ingress : Settled(j)' /\ pc'[j] = "idle" => attached'[j] = IF j \in wants' THEN secret'.uid ELSE None
    BY <1>1, <2>1 DEF IInv, SettledInv
  <2>5. \A j \in wants' : Settled(j)' => Right' \/ Blamed' # {}
    BY <2>1, <2>2, <2>3 DEF IInv, SettledInv
  <2> QED BY <2>4, <2>5 DEF SettledInv
<1> QED BY <1>4, <1>5, <1>6, <1>7 DEF IInv

\* After a restart every Ingress is due; the others never had anything.
LEMMA RestartKeeps == ASSUME IInv, Restart, RoundOver, UNCHANGED late PROVE IInv'
<1>1. /\ cache' = [u \in Uid |-> None] /\ copy' = [j \in Ingress |-> None]
      /\ pending' = instance.ingresses /\ dropped' = {}
      /\ pc' = [j \in Ingress |-> "idle"] /\ then' = [j \in Ingress |-> None] /\ seen' = [j \in Ingress |-> None]
      /\ UNCHANGED <<kind, instance, secret, wants, attached, resource, misled>>
  BY DEF Restart
<1>2. ServiceTypeOK /\ SyncTypeOK /\ wants \subseteq instance.ingresses /\ instance.ingresses \subseteq Ingress
  BY WantsAreIngresses DEF IInv, TypeOK
<1>3. left' \in Nat
  BY <1>2, EventTyped DEF Restart
<1>4. ServiceTypeOK' /\ CleanupTypeOK'
  BY <1>1, <1>2, <1>3 DEF ServiceTypeOK, CleanupTypeOK, RoundOver
<1>5. SyncTypeOK'
  BY <1>1, <1>2 DEF SyncTypeOK, Place
<1>6. ReadInv' /\ RestInv' /\ CacheInv' /\ ThenInv'
  BY <1>1, <1>2 DEF ReadInv, OldSecretRead, RestInv, CacheInv, ThenInv
<1>7. HeldInv' /\ CreatingInv'
  BY <1>1 DEF IInv, HeldInv, Associated, Usable, InState, CreatingInv
<1>8. SettledInv'
  <2>1. \A j \in Ingress : Settled(j)' => j \notin instance.ingresses
    BY <1>1 DEF Settled
  <2>2. \A j \in Ingress \ instance.ingresses : Settled(j) /\ pc[j] = "idle" /\ j \notin wants
    BY <1>2 DEF IInv, RestInv, Settled
  <2> QED BY <1>1, <1>2, <2>1, <2>2 DEF IInv, SettledInv
<1> QED BY <1>4, <1>5, <1>6, <1>7, <1>8 DEF IInv, TypeOK

LEMMA StutterKeeps == ASSUME IInv, UNCHANGED vars PROVE IInv'
<1>1. /\ UNCHANGED <<kind, secret, instance, wants, attached, resource, cache, copy, left, late>>
      /\ UNCHANGED syncVars /\ UNCHANGED <<checks, marks, deletes>>
  BY DEF vars, serviceVars, cleanupVars
<1>2. ServiceTypeOK' /\ CleanupTypeOK' /\ CacheInv' /\ CreatingInv'
  BY <1>1 DEF IInv, TypeOK, ServiceTypeOK, CleanupTypeOK, CacheInv, CreatingInv, InState
<1> QED BY <1>1, <1>2, ServiceMoves DEF Usable, InState

LEMMA StepKeeps == IInv /\ [Next]_vars => IInv'
<1> SUFFICES ASSUME IInv, [Next]_vars PROVE IInv'
  OBVIOUS
<1>1. CASE UserStep /\ UNCHANGED <<cleanupVars, late>>
  <2>1. CASE Renew
    <3>1. secret.uid \in Uid
      BY DEF IInv, TypeOK, ServiceTypeOK
    <3> QED BY <1>1, <2>1, <3>1, SetSecretKeeps DEF Renew
  <2>2. CASE Recreate
    <3>1. secret.uid + 1 \in Uid
      BY <2>2, CertificateAssumption DEF Recreate, IInv, TypeOK, ServiceTypeOK, Uid
    <3> QED BY <1>1, <2>2, <3>1, SetSecretKeeps DEF Recreate
  <2>3. ASSUME NEW i \in Ingress, Toggle(i) PROVE IInv'
    BY <1>1, <2>3, ToggleKeeps
  <2> QED BY <1>1, <2>1, <2>2, <2>3 DEF UserStep
<1>2. ASSUME NEW i \in Ingress, SyncOf(i) PROVE IInv'
  <2>1. UNCHANGED <<cleanupVars, late>> /\ SyncStep(i)
    BY <1>2 DEF SyncOf
  <2> QED BY <2>1, TakeKeeps, CreateResourceKeeps, GetKeeps, GetEtagKeeps, SendKeeps, RefetchKeeps,
             WaitKeeps, FillKeeps, PruneKeeps, UseKeeps, FailKeeps DEF SyncStep
<1>3. CASE CleanupTask
  BY <1>3, CleanupKeeps
<1>4. ASSUME NEW u \in Uid, Settle(u) \/ Expire(u) \/ DaysPass(u), UNCHANGED <<syncVars, cleanupVars, late>>
      PROVE  IInv'
  BY <1>4, SettleKeeps, ExpireKeeps, DaysPassKeeps
<1>5. CASE Restart /\ RoundOver /\ UNCHANGED late
  BY <1>5, RestartKeeps
<1>6. CASE UNCHANGED vars
  BY <1>6, StutterKeeps
<1> QED BY <1>1, <1>2, <1>3, <1>4, <1>5, <1>6 DEF Next

-----------------------------------------------------------------------------
(* The theorems.                                                             *)

\* Whatever the users, the syncs, the cleanup task and the service do, in any order.
THEOREM Invariance == Spec => []IInv
BY Initially, StepKeeps, PTL DEF Spec

\* What a sync holds at each place of ensureCertificateForListener and
\* ensureCaBundleForBackendSet is what the place needs.
THEOREM TypesOK == Spec => []TypeOK
<1>1. IInv => TypeOK
  BY DEF IInv
<1> QED BY <1>1, Invariance, PTL

\* A sync at work with an old secret is always followed by another (secretAddOrUpdate).
THEOREM OldSecretsReadAgain == Spec => []OldSecretRead
<1>1. IInv => OldSecretRead
  BY DEF IInv, ReadInv
<1> QED BY <1>1, Invariance, PTL

\* At rest, who uses the secret is synced; with nobody on record the resource is right.
LEMMA RightAtRest ==
  ASSUME IInv, Quiet, misled = {}
  PROVE  /\ \A i \in Ingress : attached[i] = IF i \in wants THEN secret.uid ELSE None
         /\ wants # {} => Right
<1>1. \A i \in Ingress : Settled(i) /\ pc[i] = "idle"
  BY DEF Quiet, Settled
<1>2. Blamed = {}
  BY DEF Blamed
<1> QED BY <1>1, <1>2, WantsAreIngresses DEF IInv, TypeOK, SettledInv

\* The hash comparison leaves no Ingress with old content, but for a sync that went by
\* an old copy or an old secret last.
THEOREM RenewedAtRest == Spec => []RenewedUnlessMisled
<1>1. IInv => RenewedUnlessMisled
  <2> SUFFICES ASSUME IInv, Quiet, misled = {}, NEW i \in wants PROVE Renewed(i)
    BY DEF RenewedUnlessMisled
  <2>1. i \in Ingress
    BY WantsAreIngresses DEF IInv, TypeOK
  <2> QED BY <2>1, RightAtRest DEF Renewed, Right
<1> QED BY <1>1, Invariance, PTL

\* What is in use at rest has its hash tag, but for what cleanupCompartment marked while
\* it was used, and for old copies.
THEOREM RestoredAtRest == Spec => []RestoredUnlessMisled
<1>1. IInv => RestoredUnlessMisled
  <2> SUFFICES ASSUME IInv, Quiet, misled = {}, NEW u \in Uid, NEW i \in Ingress, attached[i] = u,
                      resource[u].tags # "hash"
               PROVE  u \in late
    BY DEF RestoredUnlessMisled, Associated
  <2>1. u # None
    BY CertificateAssumption
  <2>2. i \in wants /\ u = secret.uid
    BY <2>1, RightAtRest
  <2> QED BY <2>2, RightAtRest DEF Right
<1> QED BY <1>1, Invariance, PTL
=============================================================================
