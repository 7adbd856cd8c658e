--------------------------- MODULE CertificateSync ---------------------------
(***************************************************************************)
(* What a sync of an Ingress does for its secret:                          *)
(* ensureCertificateForListener and ensureCaBundleForBackendSet            *)
(* (pkg/controllers/ingress/util.go), with certificate_util.go and the     *)
(* caching client of pkg/certificate. Each Ingress is synced by one worker *)
(* at a time and there are enough workers, so that a sync is named by its  *)
(* Ingress. A call of the service, a look into the cache and a store into  *)
(* it are steps of their own.                                              *)
(***************************************************************************)
EXTENDS CertificateService

VARIABLES
  pending,  \* Ingresses a sync is due for
  dropped,  \* history: given up, without an event or a good sync since
  pc,       \* per Ingress: where its sync is
  then,     \* per Ingress: what its sync does once it has waited, or filled the cache
  seen,     \* per Ingress: the secret as its sync has read it
  misled    \* history: Ingresses whose last sync went by an old copy or an old secret

syncVars == <<pending, dropped, pc, then, seen, misled>>

Place == {"idle", "create", "get", "etag", "send", "refetch", "wait", "fill", "prune", "use"}
Then  == {"compare", "send", "prune", "use", "retry"}

ASSUME NoneAssumption ==
  None \notin Then \cup Resource \cup CacheEntry \cup Copy \cup [uid : Uid, version : Version]

SyncInit ==
  /\ pending = instance.ingresses /\ dropped = {}
  /\ pc = [i \in Ingress |-> "idle"]
  /\ then = [i \in Ingress |-> None]
  /\ seen = [i \in Ingress |-> None]
  /\ misled = {}

Goto(i, place) == pc' = [pc EXCEPT ![i] = place] /\ then' = [then EXCEPT ![i] = None]

GotoThen(i, place, next) == pc' = [pc EXCEPT ![i] = place] /\ then' = [then EXCEPT ![i] = next]

Enqueue(is) == pending' = pending \cup is /\ dropped' = dropped \ is

-----------------------------------------------------------------------------
(* The users.                                                                *)

\* Mutant: an Ingress that is being synced is taken to be looked after.
SetSecretUnlessSyncing(uid) ==
  /\ Event /\ secret.version < MaxVersion
  /\ secret' = [uid |-> uid, version |-> secret.version + 1]
  /\ Enqueue({i \in wants : pc[i] = "idle"})
  /\ UNCHANGED <<kind, instance, wants, attached, resource, cache, copy>>
  /\ UNCHANGED <<pc, then, seen, misled>>

\* secretAddOrUpdate: the Ingresses that name the secret are queued.
SetSecret(uid) ==
  /\ Event /\ secret.version < MaxVersion
  /\ secret' = [uid |-> uid, version |-> secret.version + 1]
  /\ Enqueue(wants)
  /\ UNCHANGED <<kind, instance, wants, attached, resource, cache, copy>>
  /\ UNCHANGED <<pc, then, seen, misled>>

Renew    == SetSecret(secret.uid)
Recreate == secret.uid < instance.uids /\ SetSecret(secret.uid + 1)

\* An Ingress is edited: it uses the secret now, or no longer.
Toggle(i) ==
  /\ Event /\ i \in instance.ingresses
  /\ wants' = IF i \in wants THEN wants \ {i} ELSE wants \cup {i}
  /\ Enqueue({i})
  /\ UNCHANGED <<kind, instance, secret, attached, resource, cache, copy>>
  /\ UNCHANGED <<pc, then, seen, misled>>

-----------------------------------------------------------------------------
(* A sync.                                                                   *)

\* The id to work on: that of the backend set's CA bundle if it has the name
\* (VerifyOrGetCaBundleIdByName; the name of a resource is the UID it was made
\* for), or what a list by name of the active ones finds.
Find(i, u) ==
  IF kind = "caBundle" /\ attached[i] = u THEN {u} ELSE {v \in {u} : InState(v, {"active"})}

\* The Ingress and the secret are read, and the resource is looked for.
Take(i) ==
  /\ pc[i] = "idle" /\ i \in pending
  /\ pending' = pending \ {i}
  /\ IF i \in wants
       THEN /\ seen' = [seen EXCEPT ![i] = secret]
            /\ Goto(i, IF Find(i, secret.uid) = {} THEN "create" ELSE "get")
       ELSE Goto(i, "use") /\ UNCHANGED seen
  /\ UNCHANGED <<serviceVars, dropped, misled>>

\* Mutant: a sync's secret is left to the next one.
EndKeepsSecret(i) == Goto(i, "idle") /\ UNCHANGED seen

\* handleErr, and the sync forgets what it holds.
End(i) ==
  /\ Goto(i, "idle")
  /\ seen' = [seen EXCEPT ![i] = None]

Retry(i) ==
  /\ \/ pending' = pending \cup {i} /\ UNCHANGED dropped
     \/ dropped' = dropped \cup ({i} \ pending) /\ UNCHANGED pending
  /\ End(i)
  /\ UNCHANGED misled

\* The sync writes the resource: all is well if it writes what the secret holds now.
Written(i) == misled' = IF seen[i] = secret THEN {} ELSE misled \cup {i}

\* The retry token is made of the name: a creation under way for another sync, of
\* the same content, is this one's too.
CreateResource(i) ==
  /\ pc[i] = "create"
  /\ \/ Create(seen[i].uid, seen[i].version)
     \/ /\ InState(seen[i].uid, {"creating"})
        /\ resource[seen[i].uid].version = seen[i].version
        /\ UNCHANGED <<resource, cache, copy>>
  /\ GotoThen(i, "wait", "use")
  /\ Written(i)
  /\ UNCHANGED <<kind, instance, secret, wants, attached, left, pending, dropped, seen>>

\* A step that only reads, or the answer of the service to a read.
Reads ==
  /\ UNCHANGED <<kind, instance, secret, wants, attached, resource, cache, left>>
  /\ UNCHANGED <<pending, dropped, seen>>

\* getCertificateBustCache up to the answer of the service.
Fetch(i, next) ==
  /\ resource[seen[i].uid] # None
  /\ copy' = [copy EXCEPT ![i] = CopyOf(seen[i].uid)]
  /\ GotoThen(i, "fill", next)

\* Mutants: one of the two is not looked at.
UpToDateByTag(i, c)     == c.tags = "hash"
UpToDateByVersion(i, c) == c.version = seen[i].version

\* The copy has a hash tag, and it is that of what the secret held.
UpToDate(i, c) == c.tags = "hash" /\ c.version = seen[i].version

\* The sync goes by copy c, which may no longer be what the service has.
Compare(i, c) ==
  IF UpToDate(i, c)
    THEN /\ Goto(i, "use")
         /\ misled' = IF resource[c.uid] # None /\ UpToDate(i, CopyOf(c.uid))
                       THEN misled \ {i} ELSE misled \cup {i}
    ELSE Goto(i, "etag") /\ UNCHANGED misled

Hit(i) == cache[seen[i].uid] # None /\ cache[seen[i].uid].fresh

Get(i) ==
  /\ pc[i] = "get"
  /\ IF Hit(i) THEN Compare(i, cache[seen[i].uid].copy) /\ UNCHANGED copy
               ELSE Fetch(i, "compare") /\ UNCHANGED misled
  /\ Reads

\* An update takes its etag from a second GetCertificate.
GetEtag(i) ==
  /\ pc[i] = "etag"
  /\ IF Hit(i) THEN /\ copy' = [copy EXCEPT ![i] = cache[seen[i].uid].copy]
                    /\ Goto(i, "send")
               ELSE Fetch(i, "send")
  /\ UNCHANGED misled
  /\ Reads

\* UpdateCertificate with If-Match; the new hash replaces all tags. A conflict, of
\* etags or with another change, is followed by a read and an error.
Send(i) ==
  /\ pc[i] = "send" /\ resource[seen[i].uid] # None
  /\ IF copy[i].current /\ InState(seen[i].uid, {"active"})
       THEN /\ Put(seen[i].uid,
                 [state |-> "updating", version |-> seen[i].version, tags |-> "hash"])
            /\ GotoThen(i, "wait", IF kind = "certificate" THEN "prune" ELSE "use")
            /\ Written(i)
       ELSE Goto(i, "refetch") /\ UNCHANGED <<resource, cache, copy, misled>>
  /\ UNCHANGED <<kind, instance, secret, wants, attached, left, pending, dropped, seen>>

\* Mutant: the error is returned without the read.
RefetchNothing(i) ==
  /\ pc[i] = "refetch"
  /\ Retry(i)
  /\ copy' = [copy EXCEPT ![i] = None]
  /\ UNCHANGED <<kind, instance, secret, wants, attached, resource, cache, left>>

Refetch(i) ==
  /\ pc[i] = "refetch"
  /\ Fetch(i, "retry")
  /\ UNCHANGED misled
  /\ Reads

\* waitForActiveCertificate ends with the first active answer, whoever's change it shows.
Wait(i) ==
  /\ pc[i] = "wait" /\ InState(seen[i].uid, {"active"})
  /\ Fetch(i, then[i])
  /\ UNCHANGED misled
  /\ Reads

\* PruneCertificateVersions: there may be an old version to schedule for deletion,
\* which changes the etag. A failure is logged and passed over.
Prune(i) ==
  /\ pc[i] = "prune"
  /\ \/ Goto(i, "use") /\ UNCHANGED <<cache, copy>>
     \/ /\ InState(seen[i].uid, {"active"})
        /\ Touch({seen[i].uid})
        /\ GotoThen(i, "wait", "use")
  /\ UNCHANGED <<kind, instance, secret, wants, attached, resource, left>>
  /\ UNCHANGED <<pending, dropped, seen, misled>>

\* SetCertCache, with whatever the sync got, at the time it gets the lock.
Fill(i) ==
  /\ pc[i] = "fill"
  /\ cache' = [cache EXCEPT ![seen[i].uid] = [copy |-> copy[i], fresh |-> TRUE]]
  /\ copy' = IF then[i] = "send" THEN copy ELSE [copy EXCEPT ![i] = None]
  /\ CASE then[i] = "retry"   -> Retry(i)
       [] then[i] = "compare" -> Compare(i, copy[i]) /\ UNCHANGED <<pending, dropped, seen>>
       [] OTHER               -> Goto(i, then[i]) /\ UNCHANGED <<pending, dropped, seen, misled>>
  /\ UNCHANGED <<kind, instance, secret, wants, attached, resource, left>>

\* The listener or backend set is given the resource, or none. The sync is over.
Use(i) ==
  /\ pc[i] = "use"
  /\ Associate(i, IF seen[i] = None THEN None ELSE seen[i].uid)
  /\ End(i)
  /\ dropped' = dropped \ {i}
  /\ UNCHANGED <<kind, instance, secret, wants, resource, left, pending, misled>>

\* The service refuses the call the sync is about to make.
Refused(i) ==
  \/ pc[i] = "create" /\ resource[seen[i].uid] # None
  \/ pc[i] \in {"get", "etag"} /\ ~Hit(i) /\ resource[seen[i].uid] = None
  \/ pc[i] \in {"send", "refetch"} /\ resource[seen[i].uid] = None
  \/ /\ pc[i] \in {"wait", "use"} /\ seen[i] # None
     /\ ~Usable(seen[i].uid)

\* The sync ends with an error: a refused call, or a fault of any other (the two
\* minutes of a wait are over, the secret cannot be read, the listener's update fails).
Fail(i) ==
  /\ pc[i] # "idle"
  /\ (Refused(i) /\ UNCHANGED left) \/ Event
  /\ Retry(i)
  /\ copy' = [copy EXCEPT ![i] = None]
  /\ UNCHANGED <<kind, instance, secret, wants, attached, resource, cache>>

\* The controller is killed and started again: the cache is lost, and the first
\* list is an event for every Ingress (secretAdd ignores it).
Restart ==
  /\ Event
  /\ cache' = [u \in Uid |-> None] /\ copy' = [i \in Ingress |-> None]
  /\ pending' = instance.ingresses /\ dropped' = {}
  /\ pc' = [i \in Ingress |-> "idle"] /\ then' = [i \in Ingress |-> None]
  /\ seen' = [i \in Ingress |-> None]
  /\ UNCHANGED <<kind, instance, secret, wants, attached, resource, misled>>

UserStep == Renew \/ Recreate \/ \E i \in Ingress : Toggle(i)

SyncStep(i) ==
  \/ Take(i) \/ CreateResource(i) \/ Get(i) \/ GetEtag(i) \/ Send(i) \/ Refetch(i)
  \/ Wait(i) \/ Fill(i) \/ Prune(i) \/ Use(i) \/ Fail(i)

SyncTypeOK ==
  /\ pending \subseteq Ingress /\ dropped \subseteq Ingress /\ misled \subseteq Ingress
  /\ pc \in [Ingress -> Place] /\ then \in [Ingress -> Then \cup {None}]
  /\ seen \in [Ingress -> [uid : Uid, version : Version] \cup {None}]
  /\ \A i \in Ingress :
       /\ then[i] # None <=> pc[i] \in {"wait", "fill"}
       /\ pc[i] = "idle" => seen[i] = None
       /\ pc[i] \in {"idle", "create", "get", "use"} => copy[i] = None
       /\ pc[i] \in {"send", "fill"} => copy[i] # None /\ copy[i].uid = seen[i].uid
=============================================================================
