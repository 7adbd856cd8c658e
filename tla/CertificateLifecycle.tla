------------------------ MODULE CertificateLifecycle ------------------------
(***************************************************************************)
(* The syncs of the Ingresses that use a secret, the certificate cleanup   *)
(* task and the certificates service together.                             *)
(***************************************************************************)
EXTENDS CertificateSync, CertificateCleanup

VARIABLE late \* history: resources marked last in use, or with a sync at work on them

vars == <<serviceVars, syncVars, cleanupVars, late>>

Init == ServiceInit /\ SyncInit /\ CleanupInit /\ late = {}

\* The syncs that have the id of the resource of UID u.
Users(u) == {i \in Ingress : seen[i] # None /\ seen[i].uid = u /\ pc[i] # "create"}

\* A day is longer than a sync. (A resource that goes while a sync has its id
\* fails that sync at its next call, so that to wait for the sync loses nothing.)
DaysPass(u) == Users(u) = {} /\ (Leave(u) \/ GracePasses(u))

\* Mark is the step that takes a resource's hash tag away.
RecordMark ==
  late' = {u \in Uid : IF resource[u] # None /\ resource[u].tags = "hash"
                            /\ resource'[u] # None /\ resource'[u].tags = "marked"
                         THEN Associated(u) \/ Users(u) # {}
                         ELSE u \in late}

SyncOf(i)   == SyncStep(i) /\ UNCHANGED <<cleanupVars, late>>
CleanupTask == CleanupStep /\ RecordMark /\ UNCHANGED syncVars

Next ==
  \/ UserStep /\ UNCHANGED <<cleanupVars, late>>
  \/ \E i \in Ingress : SyncOf(i)
  \/ CleanupTask
  \/ (\E u \in Uid : Settle(u) \/ Expire(u) \/ DaysPass(u))
       /\ UNCHANGED <<syncVars, cleanupVars, late>>
  \/ Restart /\ RoundOver /\ UNCHANGED late

Spec == Init /\ [][Next]_vars

\* Workers and the daily task go on, the service ends what it has begun, and days
\* pass. Users, faults and the ten minutes of a cache entry are left to chance.
FairSpec ==
  /\ Spec
  /\ \A i \in Ingress : WF_vars(SyncOf(i))
  /\ WF_vars(CleanupTask)
  /\ \A u \in Uid :
       WF_vars((Settle(u) \/ DaysPass(u)) /\ UNCHANGED <<syncVars, cleanupVars, late>>)

\* The types, and what a sync holds at each place: its secret, its copy of the
\* resource and what comes after a wait.
TypeOK == ServiceTypeOK /\ SyncTypeOK /\ CleanupTypeOK

\* A sync that works with what the secret held before is followed by another:
\* secretAddOrUpdate queues an Ingress again while it is being synced.
OldSecretRead ==
  \A i \in Ingress : seen[i] # None /\ seen[i] # secret => i \in pending

\* No sync is due or under way, and none was given up.
Quiet == pending = {} /\ dropped = {} /\ \A i \in Ingress : pc[i] = "idle"

Renewed(i) ==
  /\ attached[i] = secret.uid
  /\ resource[secret.uid] # None
  /\ resource[secret.uid].version = secret.version

\* At rest every Ingress that uses the secret has a resource with what the secret
\* holds now (the hash comparison of ensureCertificateForListener and
\* ensureCaBundleForBackendSet), unless a sync went by an old cached copy or an old
\* secret last.
RenewedUnlessMisled ==
  Quiet /\ misled = {} => \A i \in wants : Renewed(i)

\* At rest no resource in use has a deletion time (cleanupCompartment: the update
\* of the next sync restores the hash tag), unless it was marked while it was in
\* use or a sync had its id, or a sync went by an old copy.
RestoredUnlessMisled ==
  Quiet /\ misled = {} =>
    \A u \in Uid : Associated(u) /\ resource[u].tags # "hash" => u \in late

\* Syncs come to an end: a conflict of etags, with the service, the cleanup task
\* or another sync, is not met again and again with the same cached etag.
SyncsEnd == <>[](\A i \in Ingress : pc[i] = "idle" /\ i \notin pending)

Unused(u) == ~Associated(u) /\ (secret.uid # u \/ wants = {})

\* A resource that stays unused is deleted in the end, by the rounds of the
\* cleanup task: marked in one and deleted in a later one.
UnusedGoes == \A u \in Uid : []<>(~Unused(u) \/ resource[u] = None)
=============================================================================
