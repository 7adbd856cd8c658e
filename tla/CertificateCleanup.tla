------------------------- MODULE CertificateCleanup --------------------------
(***************************************************************************)
(* The certificate cleanup task (pkg/task/certificatecleanup): once a day  *)
(* it lists the resources, marks those without an association with a       *)
(* deletion time, and deletes those whose deletion time has passed.        *)
(***************************************************************************)
EXTENDS CertificateService

\* A round is under way while one of these is not empty.
VARIABLES
  checks,  \* listed without a deletion time, not yet asked for associations
  marks,   \* found without associations, to mark
  deletes  \* listed with a deletion time that has passed, to delete

cleanupVars == <<checks, marks, deletes>>

CleanupInit == checks = {} /\ marks = {} /\ deletes = {}

RoundOver == checks' = {} /\ marks' = {} /\ deletes' = {}

Listed(tags) == {u \in Uid : InState(u, {"active"}) /\ resource[u].tags = tags}

\* Mutant: the deletion time is compared the wrong way round.
ListMarked ==
  /\ checks \cup marks \cup deletes = {}
  /\ Listed("hash") \cup Listed("marked") # {}
  /\ checks' = Listed("hash") /\ deletes' = Listed("marked")
  /\ UNCHANGED <<serviceVars, marks>>

\* getCertificatesToBeMarkedOrCleanedUp: the list (a round that finds nothing is
\* no step) ...
List ==
  /\ checks \cup marks \cup deletes = {}
  /\ Listed("hash") \cup Listed("expired") # {}
  /\ checks' = Listed("hash") /\ deletes' = Listed("expired")
  /\ UNCHANGED <<serviceVars, marks>>

\* ... and filterOutCertificateResourcesWithAssociations.
Check(u) ==
  /\ u \in checks
  /\ checks' = checks \ {u}
  /\ marks' = IF Associated(u) THEN marks ELSE marks \cup {u}
  /\ UNCHANGED <<serviceVars, deletes>>

\* An error of a list ends the round.
Abort ==
  /\ checks # {}
  /\ Event
  /\ RoundOver
  /\ UNCHANGED <<kind, instance, secret, wants, attached, resource, cache, copy>>

\* markCertificatesWithDeletionTime: an update without If-Match, of the tags only,
\* all of which it replaces. Errors are logged. (The task waits for the
\* resource to be active again, which keeps nobody else.)
Mark(u) ==
  /\ checks = {} /\ u \in marks
  /\ marks' = marks \ {u}
  /\ \/ /\ InState(u, {"active"})
        /\ Put(u, [resource[u] EXCEPT !.state = "updating", !.tags = "marked"])
        /\ UNCHANGED left
     \/ ~InState(u, {"active"}) /\ UNCHANGED <<resource, cache, copy, left>>
     \/ Event /\ UNCHANGED <<resource, cache, copy>>
  /\ UNCHANGED <<kind, instance, secret, wants, attached, checks, deletes>>

\* deleteExpiredCertificates. The service refuses to delete what is in use.
Delete(u) ==
  /\ checks = {} /\ marks = {} /\ u \in deletes
  /\ deletes' = deletes \ {u}
  /\ \/ /\ InState(u, {"active"}) /\ ~Associated(u)
        /\ Put(u, [resource[u] EXCEPT !.state = "leaving"])
        /\ UNCHANGED left
     \/ /\ ~InState(u, {"active"}) \/ Associated(u)
        /\ UNCHANGED <<resource, cache, copy, left>>
     \/ Event /\ UNCHANGED <<resource, cache, copy>>
  /\ UNCHANGED <<kind, instance, secret, wants, attached, checks, marks>>

\* The deletion time of a resource passes, a day or more after it was marked.
GracePasses(u) ==
  /\ InState(u, {"active"}) /\ resource[u].tags = "marked"
  /\ resource' = [resource EXCEPT ![u].tags = "expired"]
  /\ UNCHANGED <<kind, instance, secret, wants, attached, cache, copy, left>>

CleanupStep ==
  \/ List \/ Abort
  \/ \E u \in Uid : Check(u) \/ Mark(u) \/ Delete(u)

CleanupTypeOK == checks \subseteq Uid /\ marks \subseteq Uid /\ deletes \subseteq Uid
=============================================================================
