------------------------- MODULE CertificateService -------------------------
(***************************************************************************)
(* One TLS secret, the Ingresses that use it, and what the controller      *)
(* keeps for it in OCI: a certificate for the listener or a CA bundle for  *)
(* the backend set ("kind" says which of the two a behaviour is about; the *)
(* code treats them alike but for what is said below). A resource is named *)
(* after the secret's UID; the service has one of a name at a time.        *)
(*                                                                         *)
(* Etags are compared and never ordered, so a copy of a resource says only *)
(* whether its etag is still the current one.                              *)
(***************************************************************************)
EXTENDS Naturals

CONSTANTS Ingress,
          MaxUid,     \* bound: UIDs the secret has, one after the other
          MaxVersion, \* bound: changes of the secret
          Instances,  \* bounds: the Ingresses there are and the users' changes,
                      \* failed calls and restarts that may happen
          None

Uid     == 1..MaxUid
Version == 0..MaxVersion \* what the secret has held, in order

ASSUME CertificateAssumption ==
  /\ MaxUid \in Nat \ {0} /\ MaxVersion \in Nat
  /\ Instances \subseteq [ingresses : SUBSET Ingress, uids : Uid, events : Nat]
  /\ None \notin Uid \cup Ingress

VARIABLES
  kind,     \* "certificate" or "caBundle"
  secret,   \* its UID and version, as the lister shows them
  instance, \* which of the Instances this is
  wants,    \* the Ingresses that use the secret
  attached, \* per Ingress: the resource its listener or backend set has
  resource, \* per UID: the resource of that name
  cache,    \* per UID: the client's cache entry of that resource
  copy,     \* per Ingress: the resource as the sync of the Ingress got it last
  left      \* how many of the users' changes and failures may still come

serviceVars == <<kind, instance, secret, wants, attached, resource, cache, copy, left>>

\* A resource that is "leaving" waits for its deletion. The tags hold the hash of
\* the content imported with them, or in its place the cleanup task's deletion
\* time, which is ahead ("marked") or past ("expired").
Tags     == {"hash", "marked", "expired"}
Resource == [state : {"creating", "updating", "active", "leaving"},
             version : Version, tags : Tags]

\* A copy in the cache is fresh for ten minutes.
Copy       == [uid : Uid, version : Version, tags : Tags, current : BOOLEAN]
CacheEntry == [copy : Copy, fresh : BOOLEAN]

ServiceInit ==
  /\ kind \in {"certificate", "caBundle"}
  /\ secret = [uid |-> 1, version |-> 0]
  /\ instance \in Instances /\ wants \in SUBSET instance.ingresses /\ left = instance.events
  /\ attached = [i \in Ingress |-> None]
  /\ resource = [u \in Uid |-> None]
  /\ cache = [u \in Uid |-> None]
  /\ copy = [i \in Ingress |-> None]

Event == left > 0 /\ left' = left - 1

CopyOf(u) ==
  [uid |-> u, version |-> resource[u].version, tags |-> resource[u].tags, current |-> TRUE]

Outdated(c, us) == IF c # None /\ c.uid \in us THEN [c EXCEPT !.current = FALSE] ELSE c

\* The resources us get a new etag: no copy of them has the current one.
Touch(us) ==
  /\ cache' = [u \in Uid |-> IF cache[u] = None THEN None
                             ELSE [cache[u] EXCEPT !.copy = Outdated(@, us)]]
  /\ copy' = [i \in Ingress |-> Outdated(copy[i], us)]

Put(u, r) == resource' = [resource EXCEPT ![u] = r] /\ Touch({u})

InState(u, states) == resource[u] # None /\ resource[u].state \in states

Usable(u) == InState(u, {"creating", "updating", "active"})

\* The name of a resource is taken until it is gone.
Create(u, version) ==
  /\ resource[u] = None
  /\ Put(u, [state |-> "creating", version |-> version, tags |-> "hash"])

\* A creation or update comes to its end.
Settle(u) ==
  /\ InState(u, {"creating", "updating"})
  /\ Put(u, [resource[u] EXCEPT !.state = "active"])
  /\ UNCHANGED <<kind, instance, secret, wants, attached, left>>

Associated(u) == \E i \in Ingress : attached[i] = u

\* The load balancer uses a resource that is there, and the association changes
\* the etags of the resource it uses now and of the one it used before.
Associate(i, u) ==
  /\ u # None => Usable(u)
  /\ attached' = [attached EXCEPT ![i] = u]
  /\ IF u = attached[i] THEN UNCHANGED <<cache, copy>> ELSE Touch({u, attached[i]} \ {None})

\* A certificate scheduled for deletion goes after three days, a CA bundle at once.
Leave(u) ==
  /\ InState(u, {"leaving"})
  /\ resource' = [resource EXCEPT ![u] = None]
  /\ cache' = [cache EXCEPT ![u] = None]
  /\ UNCHANGED <<kind, instance, secret, wants, attached, copy, left>>

\* Ten minutes after it was read.
Expire(u) ==
  /\ cache[u] # None /\ cache[u].fresh
  /\ cache' = [cache EXCEPT ![u].fresh = FALSE]
  /\ UNCHANGED <<kind, instance, secret, wants, attached, resource, copy, left>>

ServiceTypeOK ==
  /\ kind \in {"certificate", "caBundle"}
  /\ secret \in [uid : Uid, version : Version]
  /\ instance \in Instances /\ wants \subseteq instance.ingresses
  /\ attached \in [Ingress -> Uid \cup {None}]
  /\ resource \in [Uid -> Resource \cup {None}]
  /\ cache \in [Uid -> CacheEntry \cup {None}]
  /\ copy \in [Ingress -> Copy \cup {None}]
  /\ left \in Nat
=============================================================================
