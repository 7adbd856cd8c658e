----------------------------- MODULE StateBuild -----------------------------
(***************************************************************************)
(* BuildState (pkg/state/ingressstate.go): the Ingresses of a class, in    *)
(* the order of their names, are merged path by path into what the load    *)
(* balancer should have. Ingresses share listeners and backend sets, so    *)
(* every setting is checked against what those before have put there: some *)
(* disagreements end the build with an error, some are settled.            *)
(*                                                                         *)
(* A path stands for an HTTP path with a service; the listener and the     *)
(* backend set its port, annotations and host give are part of it, and so  *)
(* is the secret its host has in the Ingress's TLS section. An artifact is *)
(* a certificate or a secret with its namespace.                           *)
(***************************************************************************)
EXTENDS Naturals, Sequences, FiniteSets

CONSTANTS Group,         \* the groups of Ingresses to build: sequences of them
          Listener, BackendSet,
          DefaultIngress, \* the backend set default_ingress
          DefaultChecker, \* GetDefaultHeathChecker
          DefaultPolicy,  \* DefaultBackendSetRoutingPolicy
          Unset,          \* no annotation, no entry
          Invalid         \* an annotation that does not parse

ASSUME StateAssumption ==
  /\ DefaultIngress \notin BackendSet /\ Unset \notin BackendSet \cup {DefaultIngress}
  /\ DefaultChecker # Unset /\ DefaultPolicy # Unset
  /\ \A g \in Group : \A i \in DOMAIN g : \A n \in DOMAIN g[i].paths :
       g[i].paths[n].listener \in Listener /\ g[i].paths[n].backendSet \in BackendSet

\* Ingresses and paths are sequences, and GetIngressProtocol has a value for every Ingress.
ASSUME GroupAssumption ==
  \A g \in Group :
    /\ Len(g) \in Nat /\ DOMAIN g = 1..Len(g)
    /\ \A i \in DOMAIN g :
         /\ Len(g[i].paths) \in Nat /\ DOMAIN g[i].paths = 1..Len(g[i].paths)
         /\ g[i].protocol # Unset /\ g[i].backendTLS \in BOOLEAN
         /\ \A n \in DOMAIN g[i].certificates : g[i].certificates[n] # Unset

VARIABLES group,   \* the Ingresses, none being deleted, in the order of their names
          at, path, \* the Ingress, and the number of its paths that are merged
          owner,   \* defaultBackendHealthCheckOwner, as a number in group
          state,   \* IngressGroupState, as far as it is built
          outcome  \* "building", "built", "conflict" or "unresolved"

vars == <<group, at, path, owner, state, outcome>>

TCP == "TCP"
AllBackendSets == BackendSet \cup {DefaultIngress}

\* Nothing is merged; default_ingress has its health checker and policy.
Empty ==
  [listeners           |-> {},
   backendSets         |-> {DefaultIngress},
   listenerProtocol    |-> [l \in Listener |-> Unset],
   listenerDefaultBs   |-> [l \in Listener |-> Unset],
   listenerIdleTimeout |-> [l \in Listener |-> Unset],
   listenerBackendSets |-> [l \in Listener |-> {}],
   listenerTLS         |-> [l \in Listener |-> {}],
   listenerTLSPolicy   |-> [l \in Listener |-> Unset],
   bsHealthChecker     |-> [b \in AllBackendSets |-> IF b = DefaultIngress THEN DefaultChecker ELSE Unset],
   bsPolicy            |-> [b \in AllBackendSets |-> IF b = DefaultIngress THEN DefaultPolicy ELSE Unset],
   bsPersistence       |-> [b \in BackendSet |-> Unset],
   bsTLSStatus         |-> [b \in BackendSet |-> Unset],
   bsTLS               |-> [b \in BackendSet |-> Unset],
   bsTLSPolicy         |-> [b \in BackendSet |-> Unset]]

Init ==
  /\ group \in Group
  /\ at = 0 /\ path = 0 /\ owner = 0
  /\ state = Empty
  /\ outcome = "building"

-----------------------------------------------------------------------------
(* What an Ingress declares.                                                 *)

CheckerOf(ing) == IF ing.healthChecker = Unset THEN DefaultChecker ELSE ing.healthChecker
PolicyOf(ing)  == IF ing.policy = Unset THEN DefaultPolicy ELSE ing.policy

DefaultBsOf(ing, p) == IF ing.protocol = TCP THEN p.backendSet ELSE DefaultIngress

\* The TLS section and the certificates of a TCP ingress are not used.
SecretOf(ing, p)     == IF ing.protocol = TCP THEN Unset ELSE p.secret
CertificatesOf(ing)  == IF ing.protocol = TCP THEN <<>> ELSE ing.certificates

\* What the backend set's own TLS would use: the secret before a certificate.
ArtifactOf(ing, p) ==
  IF SecretOf(ing, p) # Unset THEN SecretOf(ing, p)
  ELSE IF CertificatesOf(ing) # <<>> THEN Head(CertificatesOf(ing)) ELSE Unset

\* An entry of the backend set's TLS is an entry.
ASSUME StatusAssumption ==
  \A g \in Group : \A i \in DOMAIN g : \A n \in DOMAIN g[i].paths :
    \A a \in {Unset, ArtifactOf(g[i], g[i].paths[n])}, enabled \in BOOLEAN :
      [enabled |-> enabled, artifact |-> a] # Unset

\* Mutant: a host without a secret counts for one with an empty secret.
ListenerArtifactsEmpty(ing, p) ==
  {CertificatesOf(ing)[n] : n \in DOMAIN CertificatesOf(ing)} \cup {SecretOf(ing, p)}

ListenerArtifacts(ing, p) ==
  {CertificatesOf(ing)[n] : n \in DOMAIN CertificatesOf(ing)} \cup ({SecretOf(ing, p)} \ {Unset})

-----------------------------------------------------------------------------
(* The validations of one path: each compares what the Ingress declares with *)
(* the entry that is there, if any.                                          *)

ProtocolConflict(ing, p) == state.listenerProtocol[p.listener] \notin {Unset, ing.protocol}

DefaultBsConflict(ing, p) == state.listenerDefaultBs[p.listener] \notin {Unset, DefaultBsOf(ing, p)}

\* Mutant: no timeout is a timeout like another.
IdleTimeoutConflictUnset(ing, p) ==
  state.listenerIdleTimeout[p.listener] \notin {Unset, ing.idleTimeout}

\* An Ingress without a timeout has no say.
IdleTimeoutConflict(ing, p) ==
  ing.idleTimeout # Unset /\ state.listenerIdleTimeout[p.listener] \notin {Unset, ing.idleTimeout}

\* The default is no conflict with anything before it.
HealthCheckerConflict(ing, p) ==
  CheckerOf(ing) # DefaultChecker /\ state.bsHealthChecker[p.backendSet] \notin {Unset, CheckerOf(ing)}

PolicyConflict(ing, p) == state.bsPolicy[p.backendSet] \notin {Unset, PolicyOf(ing)}

\* Mutant: the artifact is compared only when TLS is switched on or off.
TLSConflictEnabledOnly(ing, p) ==
  LET status == state.bsTLSStatus[p.backendSet]
  IN  status # Unset /\ status.enabled # ing.backendTLS

TLSConflict(ing, p) ==
  LET status == state.bsTLSStatus[p.backendSet]
  IN  /\ status # Unset
      /\ \/ status.enabled # ing.backendTLS
         \/ /\ ing.backendTLS
            /\ status.artifact # Unset /\ ArtifactOf(ing, p) \notin {Unset, status.artifact}

Conflict(ing, p) ==
  \/ ing.persistence = Invalid
  \/ ProtocolConflict(ing, p) \/ DefaultBsConflict(ing, p) \/ IdleTimeoutConflict(ing, p)
  \/ HealthCheckerConflict(ing, p) \/ PolicyConflict(ing, p) \/ TLSConflict(ing, p)

-----------------------------------------------------------------------------
(* The entries a path leaves.                                                *)

Kept(declared, current) == IF declared = Unset THEN current ELSE declared

\* Mutant: a cookie of the application gives way to none.
PersistenceLast(current, declared) ==
  IF current # Unset /\ current.kind = "lb" THEN current ELSE declared

\* The first load balancer cookie stays; else the first cookie does.
Persistence(current, declared) ==
  IF current = Unset \/ (declared # Unset /\ declared.kind = "lb" /\ current.kind # "lb")
    THEN declared ELSE current

TLSStatus(current, ing, p) ==
  IF current = Unset THEN [enabled |-> ing.backendTLS, artifact |-> ArtifactOf(ing, p)]
  ELSE IF current.artifact = Unset THEN [enabled |-> current.enabled, artifact |-> ArtifactOf(ing, p)]
  ELSE current

BackendTLS(current, ing, p) ==
  IF ArtifactOf(ing, p) = Unset THEN current
  ELSE IF ing.backendTLS THEN ArtifactOf(ing, p) ELSE Unset

\* Mutant: the default backend set is not among those the listener reaches.
ReachedPathOnly(ing, p) == {p.backendSet}

Reached(ing, p) == {p.backendSet, DefaultBsOf(ing, p)}

Merge(ing, p) ==
  [state EXCEPT
    !.listeners                       = @ \cup {p.listener},
    !.backendSets                     = @ \cup {p.backendSet},
    !.listenerProtocol[p.listener]    = ing.protocol,
    !.listenerDefaultBs[p.listener]   = DefaultBsOf(ing, p),
    !.listenerIdleTimeout[p.listener] = Kept(ing.idleTimeout, @),
    !.listenerBackendSets[p.listener] = @ \cup Reached(ing, p),
    !.listenerTLS[p.listener]         = @ \cup ListenerArtifacts(ing, p),
    !.bsHealthChecker[p.backendSet]   = CheckerOf(ing),
    !.bsPolicy[p.backendSet]          = PolicyOf(ing),
    !.bsPersistence[p.backendSet]     = Persistence(@, ing.persistence),
    !.bsTLSStatus[p.backendSet]       = TLSStatus(@, ing, p),
    !.bsTLS[p.backendSet]             = BackendTLS(@, ing, p)]

-----------------------------------------------------------------------------
(* The loop over the Ingresses and their paths.                              *)

Building == outcome = "building"
Now      == group[at]

NextIngress ==
  /\ Building /\ at < Len(group)
  /\ at > 0 => path = Len(Now.paths)
  /\ at' = at + 1 /\ path' = 0
  /\ LET ing == group[at + 1]
     IN  IF ing.defaultHealthChecker = Unset THEN UNCHANGED <<owner, state, outcome>>
         ELSE IF ~ing.defaultBackend \/ owner # 0 \/ ing.defaultHealthChecker = Invalid
           THEN outcome' = "conflict" /\ UNCHANGED <<owner, state>>
         ELSE /\ owner' = at + 1
              /\ state' = [state EXCEPT !.bsHealthChecker[DefaultIngress] = ing.defaultHealthChecker]
              /\ UNCHANGED outcome
  /\ UNCHANGED group

MergePath ==
  /\ Building /\ at > 0 /\ path < Len(Now.paths)
  /\ IF Conflict(Now, Now.paths[path + 1])
       THEN outcome' = "conflict" /\ UNCHANGED <<path, state>>
       ELSE path' = path + 1 /\ state' = Merge(Now, Now.paths[path + 1]) /\ UNCHANGED outcome
  /\ UNCHANGED <<group, at, owner>>

\* The path's service or port is not found, an annotated number does not parse.
PathUnresolved ==
  /\ Building /\ at > 0 /\ path < Len(Now.paths)
  /\ outcome' = "unresolved"
  /\ UNCHANGED <<group, at, path, owner, state>>

-----------------------------------------------------------------------------
(* The TLS policies come last: an annotation on an Ingress has a say only if *)
(* the listener or the backend set has TLS at all.                           *)

ServedBy(i, l) == \E n \in DOMAIN group[i].paths : group[i].paths[n].listener = l
BackedBy(i, b) == \E n \in DOMAIN group[i].paths : group[i].paths[n].backendSet = b

ListenerCandidates(l) ==
  IF state.listenerTLS[l] = {} THEN {}
  ELSE {group[i].listenerTLSPolicy : i \in {j \in DOMAIN group : ServedBy(j, l)}} \ {Unset}

BackendSetCandidates(b) ==
  IF state.bsTLS[b] = Unset THEN {}
  ELSE {group[i].bsTLSPolicy : i \in {j \in DOMAIN group : BackedBy(j, b)}} \ {Unset}

Ciphers(candidates)   == {c.cipherSuite : c \in candidates} \ {Unset}
Protocols(candidates) == {c.protocols : c \in candidates} \ {Unset}

\* Mutant: the protocols of the policies are not compared.
MergeableByCipher(candidates) ==
  Invalid \notin candidates /\ Cardinality(Ciphers(candidates)) <= 1

\* Candidates may differ in what only one of them has.
Mergeable(candidates) ==
  /\ Invalid \notin candidates
  /\ Cardinality(Ciphers(candidates)) <= 1 /\ Cardinality(Protocols(candidates)) <= 1

TheOne(values) == IF values = {} THEN Unset ELSE CHOOSE v \in values : TRUE

MergedPolicy(candidates) ==
  IF candidates = {} THEN Unset
  ELSE [cipherSuite |-> TheOne(Ciphers(candidates)), protocols |-> TheOne(Protocols(candidates))]

Finish ==
  /\ Building /\ at = Len(group)
  /\ at > 0 => path = Len(Now.paths)
  /\ IF /\ \A l \in Listener : Mergeable(ListenerCandidates(l))
        /\ \A b \in BackendSet : Mergeable(BackendSetCandidates(b))
       THEN /\ outcome' = "built"
            /\ state' = [state EXCEPT
                 !.listenerTLSPolicy = [l \in Listener |-> MergedPolicy(ListenerCandidates(l))],
                 !.bsTLSPolicy = [b \in BackendSet |-> MergedPolicy(BackendSetCandidates(b))]]
       ELSE outcome' = "conflict" /\ UNCHANGED state
  /\ UNCHANGED <<group, at, path, owner>>

Next == NextIngress \/ MergePath \/ PathUnresolved \/ Finish

Spec == Init /\ [][Next]_vars

-----------------------------------------------------------------------------
(* Properties.                                                               *)

\* Types; and what is merged is a prefix of the group's paths.
TypeOK ==
  /\ at \in 0..Len(group) /\ owner \in 0..at
  /\ path \in Nat /\ (at = 0 => path = 0) /\ (at > 0 => path <= Len(Now.paths))
  /\ outcome \in {"building", "built", "conflict", "unresolved"}
  /\ DOMAIN state = DOMAIN Empty
  /\ state.listeners \subseteq Listener
  /\ DefaultIngress \in state.backendSets /\ state.backendSets \subseteq AllBackendSets
  /\ \A l \in Listener : Unset \notin state.listenerTLS[l] \cup state.listenerBackendSets[l]
  /\ \A l \in Listener : state.listenerProtocol[l] = Unset <=> l \notin state.listeners
  /\ \A b \in BackendSet : state.bsHealthChecker[b] = Unset <=> b \notin state.backendSets

\* The policy an Ingress asks for, as far as it asks, is in the one merged.
PolicyHonoured(asked, merged) ==
  asked # Unset =>
    /\ asked.cipherSuite \in {Unset, merged.cipherSuite}
    /\ asked.protocols \in {Unset, merged.protocols}

\* In a state that is built, no Ingress's setting gave way to another's: its
\* listeners have its protocol, default backend set, idle timeout, certificates
\* and TLS policy, its backend sets its policy and TLS, default_ingress the
\* health checker of its owner. Whatever the build order, the only settings that
\* are settled silently are health checkers and cookies.
SettingsHonoured ==
  outcome = "built" =>
    \A i \in DOMAIN group :
      /\ group[i].defaultHealthChecker # Unset =>
           state.bsHealthChecker[DefaultIngress] = group[i].defaultHealthChecker
      /\ \A n \in DOMAIN group[i].paths :
           LET ing == group[i]
               p   == ing.paths[n]
               l   == p.listener
               b   == p.backendSet
           IN  /\ state.listenerProtocol[l] = ing.protocol
               /\ state.listenerDefaultBs[l] = DefaultBsOf(ing, p)
               /\ ing.idleTimeout \in {Unset, state.listenerIdleTimeout[l]}
               /\ ListenerArtifacts(ing, p) \subseteq state.listenerTLS[l]
               /\ state.listenerTLS[l] # {} =>
                    PolicyHonoured(ing.listenerTLSPolicy, state.listenerTLSPolicy[l])
               /\ state.bsPolicy[b] = PolicyOf(ing)
               /\ IF ing.backendTLS THEN ArtifactOf(ing, p) \in {Unset, state.bsTLS[b]}
                  ELSE state.bsTLS[b] = Unset
               /\ state.bsTLS[b] # Unset => PolicyHonoured(ing.bsTLSPolicy, state.bsTLSPolicy[b])

\* What the declarations say, without an order.
Clash(x, y) == x # Unset /\ y # Unset /\ x # y

PoliciesClash(x, y) ==
  \/ Invalid \in {x, y}
  \/ Unset \notin {x, y} /\ (Clash(x.cipherSuite, y.cipherSuite) \/ Clash(x.protocols, y.protocols))

Disagree(f, p, g, q) ==
  \/ /\ p.listener = q.listener
     /\ \/ f.protocol # g.protocol \/ DefaultBsOf(f, p) # DefaultBsOf(g, q)
        \/ Clash(f.idleTimeout, g.idleTimeout)
        \/ PoliciesClash(f.listenerTLSPolicy, g.listenerTLSPolicy)
  \/ /\ p.backendSet = q.backendSet
     /\ \/ CheckerOf(f) # CheckerOf(g) \/ PolicyOf(f) # PolicyOf(g)
        \/ f.backendTLS # g.backendTLS \/ Clash(ArtifactOf(f, p), ArtifactOf(g, q))
        \/ PoliciesClash(f.bsTLSPolicy, g.bsTLSPolicy)

Misplaced(i) ==
  \/ group[i].persistence = Invalid \/ group[i].defaultHealthChecker = Invalid
  \/ /\ group[i].defaultHealthChecker # Unset
     /\ ~group[i].defaultBackend
          \/ \E j \in DOMAIN group \ {i} : group[j].defaultHealthChecker # Unset

\* A build is refused only for a reason users can see in one Ingress or in two
\* of them, however many lie in between and in whatever order: two share a
\* listener or a backend set and disagree about it. A policy, a health checker
\* or backend TLS left open counts as its default there, and can be in the way
\* of another Ingress; an idle timeout, a TLS policy or an artifact left open
\* never is.
RefusedForAReason ==
  outcome = "conflict" =>
    \/ \E i \in DOMAIN group : Misplaced(i)
    \/ \E i, j \in DOMAIN group : \E m \in DOMAIN group[i].paths, n \in DOMAIN group[j].paths :
         Disagree(group[i], group[i].paths[m], group[j], group[j].paths[n])

\* "Only one cookie session persistence mode can be enabled for a backend set"
\* (GettingStarted): of the Ingresses that share it the first with a load
\* balancer cookie decides, else the first with a cookie, so that the next build
\* decides alike; it has none only if nobody asks for one.
CookieDecided ==
  outcome = "built" =>
    \A b \in BackendSet :
      LET asking == {i \in DOMAIN group : BackedBy(i, b) /\ group[i].persistence # Unset}
          lb     == {i \in asking : group[i].persistence.kind = "lb"}
          voters == IF lb # {} THEN lb ELSE asking
      IN  IF voters = {} THEN state.bsPersistence[b] = Unset
          ELSE \E i \in voters : /\ \A j \in voters : i <= j
                                 /\ state.bsPersistence[b] = group[i].persistence

\* The built state is closed: it has exactly the listeners and backend sets the
\* paths name, and every backend set a listener reaches, by its default or by a
\* path, is one of them. (The controllers delete what is not in these sets, and
\* skip the backends of what is not reached.)
NamesClosed ==
  outcome = "built" =>
    /\ state.listeners = {l \in Listener : \E i \in DOMAIN group : ServedBy(i, l)}
    /\ state.backendSets = {b \in BackendSet : \E i \in DOMAIN group : BackedBy(i, b)} \cup {DefaultIngress}
    /\ \A l \in state.listeners :
         /\ state.listenerDefaultBs[l] \in state.listenerBackendSets[l]
         /\ state.listenerBackendSets[l] \subseteq state.backendSets
         /\ \A i \in DOMAIN group : \A n \in DOMAIN group[i].paths :
              group[i].paths[n].listener = l => group[i].paths[n].backendSet \in state.listenerBackendSets[l]
=============================================================================
