-------------------------- MODULE StateBuild_proofs --------------------------
(***************************************************************************)
(* Proofs about StateBuild, for any number of Ingresses and of paths and   *)
(* any settings.                                                           *)
(*                                                                         *)
(* An invariant of the loop says what the entries are in terms of the      *)
(* paths merged so far, in both directions: every merged path finds its    *)
(* settings in the entries (so that nothing gives way), and every entry is *)
(* some merged path's (so that a conflict with an entry is one with an     *)
(* Ingress).                                                               *)
(***************************************************************************)
EXTENDS StateBuild, FiniteSetTheorems, TLAPS

-----------------------------------------------------------------------------
(* The inductive invariant.                                                  *)

PathOf(i, n) == group[i].paths[n]

\* The paths that are merged.
Merged(i, n) ==
  /\ i \in DOMAIN group /\ n \in DOMAIN group[i].paths
  /\ i < at \/ (i = at /\ n <= path)

Fields == {"listeners", "backendSets", "listenerProtocol", "listenerDefaultBs", "listenerIdleTimeout",
           "listenerBackendSets", "listenerTLS", "listenerTLSPolicy", "bsHealthChecker", "bsPolicy",
           "bsPersistence", "bsTLSStatus", "bsTLS", "bsTLSPolicy"}

\* The state has its maps.
MapsInv ==
  /\ DOMAIN state = Fields
  /\ DOMAIN state.listenerProtocol = Listener /\ DOMAIN state.listenerDefaultBs = Listener
  /\ DOMAIN state.listenerIdleTimeout = Listener /\ DOMAIN state.listenerBackendSets = Listener
  /\ DOMAIN state.listenerTLS = Listener
  /\ DOMAIN state.bsHealthChecker = AllBackendSets /\ DOMAIN state.bsPolicy = AllBackendSets
  /\ DOMAIN state.bsPersistence = BackendSet /\ DOMAIN state.bsTLSStatus = BackendSet
  /\ DOMAIN state.bsTLS = BackendSet

\* A merged path finds its settings in the entries.
ListenerHolds(ing, p) ==
  /\ p.listener \in state.listeners
  /\ state.listenerProtocol[p.listener] = ing.protocol
  /\ state.listenerDefaultBs[p.listener] = DefaultBsOf(ing, p)
  /\ ing.idleTimeout \in {Unset, state.listenerIdleTimeout[p.listener]}
  /\ Reached(ing, p) \subseteq state.listenerBackendSets[p.listener]
  /\ ListenerArtifacts(ing, p) \subseteq state.listenerTLS[p.listener]

BackendSetHolds(ing, p) ==
  /\ p.backendSet \in state.backendSets
  /\ state.bsPolicy[p.backendSet] = PolicyOf(ing)
  /\ state.bsTLSStatus[p.backendSet] # Unset
  /\ state.bsTLSStatus[p.backendSet].enabled = ing.backendTLS
  /\ ing.backendTLS => ArtifactOf(ing, p) \in {Unset, state.bsTLSStatus[p.backendSet].artifact}

HoldsInv ==
  \A i \in DOMAIN group : \A n \in DOMAIN group[i].paths :
    Merged(i, n) => /\ ListenerHolds(group[i], PathOf(i, n)) /\ BackendSetHolds(group[i], PathOf(i, n))
                    /\ group[i].persistence # Invalid

\* An entry is a merged path's.
ListenerSourced(l) ==
  /\ l \in state.listeners =>
       \E i \in DOMAIN group : \E n \in DOMAIN group[i].paths :
         Merged(i, n) /\ PathOf(i, n).listener = l
  /\ l \notin state.listeners =>
       state.listenerProtocol[l] = Unset /\ state.listenerDefaultBs[l] = Unset
  /\ state.listenerIdleTimeout[l] # Unset =>
       \E i \in DOMAIN group : \E n \in DOMAIN group[i].paths :
         /\ Merged(i, n) /\ PathOf(i, n).listener = l
         /\ group[i].idleTimeout = state.listenerIdleTimeout[l]

BackendSetSourced(b) ==
  /\ b \in state.backendSets =>
       \E i \in DOMAIN group : \E n \in DOMAIN group[i].paths :
         Merged(i, n) /\ PathOf(i, n).backendSet = b
  /\ b \notin state.backendSets => state.bsPolicy[b] = Unset /\ state.bsTLSStatus[b] = Unset
  /\ state.bsHealthChecker[b] # Unset =>
       \E i \in DOMAIN group : \E n \in DOMAIN group[i].paths :
         /\ Merged(i, n) /\ PathOf(i, n).backendSet = b
         /\ CheckerOf(group[i]) = state.bsHealthChecker[b]
  /\ state.bsTLSStatus[b] # Unset /\ state.bsTLSStatus[b].artifact # Unset =>
       \E i \in DOMAIN group : \E n \in DOMAIN group[i].paths :
         /\ Merged(i, n) /\ PathOf(i, n).backendSet = b
         /\ ArtifactOf(group[i], PathOf(i, n)) = state.bsTLSStatus[b].artifact

SourcedInv ==
  /\ \A l \in Listener : ListenerSourced(l)
  /\ \A b \in BackendSet : BackendSetSourced(b)

\* The backend set's own TLS is what its status says.
TLSInv ==
  \A b \in BackendSet :
    state.bsTLS[b] = IF state.bsTLSStatus[b] # Unset /\ state.bsTLSStatus[b].enabled
                       THEN state.bsTLSStatus[b].artifact ELSE Unset

\* A listener reaches nothing else than backend sets that are merged.
ReachInv == \A l \in Listener : state.listenerBackendSets[l] \subseteq state.backendSets

\* The health checker of default_ingress is its owner's.
OwnerInv ==
  outcome \in {"building", "built"} =>
    /\ \A i \in DOMAIN group : i <= at /\ group[i].defaultHealthChecker # Unset => i = owner
    /\ owner # 0 => /\ group[owner].defaultHealthChecker # Unset
                    /\ state.bsHealthChecker[DefaultIngress] = group[owner].defaultHealthChecker

\* The Ingresses merged so far that ask for a cookie, and those of them that decide.
Asking(b) == {i \in DOMAIN group :
                /\ group[i].persistence # Unset
                /\ \E n \in DOMAIN group[i].paths : Merged(i, n) /\ PathOf(i, n).backendSet = b}
LbAsking(b) == {i \in Asking(b) : group[i].persistence.kind = "lb"}
Voters(b)   == IF LbAsking(b) # {} THEN LbAsking(b) ELSE Asking(b)

CookieInv ==
  \A b \in BackendSet :
    IF Voters(b) = {} THEN state.bsPersistence[b] = Unset
    ELSE \E i \in Voters(b) : (\A j \in Voters(b) : i <= j) /\ state.bsPersistence[b] = group[i].persistence

\* At the end all paths are merged, and the policies are those of the candidates.
BuiltInv ==
  outcome = "built" =>
    /\ at = Len(group) /\ (at > 0 => path = Len(group[at].paths))
    /\ \A l \in Listener : /\ Mergeable(ListenerCandidates(l))
                           /\ state.listenerTLSPolicy[l] = MergedPolicy(ListenerCandidates(l))
    /\ \A b \in BackendSet : /\ Mergeable(BackendSetCandidates(b))
                             /\ state.bsTLSPolicy[b] = MergedPolicy(BackendSetCandidates(b))

IInv ==
  /\ group \in Group /\ TypeOK /\ MapsInv
  /\ HoldsInv /\ SourcedInv /\ TLSInv /\ ReachInv /\ OwnerInv /\ CookieInv /\ BuiltInv
  /\ RefusedForAReason

-----------------------------------------------------------------------------
(* Facts about the operators.                                                *)

LEMMA GroupFacts ==
  ASSUME group \in Group
  PROVE  /\ Len(group) \in Nat /\ DOMAIN group = 1..Len(group)
         /\ \A i \in DOMAIN group :
              /\ Len(group[i].paths) \in Nat /\ DOMAIN group[i].paths = 1..Len(group[i].paths)
              /\ group[i].protocol # Unset /\ group[i].backendTLS \in BOOLEAN
              /\ CheckerOf(group[i]) # Unset /\ PolicyOf(group[i]) # Unset
              /\ \A n \in DOMAIN group[i].paths :
                   /\ PathOf(i, n).listener \in Listener /\ PathOf(i, n).backendSet \in BackendSet
                   /\ DefaultBsOf(group[i], PathOf(i, n)) # Unset
                   /\ DefaultBsOf(group[i], PathOf(i, n)) \in {PathOf(i, n).backendSet, DefaultIngress}
                   /\ Unset \notin ListenerArtifacts(group[i], PathOf(i, n))
                   /\ \A enabled \in BOOLEAN :
                        /\ [enabled |-> enabled, artifact |-> ArtifactOf(group[i], PathOf(i, n))] # Unset
<1>1. /\ Len(group) \in Nat /\ DOMAIN group = 1..Len(group)
      /\ \A i \in DOMAIN group :
           /\ Len(group[i].paths) \in Nat /\ DOMAIN group[i].paths = 1..Len(group[i].paths)
           /\ group[i].protocol # Unset /\ group[i].backendTLS \in BOOLEAN
           /\ \A n \in DOMAIN group[i].certificates : group[i].certificates[n] # Unset
  BY GroupAssumption
<1>2. \A i \in DOMAIN group : \A n \in DOMAIN group[i].paths :
        PathOf(i, n).listener \in Listener /\ PathOf(i, n).backendSet \in BackendSet
  BY StateAssumption DEF PathOf
<1>3. \A i \in DOMAIN group : CheckerOf(group[i]) # Unset /\ PolicyOf(group[i]) # Unset
  BY StateAssumption DEF CheckerOf, PolicyOf
<1>4. \A i \in DOMAIN group : \A n \in DOMAIN group[i].paths :
        /\ DefaultBsOf(group[i], PathOf(i, n)) # Unset
        /\ DefaultBsOf(group[i], PathOf(i, n)) \in {PathOf(i, n).backendSet, DefaultIngress}
  BY <1>2, StateAssumption DEF DefaultBsOf
<1>5. \A i \in DOMAIN group : \A n \in DOMAIN group[i].paths : Unset \notin ListenerArtifacts(group[i], PathOf(i, n))
  <2>1. \A i \in DOMAIN group : \A m \in DOMAIN CertificatesOf(group[i]) : CertificatesOf(group[i])[m] # Unset
    BY <1>1 DEF CertificatesOf
  <2> QED BY <2>1 DEF ListenerArtifacts
<1>6. \A i \in DOMAIN group : \A n \in DOMAIN group[i].paths : \A enabled \in BOOLEAN :
        [enabled |-> enabled, artifact |-> ArtifactOf(group[i], PathOf(i, n))] # Unset
  BY StatusAssumption DEF PathOf
<1> QED BY <1>1, <1>2, <1>3, <1>4, <1>5, <1>6

\* The merge of the next path of the Ingress, when nothing is in its way.
Merging(ing, p) ==
  /\ outcome = "building" /\ at \in DOMAIN group /\ path + 1 \in DOMAIN group[at].paths
  /\ ing = group[at] /\ p = PathOf(at, path + 1)
  /\ ~Conflict(ing, p)
  /\ path' = path + 1 /\ state' = Merge(ing, p)
  /\ UNCHANGED <<group, at, owner, outcome>>

LEMMA PathFacts ==
  ASSUME IInv, NEW ing, NEW p, Merging(ing, p)
  PROVE  /\ p.listener \in Listener /\ p.backendSet \in BackendSet /\ p.backendSet # DefaultIngress
         /\ ing.protocol # Unset /\ CheckerOf(ing) # Unset /\ PolicyOf(ing) # Unset
         /\ ing.backendTLS \in BOOLEAN
         /\ DefaultBsOf(ing, p) # Unset /\ DefaultBsOf(ing, p) \in {p.backendSet, DefaultIngress}
         /\ Unset \notin ListenerArtifacts(ing, p)
         /\ \A enabled \in BOOLEAN : [enabled |-> enabled, artifact |-> ArtifactOf(ing, p)] # Unset
BY GroupFacts, StateAssumption DEF IInv, Merging

\* One more path is merged then.
LEMMA MergedGrows ==
  ASSUME IInv, NEW ing, NEW p, Merging(ing, p)
  PROVE  \A i \in DOMAIN group : \A n \in DOMAIN group[i].paths :
           Merged(i, n)' <=> Merged(i, n) \/ (i = at /\ n = path + 1)
<1>1. /\ group' = group /\ at' = at /\ path' = path + 1 /\ at \in Nat /\ path \in Nat
      /\ DOMAIN group \subseteq Nat /\ \A i \in DOMAIN group : DOMAIN group[i].paths \subseteq Nat
  BY GroupFacts DEF Merging, IInv, TypeOK
<1> QED BY <1>1 DEF Merged

\* What a merge leaves in each map.
LEMMA MergeFacts ==
  ASSUME MapsInv, NEW ing, NEW p, p.listener \in Listener, p.backendSet \in BackendSet, state' = Merge(ing, p)
  PROVE  /\ MapsInv'
         /\ state'.listeners = state.listeners \cup {p.listener}
         /\ state'.backendSets = state.backendSets \cup {p.backendSet}
         /\ \A l \in Listener :
              IF l = p.listener
                THEN /\ state'.listenerProtocol[l] = ing.protocol
                     /\ state'.listenerDefaultBs[l] = DefaultBsOf(ing, p)
                     /\ state'.listenerIdleTimeout[l] = Kept(ing.idleTimeout, state.listenerIdleTimeout[l])
                     /\ state'.listenerBackendSets[l] = state.listenerBackendSets[l] \cup Reached(ing, p)
                     /\ state'.listenerTLS[l] = state.listenerTLS[l] \cup ListenerArtifacts(ing, p)
                ELSE /\ state'.listenerProtocol[l] = state.listenerProtocol[l]
                     /\ state'.listenerDefaultBs[l] = state.listenerDefaultBs[l]
                     /\ state'.listenerIdleTimeout[l] = state.listenerIdleTimeout[l]
                     /\ state'.listenerBackendSets[l] = state.listenerBackendSets[l]
                     /\ state'.listenerTLS[l] = state.listenerTLS[l]
         /\ \A b \in AllBackendSets :
              IF b = p.backendSet
                THEN /\ state'.bsHealthChecker[b] = CheckerOf(ing)
                     /\ state'.bsPolicy[b] = PolicyOf(ing)
                     /\ state'.bsPersistence[b] = Persistence(state.bsPersistence[b], ing.persistence)
                     /\ state'.bsTLSStatus[b] = TLSStatus(state.bsTLSStatus[b], ing, p)
                     /\ state'.bsTLS[b] = BackendTLS(state.bsTLS[b], ing, p)
                ELSE /\ state'.bsHealthChecker[b] = state.bsHealthChecker[b]
                     /\ state'.bsPolicy[b] = state.bsPolicy[b]
                     /\ b \in BackendSet => /\ state'.bsPersistence[b] = state.bsPersistence[b]
                                            /\ state'.bsTLSStatus[b] = state.bsTLSStatus[b]
                                            /\ state'.bsTLS[b] = state.bsTLS[b]
<1>1. DOMAIN state = Fields
  BY DEF MapsInv
<1>2. /\ DOMAIN state' = Fields
      /\ state'.listeners = state.listeners \cup {p.listener}
      /\ state'.backendSets = state.backendSets \cup {p.backendSet}
  BY <1>1 DEF Fields, Merge
<1>3. /\ state'.listenerProtocol = [state.listenerProtocol EXCEPT ![p.listener] = ing.protocol]
      /\ state'.listenerDefaultBs = [state.listenerDefaultBs EXCEPT ![p.listener] = DefaultBsOf(ing, p)]
      /\ state'.listenerIdleTimeout =
           [state.listenerIdleTimeout EXCEPT
              ![p.listener] = Kept(ing.idleTimeout, state.listenerIdleTimeout[p.listener])]
  BY <1>1 DEF Fields, Merge
<1>4. /\ state'.listenerBackendSets =
           [state.listenerBackendSets EXCEPT
              ![p.listener] = state.listenerBackendSets[p.listener] \cup Reached(ing, p)]
      /\ state'.listenerTLS =
           [state.listenerTLS EXCEPT ![p.listener] = state.listenerTLS[p.listener] \cup ListenerArtifacts(ing, p)]
  BY <1>1 DEF Fields, Merge
<1>5. /\ state'.bsHealthChecker = [state.bsHealthChecker EXCEPT ![p.backendSet] = CheckerOf(ing)]
      /\ state'.bsPolicy = [state.bsPolicy EXCEPT ![p.backendSet] = PolicyOf(ing)]
  BY <1>1 DEF Fields, Merge
<1>6. /\ state'.bsPersistence =
           [state.bsPersistence EXCEPT
              ![p.backendSet] = Persistence(state.bsPersistence[p.backendSet], ing.persistence)]
      /\ state'.bsTLSStatus =
           [state.bsTLSStatus EXCEPT ![p.backendSet] = TLSStatus(state.bsTLSStatus[p.backendSet], ing, p)]
      /\ state'.bsTLS =
           [state.bsTLS EXCEPT ![p.backendSet] = BackendTLS(state.bsTLS[p.backendSet], ing, p)]
  <2>1. state'.bsPersistence =
          [state.bsPersistence EXCEPT
             ![p.backendSet] = Persistence(state.bsPersistence[p.backendSet], ing.persistence)]
    BY <1>1 DEF Fields, Merge
  <2>2. state'.bsTLSStatus =
          [state.bsTLSStatus EXCEPT ![p.backendSet] = TLSStatus(state.bsTLSStatus[p.backendSet], ing, p)]
    BY <1>1 DEF Fields, Merge
  <2>3. state'.bsTLS = [state.bsTLS EXCEPT ![p.backendSet] = BackendTLS(state.bsTLS[p.backendSet], ing, p)]
    BY <1>1 DEF Fields, Merge
  <2> QED BY <2>1, <2>2, <2>3
<1>7. MapsInv'
  BY <1>2, <1>3, <1>4, <1>5, <1>6 DEF MapsInv
<1>8. p.backendSet \in AllBackendSets
  BY DEF AllBackendSets
<1>9. /\ DOMAIN state.listenerProtocol = Listener /\ DOMAIN state.listenerDefaultBs = Listener
      /\ DOMAIN state.listenerIdleTimeout = Listener /\ DOMAIN state.listenerBackendSets = Listener
      /\ DOMAIN state.listenerTLS = Listener
      /\ DOMAIN state.bsHealthChecker = AllBackendSets /\ DOMAIN state.bsPolicy = AllBackendSets
      /\ DOMAIN state.bsPersistence = BackendSet /\ DOMAIN state.bsTLSStatus = BackendSet
      /\ DOMAIN state.bsTLS = BackendSet
  BY DEF MapsInv
<1>10. \A l \in Listener :
         IF l = p.listener
           THEN /\ state'.listenerProtocol[l] = ing.protocol
                /\ state'.listenerDefaultBs[l] = DefaultBsOf(ing, p)
                /\ state'.listenerIdleTimeout[l] = Kept(ing.idleTimeout, state.listenerIdleTimeout[l])
                /\ state'.listenerBackendSets[l] = state.listenerBackendSets[l] \cup Reached(ing, p)
                /\ state'.listenerTLS[l] = state.listenerTLS[l] \cup ListenerArtifacts(ing, p)
           ELSE /\ state'.listenerProtocol[l] = state.listenerProtocol[l]
                /\ state'.listenerDefaultBs[l] = state.listenerDefaultBs[l]
                /\ state'.listenerIdleTimeout[l] = state.listenerIdleTimeout[l]
                /\ state'.listenerBackendSets[l] = state.listenerBackendSets[l]
                /\ state'.listenerTLS[l] = state.listenerTLS[l]
  BY <1>3, <1>4, <1>9
<1>11. \A b \in AllBackendSets :
         IF b = p.backendSet
           THEN /\ state'.bsHealthChecker[b] = CheckerOf(ing)
                /\ state'.bsPolicy[b] = PolicyOf(ing)
                /\ state'.bsPersistence[b] = Persistence(state.bsPersistence[b], ing.persistence)
                /\ state'.bsTLSStatus[b] = TLSStatus(state.bsTLSStatus[b], ing, p)
                /\ state'.bsTLS[b] = BackendTLS(state.bsTLS[b], ing, p)
           ELSE /\ state'.bsHealthChecker[b] = state.bsHealthChecker[b]
                /\ state'.bsPolicy[b] = state.bsPolicy[b]
                /\ b \in BackendSet => /\ state'.bsPersistence[b] = state.bsPersistence[b]
                                       /\ state'.bsTLSStatus[b] = state.bsTLSStatus[b]
                                       /\ state'.bsTLS[b] = state.bsTLS[b]
  BY <1>5, <1>6, <1>8, <1>9
<1> QED BY <1>2, <1>7, <1>10, <1>11

-----------------------------------------------------------------------------
(* The merge of a path.                                                      *)

\* Nothing is in the way: every entry that is there is what the Ingress declares.
LEMMA NoConflict ==
  ASSUME IInv, NEW ing, NEW p, Merging(ing, p)
  PROVE  /\ ing.persistence # Invalid
         /\ state.listenerProtocol[p.listener] \in {Unset, ing.protocol}
         /\ state.listenerDefaultBs[p.listener] \in {Unset, DefaultBsOf(ing, p)}
         /\ ing.idleTimeout # Unset => state.listenerIdleTimeout[p.listener] \in {Unset, ing.idleTimeout}
         /\ state.bsPolicy[p.backendSet] \in {Unset, PolicyOf(ing)}
         /\ state.bsTLSStatus[p.backendSet] # Unset =>
              /\ state.bsTLSStatus[p.backendSet].enabled = ing.backendTLS
              /\ ing.backendTLS => \/ state.bsTLSStatus[p.backendSet].artifact = Unset
                                   \/ ArtifactOf(ing, p) \in {Unset, state.bsTLSStatus[p.backendSet].artifact}
BY DEF Merging, Conflict, ProtocolConflict, DefaultBsConflict, IdleTimeoutConflict, PolicyConflict, TLSConflict

\* The TLS status that is left: an artifact is kept, and one is taken when there is none.
LEMMA StatusFacts ==
  ASSUME IInv, NEW ing, NEW p, Merging(ing, p)
  PROVE  LET before == state.bsTLSStatus[p.backendSet]
             after  == state'.bsTLSStatus[p.backendSet]
         IN  /\ after # Unset /\ after.enabled = ing.backendTLS
             /\ before # Unset =>
                  after.artifact = IF before.artifact = Unset THEN ArtifactOf(ing, p) ELSE before.artifact
             /\ before = Unset => after.artifact = ArtifactOf(ing, p)
<1> DEFINE before == state.bsTLSStatus[p.backendSet]
           after  == state'.bsTLSStatus[p.backendSet]
<1>1. /\ p.listener \in Listener /\ p.backendSet \in BackendSet /\ ing.backendTLS \in BOOLEAN
      /\ \A enabled \in BOOLEAN : [enabled |-> enabled, artifact |-> ArtifactOf(ing, p)] # Unset
  BY PathFacts
<1>2. after = TLSStatus(before, ing, p)
  BY <1>1, MergeFacts DEF Merging, IInv, AllBackendSets
<1>3. before # Unset => before.enabled = ing.backendTLS
  BY NoConflict
<1> HIDE DEF before, after
<1>4. CASE before = Unset
  <2>1. after = [enabled |-> ing.backendTLS, artifact |-> ArtifactOf(ing, p)]
    BY <1>2, <1>4 DEF TLSStatus
  <2> QED BY <1>1, <1>4, <2>1 DEF before, after
<1>5. CASE before # Unset /\ before.artifact = Unset
  <2>1. after = [enabled |-> ing.backendTLS, artifact |-> ArtifactOf(ing, p)]
    BY <1>2, <1>3, <1>5 DEF TLSStatus
  <2> QED BY <1>1, <1>5, <2>1 DEF before, after
<1>6. CASE before # Unset /\ before.artifact # Unset
  <2>1. after = before
    BY <1>2, <1>6 DEF TLSStatus
  <2> QED BY <1>3, <1>6, <2>1 DEF before, after
<1> QED BY <1>4, <1>5, <1>6

LEMMA MergeTyped ==
  ASSUME IInv, NEW ing, NEW p, Merging(ing, p)
  PROVE  TypeOK' /\ MapsInv' /\ (group \in Group)'
<1>1. TypeOK /\ MapsInv /\ group \in Group
  BY DEF IInv
<1>2. /\ p.listener \in Listener /\ p.backendSet \in BackendSet /\ p.backendSet # DefaultIngress
      /\ ing.protocol # Unset /\ CheckerOf(ing) # Unset
      /\ DefaultBsOf(ing, p) # Unset /\ Unset \notin ListenerArtifacts(ing, p)
  BY PathFacts
<1>3. /\ MapsInv' /\ state'.listeners = state.listeners \cup {p.listener}
      /\ state'.backendSets = state.backendSets \cup {p.backendSet}
      /\ \A l \in Listener :
           IF l = p.listener
             THEN /\ state'.listenerProtocol[l] = ing.protocol
                  /\ state'.listenerBackendSets[l] = state.listenerBackendSets[l] \cup Reached(ing, p)
                  /\ state'.listenerTLS[l] = state.listenerTLS[l] \cup ListenerArtifacts(ing, p)
             ELSE /\ state'.listenerProtocol[l] = state.listenerProtocol[l]
                  /\ state'.listenerBackendSets[l] = state.listenerBackendSets[l]
                  /\ state'.listenerTLS[l] = state.listenerTLS[l]
      /\ \A b \in AllBackendSets :
           IF b = p.backendSet THEN state'.bsHealthChecker[b] = CheckerOf(ing)
                               ELSE state'.bsHealthChecker[b] = state.bsHealthChecker[b]
  BY <1>1, <1>2, MergeFacts DEF Merging
<1>4. DOMAIN state' = DOMAIN Empty
  BY <1>1, <1>3 DEF MapsInv, TypeOK
<1>5. Unset \notin Reached(ing, p)
  BY <1>2, StateAssumption DEF Reached
<1>6. \A l \in Listener : /\ Unset \notin state'.listenerTLS[l] \cup state'.listenerBackendSets[l]
                          /\ state'.listenerProtocol[l] = Unset <=> l \notin state'.listeners
  BY <1>1, <1>2, <1>3, <1>5 DEF TypeOK
<1>7. \A b \in BackendSet : state'.bsHealthChecker[b] = Unset <=> b \notin state'.backendSets
  BY <1>1, <1>2, <1>3 DEF TypeOK, AllBackendSets
<1>8. at > 0 /\ path + 1 <= Len(group[at].paths) /\ path \in Nat
  BY <1>1, GroupFacts DEF Merging, TypeOK
<1>9. DefaultIngress \in state'.backendSets /\ state'.backendSets \subseteq AllBackendSets
      /\ state'.listeners \subseteq Listener
  BY <1>1, <1>2, <1>3 DEF TypeOK, AllBackendSets
<1>10. UNCHANGED <<group, at, owner, outcome>> /\ path' = path + 1
  BY DEF Merging
<1> QED BY <1>1, <1>3, <1>4, <1>6, <1>7, <1>8, <1>9, <1>10 DEF TypeOK, Now

\* What held for a merged path holds after another has been merged.
LEMMA ListenerKeeps ==
  ASSUME IInv, NEW ing, NEW p, Merging(ing, p), NEW ing1, NEW p1, p1.listener \in Listener,
         ing1.protocol # Unset, DefaultBsOf(ing1, p1) # Unset, ListenerHolds(ing1, p1)
  PROVE  ListenerHolds(ing1, p1)'
<1>1. /\ state'.listeners = state.listeners \cup {p.listener}
      /\ \A l \in Listener :
           IF l = p.listener
             THEN /\ state'.listenerProtocol[l] = ing.protocol
                  /\ state'.listenerDefaultBs[l] = DefaultBsOf(ing, p)
                  /\ state'.listenerIdleTimeout[l] = Kept(ing.idleTimeout, state.listenerIdleTimeout[l])
                  /\ state'.listenerBackendSets[l] = state.listenerBackendSets[l] \cup Reached(ing, p)
                  /\ state'.listenerTLS[l] = state.listenerTLS[l] \cup ListenerArtifacts(ing, p)
             ELSE /\ state'.listenerProtocol[l] = state.listenerProtocol[l]
                  /\ state'.listenerDefaultBs[l] = state.listenerDefaultBs[l]
                  /\ state'.listenerIdleTimeout[l] = state.listenerIdleTimeout[l]
                  /\ state'.listenerBackendSets[l] = state.listenerBackendSets[l]
                  /\ state'.listenerTLS[l] = state.listenerTLS[l]
  BY PathFacts, MergeFacts DEF Merging, IInv
<1>2. CASE p1.listener # p.listener
  BY <1>1, <1>2 DEF ListenerHolds
<1>3. CASE p1.listener = p.listener
  <2>1. /\ ing1.protocol = ing.protocol /\ DefaultBsOf(ing1, p1) = DefaultBsOf(ing, p)
        /\ ing1.idleTimeout \in {Unset, Kept(ing.idleTimeout, state.listenerIdleTimeout[p.listener])}
    BY <1>3, NoConflict DEF ListenerHolds, Kept
  <2> QED BY <1>1, <1>3, <2>1 DEF ListenerHolds
<1> QED BY <1>2, <1>3

LEMMA BackendSetKeeps ==
  ASSUME IInv, NEW ing, NEW p, Merging(ing, p), NEW ing1, NEW p1, p1.backendSet \in BackendSet,
         PolicyOf(ing1) # Unset, BackendSetHolds(ing1, p1)
  PROVE  BackendSetHolds(ing1, p1)'
<1>1. /\ state'.backendSets = state.backendSets \cup {p.backendSet}
      /\ \A b \in AllBackendSets :
           IF b = p.backendSet
             THEN state'.bsPolicy[b] = PolicyOf(ing)
             ELSE /\ state'.bsPolicy[b] = state.bsPolicy[b]
                  /\ b \in BackendSet => state'.bsTLSStatus[b] = state.bsTLSStatus[b]
  BY PathFacts, MergeFacts DEF Merging, IInv
<1>2. p1.backendSet \in AllBackendSets
  BY DEF AllBackendSets
<1>3. CASE p1.backendSet # p.backendSet
  BY <1>1, <1>2, <1>3 DEF BackendSetHolds
<1>4. CASE p1.backendSet = p.backendSet
  <2> DEFINE before == state.bsTLSStatus[p.backendSet]
             after  == state'.bsTLSStatus[p.backendSet]
  <2>1. /\ after # Unset /\ after.enabled = ing.backendTLS
        /\ before # Unset =>
             after.artifact = IF before.artifact = Unset THEN ArtifactOf(ing, p) ELSE before.artifact
    BY StatusFacts
  <2>2. /\ before # Unset /\ before.enabled = ing1.backendTLS /\ before.enabled = ing.backendTLS
        /\ ing1.backendTLS => ArtifactOf(ing1, p1) \in {Unset, before.artifact}
    BY <1>4, NoConflict DEF BackendSetHolds
  <2>3. PolicyOf(ing1) = PolicyOf(ing) /\ p1.backendSet \in state.backendSets
    BY <1>4, NoConflict DEF BackendSetHolds
  <2>4. ing1.backendTLS => ArtifactOf(ing1, p1) \in {Unset, after.artifact}
    BY <2>1, <2>2
  <2> HIDE DEF before, after
  <2> QED BY <1>1, <1>2, <1>4, <2>1, <2>2, <2>3, <2>4 DEF BackendSetHolds, after
<1> QED BY <1>3, <1>4

\* It holds for the path that has been merged, too.
LEMMA MergeHolds == ASSUME IInv, NEW ing, NEW p, Merging(ing, p) PROVE HoldsInv'
<1>1. ListenerHolds(ing, p)'
  <2>1. /\ p.listener \in state'.listeners
        /\ state'.listenerProtocol[p.listener] = ing.protocol
        /\ state'.listenerDefaultBs[p.listener] = DefaultBsOf(ing, p)
        /\ state'.listenerIdleTimeout[p.listener] = Kept(ing.idleTimeout, state.listenerIdleTimeout[p.listener])
        /\ Reached(ing, p) \subseteq state'.listenerBackendSets[p.listener]
        /\ ListenerArtifacts(ing, p) \subseteq state'.listenerTLS[p.listener]
    BY PathFacts, MergeFacts DEF Merging, IInv
  <2> QED BY <2>1 DEF ListenerHolds, Kept
<1>2. BackendSetHolds(ing, p)'
  <2>1. /\ p.backendSet \in state'.backendSets
        /\ state'.bsPolicy[p.backendSet] = PolicyOf(ing)
    BY PathFacts, MergeFacts DEF Merging, IInv, AllBackendSets
  <2> DEFINE before == state.bsTLSStatus[p.backendSet]
             after  == state'.bsTLSStatus[p.backendSet]
  <2>2. /\ after # Unset /\ after.enabled = ing.backendTLS
        /\ before # Unset =>
             after.artifact = IF before.artifact = Unset THEN ArtifactOf(ing, p) ELSE before.artifact
        /\ before = Unset => after.artifact = ArtifactOf(ing, p)
    BY StatusFacts
  <2>3. before # Unset /\ ing.backendTLS => before.artifact = Unset \/ ArtifactOf(ing, p) \in {Unset, before.artifact}
    BY NoConflict
  <2>4. ing.backendTLS => ArtifactOf(ing, p) \in {Unset, after.artifact}
    BY <2>2, <2>3
  <2> HIDE DEF before, after
  <2> QED BY <2>1, <2>2, <2>4 DEF BackendSetHolds, after
<1>3. group' = group /\ ing = group[at] /\ p = PathOf(at, path + 1) /\ ing.persistence # Invalid
  BY NoConflict DEF Merging
<1>4. ASSUME NEW i \in DOMAIN group, NEW n \in DOMAIN group[i].paths, Merged(i, n)'
      PROVE  /\ ListenerHolds(group[i], PathOf(i, n))' /\ BackendSetHolds(group[i], PathOf(i, n))'
             /\ group'[i].persistence # Invalid
  <2>1. PICK ing1, p1 : ing1 = group[i] /\ p1 = PathOf(i, n)
    OBVIOUS
  <2>2. PathOf(i, n)' = p1 /\ group'[i] = ing1
    BY <1>3, <2>1 DEF PathOf
  <2>3. CASE i = at /\ n = path + 1
    BY <1>1, <1>2, <1>3, <2>1, <2>2, <2>3
  <2>4. CASE Merged(i, n)
    <3>1. ListenerHolds(ing1, p1) /\ BackendSetHolds(ing1, p1) /\ ing1.persistence # Invalid
      BY <2>1, <2>4 DEF IInv, HoldsInv
    <3>2. /\ p1.listener \in Listener /\ p1.backendSet \in BackendSet /\ ing1.protocol # Unset
          /\ DefaultBsOf(ing1, p1) # Unset /\ PolicyOf(ing1) # Unset
      BY <2>1, GroupFacts DEF IInv
    <3>3. ListenerHolds(ing1, p1)' /\ BackendSetHolds(ing1, p1)'
      BY <3>1, <3>2, ListenerKeeps, BackendSetKeeps
    <3> QED BY <2>2, <3>1, <3>3
  <2> QED BY <1>4, <2>3, <2>4, MergedGrows
<1> QED BY <1>3, <1>4 DEF HoldsInv

\* The entries of the listener are those of a merged path.
LEMMA MergeListenerSourced ==
  ASSUME IInv, NEW ing, NEW p, Merging(ing, p), NEW l \in Listener
  PROVE  ListenerSourced(l)'
<1>1. /\ p.listener \in Listener /\ p.backendSet \in BackendSet
      /\ group' = group /\ ing = group[at] /\ p = PathOf(at, path + 1)
      /\ at \in DOMAIN group /\ path + 1 \in DOMAIN group[at].paths
      /\ ListenerSourced(l)
  BY PathFacts DEF Merging, IInv, SourcedInv
<1>2. \A i \in DOMAIN group : \A n \in DOMAIN group[i].paths :
        /\ Merged(i, n)' <=> Merged(i, n) \/ (i = at /\ n = path + 1)
        /\ PathOf(i, n)' = PathOf(i, n)
  BY <1>1, MergedGrows DEF PathOf
<1>3. /\ state'.listeners = state.listeners \cup {p.listener}
      /\ IF l = p.listener
           THEN state'.listenerIdleTimeout[l] = Kept(ing.idleTimeout, state.listenerIdleTimeout[l])
           ELSE /\ state'.listenerProtocol[l] = state.listenerProtocol[l]
                /\ state'.listenerDefaultBs[l] = state.listenerDefaultBs[l]
                /\ state'.listenerIdleTimeout[l] = state.listenerIdleTimeout[l]
  BY <1>1, MergeFacts DEF Merging, IInv
<1>4. l \in state'.listeners =>
        \E i \in DOMAIN group : \E n \in DOMAIN group[i].paths :
          Merged(i, n)' /\ PathOf(i, n)'.listener = l
  BY <1>1, <1>2, <1>3 DEF ListenerSourced
<1>5. l \notin state'.listeners =>
        state'.listenerProtocol[l] = Unset /\ state'.listenerDefaultBs[l] = Unset
  BY <1>1, <1>3 DEF ListenerSourced
<1>6. state'.listenerIdleTimeout[l] # Unset =>
        \E i \in DOMAIN group : \E n \in DOMAIN group[i].paths :
          /\ Merged(i, n)' /\ PathOf(i, n)'.listener = l
          /\ group[i].idleTimeout = state'.listenerIdleTimeout[l]
  <2>1. CASE l = p.listener /\ ing.idleTimeout # Unset
    <3>1. state'.listenerIdleTimeout[l] = group[at].idleTimeout
      BY <1>1, <1>3, <2>1 DEF Kept
    <3> QED BY <1>1, <1>2, <2>1, <3>1
  <2>2. CASE l # p.listener \/ ing.idleTimeout = Unset
    <3>1. state'.listenerIdleTimeout[l] = state.listenerIdleTimeout[l]
      BY <1>3, <2>2 DEF Kept
    <3> QED BY <1>1, <1>2, <3>1 DEF ListenerSourced
  <2> QED BY <2>1, <2>2
<1> QED BY <1>1, <1>4, <1>5, <1>6 DEF ListenerSourced

\* So are those of the backend set.
LEMMA MergeBackendSetSourced ==
  ASSUME IInv, NEW ing, NEW p, Merging(ing, p), NEW b \in BackendSet
  PROVE  BackendSetSourced(b)'
<1>1. /\ p.listener \in Listener /\ p.backendSet \in BackendSet /\ b \in AllBackendSets
      /\ group' = group /\ ing = group[at] /\ p = PathOf(at, path + 1)
      /\ at \in DOMAIN group /\ path + 1 \in DOMAIN group[at].paths
      /\ BackendSetSourced(b)
  BY PathFacts DEF Merging, IInv, SourcedInv, AllBackendSets
<1>2. \A i \in DOMAIN group : \A n \in DOMAIN group[i].paths :
        /\ Merged(i, n)' <=> Merged(i, n) \/ (i = at /\ n = path + 1)
        /\ PathOf(i, n)' = PathOf(i, n)
  BY <1>1, MergedGrows DEF PathOf
<1>3. /\ state'.backendSets = state.backendSets \cup {p.backendSet}
      /\ IF b = p.backendSet
           THEN state'.bsHealthChecker[b] = CheckerOf(ing)
           ELSE /\ state'.bsHealthChecker[b] = state.bsHealthChecker[b]
                /\ state'.bsPolicy[b] = state.bsPolicy[b]
                /\ state'.bsTLSStatus[b] = state.bsTLSStatus[b]
  BY <1>1, MergeFacts DEF Merging, IInv
<1>4. b \in state'.backendSets =>
        \E i \in DOMAIN group : \E n \in DOMAIN group[i].paths :
          Merged(i, n)' /\ PathOf(i, n)'.backendSet = b
  BY <1>1, <1>2, <1>3 DEF BackendSetSourced
<1>5. b \notin state'.backendSets => state'.bsPolicy[b] = Unset /\ state'.bsTLSStatus[b] = Unset
  BY <1>1, <1>3 DEF BackendSetSourced
<1>6. state'.bsHealthChecker[b] # Unset =>
        \E i \in DOMAIN group : \E n \in DOMAIN group[i].paths :
          /\ Merged(i, n)' /\ PathOf(i, n)'.backendSet = b
          /\ CheckerOf(group[i]) = state'.bsHealthChecker[b]
  <2>1. CASE b = p.backendSet
    BY <1>1, <1>2, <1>3, <2>1
  <2>2. CASE b # p.backendSet
    BY <1>1, <1>2, <1>3, <2>2 DEF BackendSetSourced
  <2> QED BY <2>1, <2>2
<1>7. state'.bsTLSStatus[b] # Unset /\ state'.bsTLSStatus[b].artifact # Unset =>
        \E i \in DOMAIN group : \E n \in DOMAIN group[i].paths :
          /\ Merged(i, n)' /\ PathOf(i, n)'.backendSet = b
          /\ ArtifactOf(group[i], PathOf(i, n)') = state'.bsTLSStatus[b].artifact
  <2> DEFINE before == state.bsTLSStatus[b]
             after  == state'.bsTLSStatus[b]
  <2>1. CASE b # p.backendSet
    BY <1>1, <1>2, <1>3, <2>1 DEF BackendSetSourced
  <2>2. CASE b = p.backendSet /\ before # Unset /\ before.artifact # Unset
    <3>1. after.artifact = before.artifact
      BY <2>2, StatusFacts
    <3> QED BY <1>1, <1>2, <2>2, <3>1 DEF BackendSetSourced
  <2>3. CASE b = p.backendSet /\ (before = Unset \/ before.artifact = Unset)
    <3>1. after.artifact = ArtifactOf(ing, p)
      BY <2>3, StatusFacts
    <3>2. PICK i \in DOMAIN group : i = at
      BY <1>1
    <3>3. PICK n \in DOMAIN group[i].paths : n = path + 1
      BY <1>1, <3>2
    <3>4. Merged(i, n)' /\ PathOf(i, n)' = p /\ group[i] = ing
      BY <1>1, <1>2, <3>2, <3>3
    <3>5. ArtifactOf(group[i], PathOf(i, n)') = after.artifact
      BY <3>1, <3>4
    <3> QED BY <1>1, <2>3, <3>4, <3>5
  <2> QED BY <2>1, <2>2, <2>3
<1>8. \A i \in DOMAIN group :
        /\ CheckerOf(group[i])' = CheckerOf(group[i])
        /\ \A n \in DOMAIN group[i].paths :
             ArtifactOf(group[i], PathOf(i, n))' = ArtifactOf(group[i], PathOf(i, n)')
  BY <1>1 DEF CheckerOf, ArtifactOf, SecretOf, CertificatesOf
<1> QED BY <1>1, <1>4, <1>5, <1>6, <1>7, <1>8 DEF BackendSetSourced

\* The backend set's own TLS follows its status.
LEMMA MergeTLS == ASSUME IInv, NEW ing, NEW p, Merging(ing, p) PROVE TLSInv'
<1>1. /\ p.listener \in Listener /\ p.backendSet \in BackendSet /\ ing.backendTLS \in BOOLEAN /\ TLSInv
  BY PathFacts DEF IInv
<1>2. \A b \in BackendSet : b \in AllBackendSets
  BY DEF AllBackendSets
<1>3. \A b \in BackendSet :
        IF b = p.backendSet THEN state'.bsTLS[b] = BackendTLS(state.bsTLS[b], ing, p)
        ELSE state'.bsTLS[b] = state.bsTLS[b] /\ state'.bsTLSStatus[b] = state.bsTLSStatus[b]
  BY <1>1, <1>2, MergeFacts DEF Merging, IInv
<1>4. ASSUME NEW b \in BackendSet
      PROVE  state'.bsTLS[b] = IF state'.bsTLSStatus[b] # Unset /\ state'.bsTLSStatus[b].enabled
                                 THEN state'.bsTLSStatus[b].artifact ELSE Unset
  <2> DEFINE before == state.bsTLSStatus[b]
             after  == state'.bsTLSStatus[b]
  <2>1. CASE b # p.backendSet
    BY <1>1, <1>3, <2>1 DEF TLSInv
  <2>2. CASE b = p.backendSet
    <3>1. /\ after # Unset /\ after.enabled = ing.backendTLS
          /\ before # Unset =>
               after.artifact = IF before.artifact = Unset THEN ArtifactOf(ing, p) ELSE before.artifact
          /\ before = Unset => after.artifact = ArtifactOf(ing, p)
      BY <2>2, StatusFacts
    <3>2. before # Unset =>
            /\ before.enabled = ing.backendTLS
            /\ ing.backendTLS => before.artifact = Unset \/ ArtifactOf(ing, p) \in {Unset, before.artifact}
      BY <2>2, NoConflict
    <3>3. state.bsTLS[b] = IF before # Unset /\ before.enabled THEN before.artifact ELSE Unset
      BY <1>1 DEF TLSInv
    <3>4. state'.bsTLS[b] = IF ArtifactOf(ing, p) = Unset THEN state.bsTLS[b]
                            ELSE IF ing.backendTLS THEN ArtifactOf(ing, p) ELSE Unset
      BY <1>3, <2>2 DEF BackendTLS
    <3> HIDE DEF before, after
    <3>5. state'.bsTLS[b] = IF after # Unset /\ after.enabled THEN after.artifact ELSE Unset
      BY <1>1, <3>1, <3>2, <3>3, <3>4
    <3> QED BY <3>5 DEF after
  <2> QED BY <2>1, <2>2
<1> QED BY <1>4 DEF TLSInv

LEMMA MergeReach ==
  ASSUME IInv, NEW ing, NEW p, Merging(ing, p)
  PROVE  ReachInv' /\ OwnerInv' /\ BuiltInv' /\ RefusedForAReason'
<1>1. /\ p.listener \in Listener /\ p.backendSet \in BackendSet /\ p.backendSet # DefaultIngress
      /\ DefaultBsOf(ing, p) \in {p.backendSet, DefaultIngress}
      /\ DefaultIngress \in state.backendSets /\ DefaultIngress \in AllBackendSets
      /\ ReachInv /\ OwnerInv
      /\ UNCHANGED <<group, at, owner, outcome>> /\ outcome = "building"
  BY PathFacts DEF IInv, TypeOK, AllBackendSets, Merging
<1>2. /\ state'.backendSets = state.backendSets \cup {p.backendSet}
      /\ state'.bsHealthChecker[DefaultIngress] = state.bsHealthChecker[DefaultIngress]
      /\ \A l \in Listener :
           state'.listenerBackendSets[l] \subseteq state.listenerBackendSets[l] \cup Reached(ing, p)
  BY <1>1, MergeFacts DEF Merging, IInv
<1>3. Reached(ing, p) \subseteq state'.backendSets
  BY <1>1, <1>2 DEF Reached
<1>4. ReachInv'
  BY <1>1, <1>2, <1>3 DEF ReachInv
<1>5. OwnerInv'
  BY <1>1, <1>2 DEF OwnerInv
<1> QED BY <1>1, <1>4, <1>5 DEF BuiltInv, RefusedForAReason

\* The cookie is that of the first to decide, before as after: the Ingress at
\* hand comes after all those that have asked.
LEMMA MergeCookies == ASSUME IInv, NEW ing, NEW p, Merging(ing, p) PROVE CookieInv'
<1>1. /\ p.listener \in Listener /\ p.backendSet \in BackendSet
      /\ group' = group /\ ing = group[at] /\ p = PathOf(at, path + 1)
      /\ at \in DOMAIN group /\ path + 1 \in DOMAIN group[at].paths
      /\ DOMAIN group \subseteq Nat /\ at \in Nat
      /\ CookieInv
  BY PathFacts, GroupFacts DEF Merging, IInv
<1>2. \A i \in DOMAIN group : \A n \in DOMAIN group[i].paths :
        /\ Merged(i, n)' <=> Merged(i, n) \/ (i = at /\ n = path + 1)
        /\ PathOf(i, n)' = PathOf(i, n)
        /\ Merged(i, n) => i <= at
  BY <1>1, MergedGrows DEF PathOf, Merged
<1>3. \A b \in BackendSet :
        state'.bsPersistence[b] =
          IF b = p.backendSet THEN Persistence(state.bsPersistence[b], ing.persistence)
          ELSE state.bsPersistence[b]
  BY <1>1, MergeFacts DEF Merging, IInv, AllBackendSets
<1>4. ASSUME NEW b \in BackendSet
      PROVE  IF Voters(b)' = {} THEN state'.bsPersistence[b] = Unset
             ELSE \E i \in Voters(b)' : /\ \A j \in Voters(b)' : i <= j
                                        /\ state'.bsPersistence[b] = group[i].persistence
  <2> DEFINE current == state.bsPersistence[b]
             after   == state'.bsPersistence[b]
             says(i) == group[i].persistence
             asks    == Asking(b)
             lbs     == LbAsking(b)
             asked   == Asking(b)'
             lbAsked == LbAsking(b)'
             own     == IF b = p.backendSet /\ ing.persistence # Unset THEN {at} ELSE {}
  <2>1. asked = asks \cup own
    BY <1>1, <1>2 DEF Asking
  <2>2. /\ lbs = {i \in asks : says(i).kind = "lb"} /\ lbAsked = {i \in asked : says(i).kind = "lb"}
    BY <1>1 DEF LbAsking
  <2>3. \A i \in asks : i \in Nat /\ i <= at /\ says(i) # Unset
    BY <1>1, <1>2 DEF Asking
  <2>4. IF lbs # {} THEN \E i \in lbs : (\A j \in lbs : i <= j) /\ current = says(i)
        ELSE IF asks # {} THEN \E i \in asks : (\A j \in asks : i <= j) /\ current = says(i)
        ELSE current = Unset
    BY <1>1 DEF CookieInv, Voters
  <2>5. after = IF b = p.backendSet THEN Persistence(current, says(at)) ELSE current
    BY <1>1, <1>3
  <2>6. own = IF b = p.backendSet /\ says(at) # Unset THEN {at} ELSE {}
    BY <1>1
  <2>7. Voters(b)' = IF lbAsked # {} THEN lbAsked ELSE asked
    BY DEF Voters
  <2> HIDE DEF current, after, says, asks, lbs, asked, lbAsked, own
  <2>8. CASE own = {}
    <3>1. after = current
      BY <2>5, <2>6, <2>8 DEF Persistence
    <3>2. asked = asks /\ lbAsked = lbs
      BY <2>1, <2>2, <2>8
    <3> QED BY <2>4, <2>7, <3>1, <3>2 DEF after, says
  <2>9. CASE own # {}
    <3>1. /\ own = {at} /\ says(at) # Unset /\ asked = asks \cup {at}
          /\ after = Persistence(current, says(at)) /\ at \in Nat
      BY <1>1, <2>1, <2>5, <2>6, <2>9
    <3>2. CASE lbs # {}
      <4>1. PICK i \in lbs : (\A j \in lbs : i <= j) /\ current = says(i)
        BY <2>4, <3>2
      <4>2. /\ i \in asks /\ i <= at /\ current # Unset /\ current.kind = "lb"
        BY <2>2, <2>3, <4>1
      <4>3. after = says(i)
        BY <3>1, <4>1, <4>2 DEF Persistence
      <4>4. i \in lbAsked /\ \A j \in lbAsked : j \in lbs \/ j = at
        BY <2>2, <3>1
      <4>5. i \in Voters(b)' /\ \A j \in Voters(b)' : i <= j
        BY <2>7, <4>1, <4>2, <4>4
      <4> QED BY <4>3, <4>5 DEF after, says
    <3>3. CASE lbs = {} /\ says(at).kind = "lb"
      <4>1. lbAsked = {at}
        BY <2>2, <3>1, <3>3
      <4>2. current = Unset \/ current.kind # "lb"
        BY <2>2, <2>4, <3>3
      <4>3. after = says(at)
        BY <3>1, <3>3, <4>2 DEF Persistence
      <4>4. Voters(b)' = {at} /\ at <= at
        BY <2>7, <3>1, <4>1
      <4> QED BY <4>3, <4>4 DEF after, says
    <3>4. CASE lbs = {} /\ says(at).kind # "lb"
      <4>1. lbAsked = {} /\ Voters(b)' = asks \cup {at}
        BY <2>2, <2>7, <3>1, <3>4
      <4>2. CASE asks = {}
        <5>1. after = says(at)
          BY <2>4, <3>1, <3>4, <4>2 DEF Persistence
        <5>2. Voters(b)' = {at} /\ at <= at
          BY <3>1, <4>1, <4>2
        <5> QED BY <5>1, <5>2 DEF after, says
      <4>3. CASE asks # {}
        <5>1. PICK i \in asks : (\A j \in asks : i <= j) /\ current = says(i)
          BY <2>4, <3>4, <4>3
        <5>2. after = says(i)
          BY <2>3, <3>1, <3>4, <5>1 DEF Persistence
        <5>3. i \in Voters(b)' /\ \A j \in Voters(b)' : i <= j
          BY <2>3, <4>1, <5>1
        <5> QED BY <5>2, <5>3 DEF after, says
      <4> QED BY <4>2, <4>3
    <3> QED BY <3>2, <3>3, <3>4
  <2> QED BY <2>8, <2>9
<1> QED BY <1>1, <1>4 DEF CookieInv

\* The merge of a path keeps the invariant.
LEMMA MergeKeeps == ASSUME IInv, NEW ing, NEW p, Merging(ing, p) PROVE IInv'
<1>1. \A l \in Listener : ListenerSourced(l)'
  BY MergeListenerSourced
<1>2. \A b \in BackendSet : BackendSetSourced(b)'
  BY MergeBackendSetSourced
<1>3. SourcedInv'
  BY <1>1, <1>2 DEF SourcedInv
<1> QED BY <1>3, MergeTyped, MergeHolds, MergeTLS, MergeReach, MergeCookies DEF IInv

-----------------------------------------------------------------------------
(* A build that is refused.                                                  *)

\* A reason to refuse the group.
Reason ==
  \/ \E i \in DOMAIN group : Misplaced(i)
  \/ \E i, j \in DOMAIN group : \E m \in DOMAIN group[i].paths, n \in DOMAIN group[j].paths :
       Disagree(group[i], group[i].paths[m], group[j], group[j].paths[n])

\* The loop is at path p of Ingress ing.
AtPath(ing, p) ==
  /\ outcome = "building" /\ at \in DOMAIN group /\ path + 1 \in DOMAIN group[at].paths
  /\ ing = group[at] /\ p = PathOf(at, path + 1)

\* A disagreement of a merged path with the one at hand is a reason.
LEMMA DisagreeIsReason ==
  ASSUME NEW ing, NEW p, AtPath(ing, p), NEW i \in DOMAIN group, NEW n \in DOMAIN group[i].paths,
         Disagree(group[i], PathOf(i, n), ing, p)
  PROVE  Reason
<1>1. PICK j \in DOMAIN group : j = at
  BY DEF AtPath
<1>2. PICK m \in DOMAIN group[j].paths : m = path + 1
  BY <1>1 DEF AtPath
<1>3. Disagree(group[i], group[i].paths[n], group[j], group[j].paths[m])
  BY <1>1, <1>2 DEF AtPath, PathOf
<1> QED BY <1>3 DEF Reason

\* The listener of the path is another Ingress's, with other settings.
LEMMA ListenerReason ==
  ASSUME IInv, NEW ing, NEW p, AtPath(ing, p),
         ProtocolConflict(ing, p) \/ DefaultBsConflict(ing, p) \/ IdleTimeoutConflict(ing, p)
  PROVE  Reason
<1>1. p.listener \in Listener /\ ListenerSourced(p.listener) /\ HoldsInv
  BY GroupFacts DEF IInv, SourcedInv, AtPath
<1>2. CASE ProtocolConflict(ing, p) \/ DefaultBsConflict(ing, p)
  <2>1. p.listener \in state.listeners
    BY <1>1, <1>2 DEF ListenerSourced, ProtocolConflict, DefaultBsConflict
  <2>2. PICK i \in DOMAIN group :
          \E n \in DOMAIN group[i].paths : Merged(i, n) /\ PathOf(i, n).listener = p.listener
    BY <1>1, <2>1 DEF ListenerSourced
  <2>3. PICK n \in DOMAIN group[i].paths : Merged(i, n) /\ PathOf(i, n).listener = p.listener
    BY <2>2
  <2>4. /\ state.listenerProtocol[p.listener] = group[i].protocol
        /\ state.listenerDefaultBs[p.listener] = DefaultBsOf(group[i], PathOf(i, n))
    BY <1>1, <2>3 DEF HoldsInv, ListenerHolds
  <2>5. Disagree(group[i], PathOf(i, n), ing, p)
    BY <1>2, <2>3, <2>4 DEF Disagree, ProtocolConflict, DefaultBsConflict
  <2> QED BY <2>5, DisagreeIsReason
<1>3. CASE IdleTimeoutConflict(ing, p)
  <2>1. state.listenerIdleTimeout[p.listener] # Unset /\ ing.idleTimeout # Unset
        /\ state.listenerIdleTimeout[p.listener] # ing.idleTimeout
    BY <1>3 DEF IdleTimeoutConflict
  <2>2. PICK i \in DOMAIN group :
          \E n \in DOMAIN group[i].paths :
            /\ Merged(i, n) /\ PathOf(i, n).listener = p.listener
            /\ group[i].idleTimeout = state.listenerIdleTimeout[p.listener]
    BY <1>1, <2>1 DEF ListenerSourced
  <2>3. PICK n \in DOMAIN group[i].paths :
          /\ Merged(i, n) /\ PathOf(i, n).listener = p.listener
          /\ group[i].idleTimeout = state.listenerIdleTimeout[p.listener]
    BY <2>2
  <2>4. Disagree(group[i], PathOf(i, n), ing, p)
    BY <2>1, <2>3 DEF Disagree, Clash
  <2> QED BY <2>4, DisagreeIsReason
<1> QED BY <1>2, <1>3

\* So is its backend set.
LEMMA BackendSetReason ==
  ASSUME IInv, NEW ing, NEW p, AtPath(ing, p),
         HealthCheckerConflict(ing, p) \/ PolicyConflict(ing, p) \/ TLSConflict(ing, p)
  PROVE  Reason
<1> DEFINE b      == p.backendSet
           status == state.bsTLSStatus[b]
<1>1. b \in BackendSet /\ BackendSetSourced(b) /\ HoldsInv
  BY GroupFacts DEF IInv, SourcedInv, AtPath
<1>2. CASE HealthCheckerConflict(ing, p)
  <2>1. state.bsHealthChecker[b] # Unset /\ state.bsHealthChecker[b] # CheckerOf(ing)
    BY <1>2 DEF HealthCheckerConflict
  <2>2. PICK i \in DOMAIN group :
          \E n \in DOMAIN group[i].paths :
            /\ Merged(i, n) /\ PathOf(i, n).backendSet = b
            /\ CheckerOf(group[i]) = state.bsHealthChecker[b]
    BY <1>1, <2>1 DEF BackendSetSourced
  <2>3. PICK n \in DOMAIN group[i].paths :
          PathOf(i, n).backendSet = b /\ CheckerOf(group[i]) = state.bsHealthChecker[b]
    BY <2>2
  <2>4. Disagree(group[i], PathOf(i, n), ing, p)
    BY <2>1, <2>3 DEF Disagree
  <2> QED BY <2>4, DisagreeIsReason
<1>3. CASE PolicyConflict(ing, p) \/ (status # Unset /\ status.enabled # ing.backendTLS)
  <2>1. b \in state.backendSets
    BY <1>1, <1>3 DEF BackendSetSourced, PolicyConflict
  <2>2. PICK i \in DOMAIN group :
          \E n \in DOMAIN group[i].paths : Merged(i, n) /\ PathOf(i, n).backendSet = b
    BY <1>1, <2>1 DEF BackendSetSourced
  <2>3. PICK n \in DOMAIN group[i].paths : Merged(i, n) /\ PathOf(i, n).backendSet = b
    BY <2>2
  <2>4. state.bsPolicy[b] = PolicyOf(group[i]) /\ status.enabled = group[i].backendTLS
    BY <1>1, <2>3 DEF HoldsInv, BackendSetHolds
  <2>5. Disagree(group[i], PathOf(i, n), ing, p)
    BY <1>3, <2>3, <2>4 DEF Disagree, PolicyConflict
  <2> QED BY <2>5, DisagreeIsReason
<1>4. CASE status # Unset /\ status.artifact # Unset /\ ArtifactOf(ing, p) \notin {Unset, status.artifact}
  <2>1. PICK i \in DOMAIN group :
          \E n \in DOMAIN group[i].paths :
            /\ Merged(i, n) /\ PathOf(i, n).backendSet = b
            /\ ArtifactOf(group[i], PathOf(i, n)) = status.artifact
    BY <1>1, <1>4 DEF BackendSetSourced
  <2>2. PICK n \in DOMAIN group[i].paths :
          PathOf(i, n).backendSet = b /\ ArtifactOf(group[i], PathOf(i, n)) = status.artifact
    BY <2>1
  <2>3. Disagree(group[i], PathOf(i, n), ing, p)
    BY <1>4, <2>2 DEF Disagree, Clash
  <2> QED BY <2>3, DisagreeIsReason
<1> QED BY <1>2, <1>3, <1>4 DEF TLSConflict

\* A reason to refuse the group stays one.
LEMMA ReasonStays == ASSUME Reason, group' = group PROVE Reason'
<1>1. \A i \in DOMAIN group : Misplaced(i) => Misplaced(i)'
  BY DEF Misplaced
<1>2. \A i, j \in DOMAIN group : \A m \in DOMAIN group[i].paths, n \in DOMAIN group[j].paths :
        Disagree(group[i], group[i].paths[m], group[j], group[j].paths[n])
          => Disagree(group[i], group[i].paths[m], group[j], group[j].paths[n])'
  <2>1. ASSUME NEW i \in DOMAIN group, NEW j \in DOMAIN group,
               NEW m \in DOMAIN group[i].paths, NEW n \in DOMAIN group[j].paths
        PROVE  Disagree(group[i], group[i].paths[m], group[j], group[j].paths[n])'
                 <=> Disagree(group'[i], group'[i].paths[m], group'[j], group'[j].paths[n])
    BY DEF Disagree, DefaultBsOf, CheckerOf, PolicyOf, ArtifactOf, SecretOf, CertificatesOf, Clash, PoliciesClash
  <2> QED BY <2>1
<1> QED BY <1>1, <1>2 DEF Reason

-----------------------------------------------------------------------------
(* The other steps.                                                          *)

\* No path is merged, and what the paths have left is as it was.
EntriesKept ==
  /\ group' = group /\ DOMAIN state' = Fields
  /\ \A i \in DOMAIN group : \A n \in DOMAIN group[i].paths : Merged(i, n)' <=> Merged(i, n)
  /\ state'.listeners = state.listeners /\ state'.backendSets = state.backendSets
  /\ state'.listenerProtocol = state.listenerProtocol
  /\ state'.listenerDefaultBs = state.listenerDefaultBs
  /\ state'.listenerIdleTimeout = state.listenerIdleTimeout
  /\ state'.listenerBackendSets = state.listenerBackendSets
  /\ state'.listenerTLS = state.listenerTLS
  /\ DOMAIN state'.bsHealthChecker = AllBackendSets
  /\ \A b \in BackendSet : state'.bsHealthChecker[b] = state.bsHealthChecker[b]
  /\ state'.bsPolicy = state.bsPolicy /\ state'.bsPersistence = state.bsPersistence
  /\ state'.bsTLSStatus = state.bsTLSStatus /\ state'.bsTLS = state.bsTLS

LEMMA EntriesKeep ==
  ASSUME IInv, EntriesKept
  PROVE  MapsInv' /\ HoldsInv' /\ SourcedInv' /\ TLSInv' /\ ReachInv' /\ CookieInv'
<1>1. \A i \in DOMAIN group : \A n \in DOMAIN group[i].paths :
        /\ Merged(i, n)' <=> Merged(i, n)
        /\ PathOf(i, n)' = PathOf(i, n)
        /\ ListenerHolds(group[i], PathOf(i, n)) => ListenerHolds(group[i], PathOf(i, n))'
        /\ BackendSetHolds(group[i], PathOf(i, n)) => BackendSetHolds(group[i], PathOf(i, n))'
  <2>1. ASSUME NEW i \in DOMAIN group, NEW n \in DOMAIN group[i].paths,
               ListenerHolds(group[i], PathOf(i, n))
        PROVE  ListenerHolds(group[i], PathOf(i, n))'
    <3>1. group'[i] = group[i] /\ PathOf(i, n)' = PathOf(i, n)
      BY DEF EntriesKept, PathOf
    <3>2. /\ DefaultBsOf(group[i], PathOf(i, n))' = DefaultBsOf(group[i], PathOf(i, n))
          /\ Reached(group[i], PathOf(i, n))' = Reached(group[i], PathOf(i, n))
      BY <3>1 DEF DefaultBsOf, Reached
    <3>3. ListenerArtifacts(group[i], PathOf(i, n))' = ListenerArtifacts(group[i], PathOf(i, n))
      BY <3>1 DEF ListenerArtifacts, CertificatesOf, SecretOf
    <3> QED BY <2>1, <3>1, <3>2, <3>3 DEF EntriesKept, ListenerHolds
  <2>2. ASSUME NEW i \in DOMAIN group, NEW n \in DOMAIN group[i].paths,
               BackendSetHolds(group[i], PathOf(i, n))
        PROVE  BackendSetHolds(group[i], PathOf(i, n))'
    <3>1. group'[i] = group[i] /\ PathOf(i, n)' = PathOf(i, n)
      BY DEF EntriesKept, PathOf
    <3>2. /\ ArtifactOf(group[i], PathOf(i, n))' = ArtifactOf(group[i], PathOf(i, n))
          /\ PolicyOf(group[i])' = PolicyOf(group[i])
      BY <3>1 DEF ArtifactOf, PolicyOf, CertificatesOf, SecretOf
    <3> QED BY <2>2, <3>1, <3>2 DEF EntriesKept, BackendSetHolds
  <2>3. \A i \in DOMAIN group : \A n \in DOMAIN group[i].paths :
          (Merged(i, n)' <=> Merged(i, n)) /\ PathOf(i, n)' = PathOf(i, n)
    BY DEF EntriesKept, PathOf
  <2> QED BY <2>1, <2>2, <2>3
<1>2. MapsInv'
  BY DEF IInv, MapsInv, EntriesKept
<1>3. HoldsInv'
  BY <1>1 DEF IInv, HoldsInv, EntriesKept
<1>4. \A l \in Listener : ListenerSourced(l)'
  BY <1>1 DEF IInv, SourcedInv, ListenerSourced, EntriesKept
<1>5. \A b \in BackendSet : BackendSetSourced(b)'
  BY <1>1 DEF IInv, SourcedInv, BackendSetSourced, EntriesKept, CheckerOf, ArtifactOf, SecretOf, CertificatesOf
<1>6. TLSInv' /\ ReachInv'
  BY DEF IInv, TLSInv, ReachInv, EntriesKept
<1>7. \A b \in BackendSet : Asking(b)' = Asking(b)
  BY <1>1 DEF Asking, EntriesKept
<1>8. \A b \in BackendSet : Voters(b)' = Voters(b)
  BY <1>7 DEF Voters, LbAsking, EntriesKept
<1>9. CookieInv'
  BY <1>8 DEF IInv, CookieInv, EntriesKept
<1> QED BY <1>2, <1>3, <1>4, <1>5, <1>6, <1>9 DEF SourcedInv

\* A path that does not merge ends the build for a reason; the rest is as it was.
LEMMA ConflictKeeps ==
  ASSUME IInv, NEW ing, NEW p, AtPath(ing, p), Conflict(ing, p),
         outcome' = "conflict", UNCHANGED <<group, at, path, owner, state>>
  PROVE  IInv'
<1>1. Reason
  <2>1. CASE ing.persistence = Invalid
    BY <2>1 DEF Reason, Misplaced, AtPath
  <2>2. CASE ing.persistence # Invalid
    BY <2>2, ListenerReason, BackendSetReason DEF Conflict
  <2> QED BY <2>1, <2>2
<1>2. RefusedForAReason'
  BY <1>1, ReasonStays DEF RefusedForAReason, Reason
<1>3. EntriesKept
  BY DEF EntriesKept, IInv, MapsInv, Merged
<1>4. TypeOK' /\ (group \in Group)'
  BY DEF IInv, TypeOK, Now
<1>5. OwnerInv' /\ BuiltInv'
  BY DEF OwnerInv, BuiltInv
<1> QED BY <1>2, <1>3, <1>4, <1>5, EntriesKeep DEF IInv

\* An Ingress is done when its paths are merged: to begin the next merges none.
LEMMA SameMerged ==
  ASSUME IInv, at < Len(group), at > 0 => path = Len(Now.paths), group' = group, at' = at + 1, path' = 0
  PROVE  \A i \in DOMAIN group : \A n \in DOMAIN group[i].paths : Merged(i, n)' <=> Merged(i, n)
<1>1. /\ DOMAIN group = 1..Len(group) /\ Len(group) \in Nat /\ at \in Nat /\ path \in Nat
      /\ \A i \in DOMAIN group :
           Len(group[i].paths) \in Nat /\ DOMAIN group[i].paths = 1..Len(group[i].paths)
  BY GroupFacts DEF IInv, TypeOK
<1> QED BY <1>1 DEF Merged, Now

LEMMA NextIngressKeeps == ASSUME IInv, NextIngress PROVE IInv'
<1> DEFINE ing == group[at + 1]
<1>1. /\ outcome = "building" /\ at < Len(group) /\ (at > 0 => path = Len(Now.paths))
      /\ at' = at + 1 /\ path' = 0 /\ group' = group
  BY DEF NextIngress, Building
<1>2. /\ DOMAIN group = 1..Len(group) /\ Len(group) \in Nat /\ at \in Nat /\ owner \in 0..at
      /\ at + 1 \in DOMAIN group /\ Len(group[at + 1].paths) \in Nat
      /\ OwnerInv /\ MapsInv /\ TypeOK /\ group \in Group
  BY <1>1, GroupFacts DEF IInv, TypeOK
<1>3. DefaultIngress \in AllBackendSets /\ \A b \in BackendSet : b \in AllBackendSets /\ b # DefaultIngress
  BY StateAssumption DEF AllBackendSets
<1>4. CASE UNCHANGED <<owner, state, outcome>>
           /\ ing.defaultHealthChecker = Unset
  <2>1. EntriesKept
    BY <1>1, <1>2, <1>4, SameMerged DEF EntriesKept, MapsInv, IInv
  <2>2. TypeOK'
    BY <1>1, <1>2, <1>4 DEF TypeOK, Now
  <2>3. OwnerInv'
    BY <1>1, <1>2, <1>4 DEF OwnerInv
  <2>4. BuiltInv' /\ RefusedForAReason' /\ (group \in Group)'
    BY <1>1, <1>2, <1>4 DEF BuiltInv, RefusedForAReason
  <2> QED BY <2>1, <2>2, <2>3, <2>4, EntriesKeep DEF IInv
<1>5. CASE /\ outcome' = "conflict" /\ UNCHANGED <<owner, state>>
           /\ ing.defaultHealthChecker # Unset
           /\ ~ing.defaultBackend \/ owner # 0 \/ ing.defaultHealthChecker = Invalid
  <2>1. EntriesKept
    BY <1>1, <1>2, <1>5, SameMerged DEF EntriesKept, MapsInv, IInv
  <2>2. TypeOK'
    BY <1>1, <1>2, <1>5 DEF TypeOK, Now
  <2>3. Misplaced(at + 1)
    <3>1. CASE owner # 0
      <4>1. owner \in DOMAIN group \ {at + 1} /\ group[owner].defaultHealthChecker # Unset
        BY <1>1, <1>2, <3>1 DEF OwnerInv
      <4> QED BY <1>5, <4>1 DEF Misplaced
    <3>2. CASE owner = 0
      BY <1>5, <3>2 DEF Misplaced
    <3> QED BY <3>1, <3>2
  <2>4. PICK i \in DOMAIN group : i = at + 1
    BY <1>2
  <2>5. Misplaced(i)'
    BY <1>1, <2>3, <2>4 DEF Misplaced
  <2>6. RefusedForAReason'
    BY <1>1, <2>5 DEF RefusedForAReason
  <2>7. OwnerInv' /\ BuiltInv' /\ (group \in Group)'
    BY <1>1, <1>2, <1>5 DEF OwnerInv, BuiltInv
  <2> QED BY <2>1, <2>2, <2>6, <2>7, EntriesKeep DEF IInv
<1>6. CASE /\ owner' = at + 1 /\ outcome' = outcome
           /\ state' = [state EXCEPT !.bsHealthChecker[DefaultIngress] = ing.defaultHealthChecker]
           /\ ing.defaultHealthChecker # Unset /\ owner = 0
  <2>1. /\ DOMAIN state' = Fields /\ DOMAIN state' = DOMAIN Empty
        /\ state'.bsHealthChecker =
             [state.bsHealthChecker EXCEPT ![DefaultIngress] = ing.defaultHealthChecker]
    BY <1>2, <1>6 DEF MapsInv, TypeOK, Fields
  <2>2. /\ state'.listeners = state.listeners /\ state'.backendSets = state.backendSets
        /\ state'.listenerProtocol = state.listenerProtocol
        /\ state'.listenerDefaultBs = state.listenerDefaultBs
        /\ state'.listenerIdleTimeout = state.listenerIdleTimeout
        /\ state'.listenerBackendSets = state.listenerBackendSets
        /\ state'.listenerTLS = state.listenerTLS
        /\ state'.bsPolicy = state.bsPolicy /\ state'.bsPersistence = state.bsPersistence
        /\ state'.bsTLSStatus = state.bsTLSStatus /\ state'.bsTLS = state.bsTLS
    BY <1>2, <1>6 DEF MapsInv, Fields
  <2>3. /\ DOMAIN state'.bsHealthChecker = AllBackendSets
        /\ \A b \in BackendSet : state'.bsHealthChecker[b] = state.bsHealthChecker[b]
        /\ state'.bsHealthChecker[DefaultIngress] = ing.defaultHealthChecker
    BY <1>2, <1>3, <2>1 DEF MapsInv
  <2>4. EntriesKept
    BY <1>1, <2>1, <2>2, <2>3, SameMerged DEF EntriesKept
  <2>5. TypeOK'
    BY <1>1, <1>2, <1>6, <2>1, <2>2, <2>3 DEF TypeOK, Now
  <2>6. OwnerInv'
    BY <1>1, <1>2, <1>6, <2>3 DEF OwnerInv
  <2>7. BuiltInv' /\ RefusedForAReason' /\ (group \in Group)'
    BY <1>1, <1>2, <1>6 DEF BuiltInv, RefusedForAReason
  <2> QED BY <2>4, <2>5, <2>6, <2>7, EntriesKeep DEF IInv
<1> QED BY <1>4, <1>5, <1>6 DEF NextIngress

LEMMA MergePathKeeps == ASSUME IInv, MergePath PROVE IInv'
<1>1. /\ outcome = "building" /\ at > 0 /\ path < Len(group[at].paths)
      /\ UNCHANGED <<group, at, owner>>
  BY DEF MergePath, Building, Now
<1>2. at \in DOMAIN group /\ path + 1 \in DOMAIN group[at].paths
  BY <1>1, GroupFacts DEF IInv, TypeOK
<1>3. PICK ing, p : ing = group[at] /\ p = PathOf(at, path + 1)
  OBVIOUS
<1>4. CASE Conflict(ing, p)
  <2>1. AtPath(ing, p) /\ outcome' = "conflict" /\ UNCHANGED <<group, at, path, owner, state>>
    BY <1>1, <1>2, <1>3, <1>4 DEF MergePath, AtPath, PathOf, Now
  <2> QED BY <1>4, <2>1, ConflictKeeps
<1>5. CASE ~Conflict(ing, p)
  <2>1. Merging(ing, p)
    BY <1>1, <1>2, <1>3, <1>5 DEF MergePath, Merging, PathOf, Now
  <2> QED BY <2>1, MergeKeeps
<1> QED BY <1>4, <1>5

LEMMA UnresolvedKeeps == ASSUME IInv, PathUnresolved PROVE IInv'
<1>1. UNCHANGED <<group, at, path, owner, state>> /\ outcome' = "unresolved"
  BY DEF PathUnresolved
<1>2. EntriesKept
  BY <1>1 DEF EntriesKept, IInv, MapsInv, Merged
<1>3. TypeOK' /\ (group \in Group)'
  BY <1>1 DEF IInv, TypeOK, Now
<1>4. OwnerInv' /\ BuiltInv' /\ RefusedForAReason'
  BY <1>1 DEF OwnerInv, BuiltInv, RefusedForAReason
<1> QED BY <1>2, <1>3, <1>4, EntriesKeep DEF IInv

-----------------------------------------------------------------------------
(* The TLS policies.                                                         *)

\* The values of a function on a finite set are finitely many.
LEMMA ValuesFinite ==
  ASSUME NEW S, IsFiniteSet(S), NEW f, DOMAIN f = S
  PROVE  IsFiniteSet({f[x] : x \in S})
<1> DEFINE T == {f[x] : x \in S}
<1>1. [x \in S |-> f[x]] \in Surjection(S, T)
  BY DEF Surjection
<1> QED BY <1>1, FS_Surjection

\* A finite set has at most one element just when its elements are equal.
LEMMA AtMostOne ==
  ASSUME NEW S, IsFiniteSet(S)
  PROVE  Cardinality(S) <= 1 <=> \A x, y \in S : x = y
<1>1. Cardinality(S) \in Nat
  BY FS_CardinalityType
<1>2. ASSUME Cardinality(S) <= 1, NEW x \in S, NEW y \in S PROVE x = y
  <2>1. Cardinality(S) = 1
    BY <1>1, <1>2, FS_EmptySet
  <2> QED BY <2>1, FS_Singleton
<1>3. ASSUME \A x, y \in S : x = y PROVE Cardinality(S) <= 1
  <2>1. CASE S = {}
    BY <2>1, FS_EmptySet
  <2>2. CASE S # {}
    <3>1. PICK x \in S : S = {x}
      BY <1>3, <2>2
    <3> QED BY <3>1, FS_Singleton
  <2> QED BY <2>1, <2>2
<1> QED BY <1>2, <1>3

LEMMA ChoicesFinite ==
  ASSUME NEW S, IsFiniteSet(S)
  PROVE  IsFiniteSet(Ciphers(S)) /\ IsFiniteSet(Protocols(S))
<1> DEFINE ciphers   == [c \in S |-> c.cipherSuite]
           protocols == [c \in S |-> c.protocols]
<1>1. IsFiniteSet({ciphers[c] : c \in S}) /\ IsFiniteSet({protocols[c] : c \in S})
  BY ValuesFinite
<1>2. /\ Ciphers(S) \subseteq {ciphers[c] : c \in S}
      /\ Protocols(S) \subseteq {protocols[c] : c \in S}
  BY DEF Ciphers, Protocols
<1> QED BY <1>1, <1>2, FS_Subset

\* Policies that do not merge clash, two of them or one with itself.
LEMMA UnmergeableClash ==
  ASSUME NEW S, IsFiniteSet(S), Unset \notin S, ~Mergeable(S)
  PROVE  \E x, y \in S : PoliciesClash(x, y)
<1>1. /\ Cardinality(Ciphers(S)) <= 1 <=> \A u, v \in Ciphers(S) : u = v
      /\ Cardinality(Protocols(S)) <= 1 <=> \A u, v \in Protocols(S) : u = v
  BY ChoicesFinite, AtMostOne
<1>2. CASE Invalid \in S
  BY <1>2 DEF PoliciesClash
<1>3. CASE \E u, v \in Ciphers(S) : u # v
  <2>1. PICK x \in S, y \in S : x.cipherSuite # Unset /\ y.cipherSuite # Unset /\ x.cipherSuite # y.cipherSuite
    BY <1>3 DEF Ciphers
  <2> QED BY <2>1 DEF PoliciesClash, Clash
<1>4. CASE \E u, v \in Protocols(S) : u # v
  <2>1. PICK x \in S, y \in S : x.protocols # Unset /\ y.protocols # Unset /\ x.protocols # y.protocols
    BY <1>4 DEF Protocols
  <2> QED BY <2>1 DEF PoliciesClash, Clash
<1> QED BY <1>1, <1>2, <1>3, <1>4 DEF Mergeable

\* What a policy has, the merged one has.
LEMMA PolicyIsHonoured ==
  ASSUME NEW S, IsFiniteSet(S), Mergeable(S), NEW asked \in S
  PROVE  PolicyHonoured(asked, MergedPolicy(S))
<1>1. /\ \A u, v \in Ciphers(S) : u = v
      /\ \A u, v \in Protocols(S) : u = v
  BY ChoicesFinite, AtMostOne DEF Mergeable
<1>2. /\ asked.cipherSuite # Unset => asked.cipherSuite \in Ciphers(S)
      /\ asked.protocols # Unset => asked.protocols \in Protocols(S)
  BY DEF Ciphers, Protocols
<1>3. ASSUME NEW values, NEW v \in values, \A u, w \in values : u = w PROVE TheOne(values) = v
  BY <1>3 DEF TheOne
<1>4. /\ asked.cipherSuite # Unset => TheOne(Ciphers(S)) = asked.cipherSuite
      /\ asked.protocols # Unset => TheOne(Protocols(S)) = asked.protocols
  BY <1>1, <1>2, <1>3
<1>5. MergedPolicy(S).cipherSuite = TheOne(Ciphers(S)) /\ MergedPolicy(S).protocols = TheOne(Protocols(S))
  BY DEF MergedPolicy
<1> QED BY <1>4, <1>5 DEF PolicyHonoured

\* The candidates are finitely many, and are policies of the group's Ingresses.
LEMMA CandidateFacts ==
  ASSUME group \in Group
  PROVE  /\ \A l \in Listener : /\ IsFiniteSet(ListenerCandidates(l)) /\ Unset \notin ListenerCandidates(l)
                                /\ \A c \in ListenerCandidates(l) :
                                     \E i \in DOMAIN group : c = group[i].listenerTLSPolicy /\ ServedBy(i, l)
         /\ \A b \in BackendSet : /\ IsFiniteSet(BackendSetCandidates(b)) /\ Unset \notin BackendSetCandidates(b)
                                  /\ \A c \in BackendSetCandidates(b) :
                                       \E i \in DOMAIN group : c = group[i].bsTLSPolicy /\ BackedBy(i, b)
<1> DEFINE ofListener   == [i \in DOMAIN group |-> group[i].listenerTLSPolicy]
           ofBackendSet == [i \in DOMAIN group |-> group[i].bsTLSPolicy]
<1>1. IsFiniteSet(DOMAIN group)
  BY GroupFacts, FS_Interval
<1>2. IsFiniteSet({ofListener[i] : i \in DOMAIN group}) /\ IsFiniteSet({ofBackendSet[i] : i \in DOMAIN group})
  BY <1>1, ValuesFinite
<1>3. ASSUME NEW l \in Listener
      PROVE  IsFiniteSet(ListenerCandidates(l))
  <2>1. ListenerCandidates(l) \subseteq {ofListener[i] : i \in DOMAIN group}
    BY DEF ListenerCandidates
  <2> QED BY <1>2, <2>1, FS_Subset
<1>4. ASSUME NEW b \in BackendSet
      PROVE  IsFiniteSet(BackendSetCandidates(b))
  <2>1. BackendSetCandidates(b) \subseteq {ofBackendSet[i] : i \in DOMAIN group}
    BY DEF BackendSetCandidates
  <2> QED BY <1>2, <2>1, FS_Subset
<1>5. \A l \in Listener : /\ Unset \notin ListenerCandidates(l)
                          /\ \A c \in ListenerCandidates(l) :
                               \E i \in DOMAIN group : c = group[i].listenerTLSPolicy /\ ServedBy(i, l)
  BY DEF ListenerCandidates
<1>6. \A b \in BackendSet : /\ Unset \notin BackendSetCandidates(b)
                            /\ \A c \in BackendSetCandidates(b) :
                                 \E i \in DOMAIN group : c = group[i].bsTLSPolicy /\ BackedBy(i, b)
  BY DEF BackendSetCandidates
<1> QED BY <1>3, <1>4, <1>5, <1>6

\* Candidates that do not merge are a reason to refuse the group.
LEMMA CandidatesReason ==
  ASSUME IInv, \/ \E l \in Listener : ~Mergeable(ListenerCandidates(l))
               \/ \E b \in BackendSet : ~Mergeable(BackendSetCandidates(b))
  PROVE  Reason
<1>1. group \in Group
  BY DEF IInv
<1>2. CASE \E l \in Listener : ~Mergeable(ListenerCandidates(l))
  <2>1. PICK l \in Listener : ~Mergeable(ListenerCandidates(l))
    BY <1>2
  <2>2. PICK S : S = ListenerCandidates(l)
    OBVIOUS
  <2>3. PICK x \in S, y \in S : PoliciesClash(x, y)
    BY <1>1, <2>1, <2>2, CandidateFacts, UnmergeableClash
  <2>4. PICK i \in DOMAIN group, j \in DOMAIN group :
          /\ x = group[i].listenerTLSPolicy /\ ServedBy(i, l)
          /\ y = group[j].listenerTLSPolicy /\ ServedBy(j, l)
    BY <1>1, <2>2, <2>3, CandidateFacts
  <2>5. PICK m \in DOMAIN group[i].paths : group[i].paths[m].listener = l
    BY <2>4 DEF ServedBy
  <2>6. PICK n \in DOMAIN group[j].paths : group[j].paths[n].listener = l
    BY <2>4 DEF ServedBy
  <2>7. Disagree(group[i], group[i].paths[m], group[j], group[j].paths[n])
    BY <2>3, <2>4, <2>5, <2>6 DEF Disagree
  <2> QED BY <2>7 DEF Reason
<1>3. CASE \E b \in BackendSet : ~Mergeable(BackendSetCandidates(b))
  <2>1. PICK b \in BackendSet : ~Mergeable(BackendSetCandidates(b))
    BY <1>3
  <2>2. PICK S : S = BackendSetCandidates(b)
    OBVIOUS
  <2>3. PICK x \in S, y \in S : PoliciesClash(x, y)
    BY <1>1, <2>1, <2>2, CandidateFacts, UnmergeableClash
  <2>4. PICK i \in DOMAIN group, j \in DOMAIN group :
          /\ x = group[i].bsTLSPolicy /\ BackedBy(i, b)
          /\ y = group[j].bsTLSPolicy /\ BackedBy(j, b)
    BY <1>1, <2>2, <2>3, CandidateFacts
  <2>5. PICK m \in DOMAIN group[i].paths : group[i].paths[m].backendSet = b
    BY <2>4 DEF BackedBy
  <2>6. PICK n \in DOMAIN group[j].paths : group[j].paths[n].backendSet = b
    BY <2>4 DEF BackedBy
  <2>7. Disagree(group[i], group[i].paths[m], group[j], group[j].paths[n])
    BY <2>3, <2>4, <2>5, <2>6 DEF Disagree
  <2> QED BY <2>7 DEF Reason
<1> QED BY <1>2, <1>3

LEMMA FinishKeeps == ASSUME IInv, Finish PROVE IInv'
<1>1. /\ at = Len(group) /\ (at > 0 => path = Len(Now.paths))
      /\ UNCHANGED <<group, at, path, owner>> /\ outcome = "building"
      /\ TypeOK /\ MapsInv /\ OwnerInv /\ group \in Group
  BY DEF Finish, Building, IInv
<1>2. \A i \in DOMAIN group : \A n \in DOMAIN group[i].paths : Merged(i, n)' <=> Merged(i, n)
  BY <1>1 DEF Merged
<1>3. CASE /\ \A l \in Listener : Mergeable(ListenerCandidates(l))
           /\ \A b \in BackendSet : Mergeable(BackendSetCandidates(b))
  <2>1. /\ outcome' = "built"
        /\ state' = [state EXCEPT
             !.listenerTLSPolicy = [l \in Listener |-> MergedPolicy(ListenerCandidates(l))],
             !.bsTLSPolicy = [b \in BackendSet |-> MergedPolicy(BackendSetCandidates(b))]]
    BY <1>3 DEF Finish
  <2>2. /\ DOMAIN state' = Fields /\ DOMAIN state' = DOMAIN state
        /\ state'.listenerTLSPolicy = [l \in Listener |-> MergedPolicy(ListenerCandidates(l))]
        /\ state'.bsTLSPolicy = [b \in BackendSet |-> MergedPolicy(BackendSetCandidates(b))]
    BY <1>1, <2>1 DEF MapsInv, Fields
  <2>3. /\ state'.listeners = state.listeners /\ state'.backendSets = state.backendSets
        /\ state'.listenerProtocol = state.listenerProtocol
        /\ state'.listenerDefaultBs = state.listenerDefaultBs
        /\ state'.listenerIdleTimeout = state.listenerIdleTimeout
        /\ state'.listenerBackendSets = state.listenerBackendSets
        /\ state'.listenerTLS = state.listenerTLS
        /\ state'.bsHealthChecker = state.bsHealthChecker
        /\ state'.bsPolicy = state.bsPolicy /\ state'.bsPersistence = state.bsPersistence
        /\ state'.bsTLSStatus = state.bsTLSStatus /\ state'.bsTLS = state.bsTLS
    BY <1>1, <2>1 DEF MapsInv, Fields
  <2>4. EntriesKept
    BY <1>1, <1>2, <2>2, <2>3 DEF EntriesKept, MapsInv
  <2>5. /\ \A l \in Listener : ListenerCandidates(l)' = ListenerCandidates(l)
        /\ \A b \in BackendSet : BackendSetCandidates(b)' = BackendSetCandidates(b)
    BY <1>1, <2>3 DEF ListenerCandidates, BackendSetCandidates, ServedBy, BackedBy
  <2>6. /\ \A l \in Listener : /\ Mergeable(ListenerCandidates(l)')
                               /\ state'.listenerTLSPolicy[l] = MergedPolicy(ListenerCandidates(l)')
        /\ \A b \in BackendSet : /\ Mergeable(BackendSetCandidates(b)')
                                 /\ state'.bsTLSPolicy[b] = MergedPolicy(BackendSetCandidates(b)')
    BY <1>3, <2>2, <2>5
  <2>7. BuiltInv'
    BY <1>1, <2>6 DEF BuiltInv, Now, Mergeable, MergedPolicy, Ciphers, Protocols, TheOne
  <2>8. OwnerInv' /\ RefusedForAReason' /\ (group \in Group)'
    BY <1>1, <2>1, <2>3 DEF OwnerInv, RefusedForAReason
  <2>9. TypeOK'
    BY <1>1, <2>1, <2>2, <2>3 DEF TypeOK, Now
  <2> QED BY <2>4, <2>7, <2>8, <2>9, EntriesKeep DEF IInv
<1>4. CASE ~(/\ \A l \in Listener : Mergeable(ListenerCandidates(l))
             /\ \A b \in BackendSet : Mergeable(BackendSetCandidates(b)))
  <2>1. outcome' = "conflict" /\ UNCHANGED <<group, at, path, owner, state>>
    BY <1>1, <1>4 DEF Finish
  <2>2. EntriesKept
    BY <1>1, <1>2, <2>1 DEF EntriesKept, MapsInv
  <2>3. Reason
    BY <1>4, CandidatesReason
  <2>4. RefusedForAReason'
    BY <2>1, <2>3, ReasonStays DEF RefusedForAReason, Reason
  <2>5. TypeOK' /\ OwnerInv' /\ BuiltInv' /\ (group \in Group)'
    BY <1>1, <2>1 DEF TypeOK, Now, OwnerInv, BuiltInv
  <2> QED BY <2>2, <2>4, <2>5, EntriesKeep DEF IInv
<1> QED BY <1>3, <1>4

-----------------------------------------------------------------------------
(* The theorems.                                                             *)

LEMMA Initially == Init => IInv
<1> SUFFICES ASSUME Init PROVE IInv
  OBVIOUS
<1>1. /\ group \in Group /\ at = 0 /\ path = 0 /\ owner = 0 /\ state = Empty /\ outcome = "building"
  BY DEF Init
<1>2. /\ DOMAIN group = 1..Len(group) /\ Len(group) \in Nat
      /\ \A i \in DOMAIN group : DOMAIN group[i].paths = 1..Len(group[i].paths)
  BY <1>1, GroupFacts
<1>3. \A i \in DOMAIN group : \A n \in DOMAIN group[i].paths : ~Merged(i, n)
  BY <1>1, <1>2 DEF Merged
<1>4. MapsInv
  BY <1>1 DEF MapsInv, Empty, Fields
<1>5. /\ state.listeners = {} /\ state.backendSets = {DefaultIngress}
      /\ \A l \in Listener : /\ state.listenerProtocol[l] = Unset /\ state.listenerDefaultBs[l] = Unset
                             /\ state.listenerIdleTimeout[l] = Unset /\ state.listenerBackendSets[l] = {}
                             /\ state.listenerTLS[l] = {}
      /\ \A b \in BackendSet : /\ state.bsHealthChecker[b] = Unset /\ state.bsPolicy[b] = Unset
                               /\ state.bsPersistence[b] = Unset
                               /\ state.bsTLSStatus[b] = Unset /\ state.bsTLS[b] = Unset
  BY <1>1, StateAssumption DEF Empty, AllBackendSets
<1>6. TypeOK
  BY <1>1, <1>2, <1>5, StateAssumption DEF TypeOK, AllBackendSets
<1>7. HoldsInv
  BY <1>3 DEF HoldsInv
<1>8. \A b \in BackendSet : b # DefaultIngress
  BY StateAssumption
<1>9. SourcedInv
  BY <1>5, <1>8 DEF SourcedInv, ListenerSourced, BackendSetSourced
<1>10. TLSInv /\ ReachInv
  BY <1>5 DEF TLSInv, ReachInv
<1>11. CookieInv
  <2>1. \A b \in BackendSet : Voters(b) = {}
    BY <1>3 DEF Voters, LbAsking, Asking
  <2> QED BY <1>5, <2>1 DEF CookieInv
<1>12. OwnerInv /\ BuiltInv /\ RefusedForAReason
  BY <1>1, <1>2 DEF OwnerInv, BuiltInv, RefusedForAReason
<1> QED BY <1>1, <1>4, <1>6, <1>7, <1>9, <1>10, <1>11, <1>12 DEF IInv

LEMMA StepKeeps == IInv /\ [Next]_vars => IInv'
<1> SUFFICES ASSUME IInv, [Next]_vars PROVE IInv'
  OBVIOUS
<1>1. CASE NextIngress
  BY <1>1, NextIngressKeeps
<1>2. CASE MergePath
  BY <1>2, MergePathKeeps
<1>3. CASE PathUnresolved
  BY <1>3, UnresolvedKeeps
<1>4. CASE Finish
  BY <1>4, FinishKeeps
<1>5. CASE UNCHANGED vars
  <2>1. UNCHANGED <<group, at, path, owner, state, outcome>>
    BY <1>5 DEF vars
  <2>2. EntriesKept
    BY <2>1 DEF EntriesKept, IInv, MapsInv, Merged
  <2>3. TypeOK' /\ OwnerInv' /\ (group \in Group)'
    BY <2>1 DEF IInv, TypeOK, Now, OwnerInv
  <2>4. BuiltInv'
    <3>1. /\ \A l \in Listener : ListenerCandidates(l)' = ListenerCandidates(l)
          /\ \A b \in BackendSet : BackendSetCandidates(b)' = BackendSetCandidates(b)
      BY <2>1 DEF ListenerCandidates, BackendSetCandidates, ServedBy, BackedBy
    <3>2. BuiltInv
      BY DEF IInv
    <3>3. outcome' = "built" =>
            /\ \A l \in Listener : /\ Mergeable(ListenerCandidates(l)')
                                   /\ state'.listenerTLSPolicy[l] = MergedPolicy(ListenerCandidates(l)')
            /\ \A b \in BackendSet : /\ Mergeable(BackendSetCandidates(b)')
                                     /\ state'.bsTLSPolicy[b] = MergedPolicy(BackendSetCandidates(b)')
      BY <2>1, <3>1, <3>2 DEF BuiltInv
    <3> QED BY <2>1, <3>2, <3>3 DEF BuiltInv, Mergeable, MergedPolicy, Ciphers, Protocols, TheOne
  <2>5. RefusedForAReason'
    BY <2>1, ReasonStays DEF IInv, RefusedForAReason, Reason
  <2> QED BY <2>2, <2>3, <2>4, <2>5, EntriesKeep DEF IInv
<1> QED BY <1>1, <1>2, <1>3, <1>4, <1>5 DEF Next

\* While BuildState runs and after it, the entries are what the merged paths
\* leave, and every entry is some merged path's.
THEOREM Invariance == Spec => []IInv
BY Initially, StepKeeps, PTL DEF Spec

\* The types, and that what is merged is a prefix of the group's paths.
THEOREM TypesOK == Spec => []TypeOK
<1>1. IInv => TypeOK
  BY DEF IInv
<1> QED BY <1>1, Invariance, PTL

\* When the state is built, all paths of all Ingresses are merged.
LEMMA AllMerged ==
  ASSUME IInv, outcome = "built"
  PROVE  \A i \in DOMAIN group : \A n \in DOMAIN group[i].paths : Merged(i, n)
<1>1. /\ at = Len(group) /\ (at > 0 => path = Len(group[at].paths))
      /\ DOMAIN group = 1..Len(group) /\ Len(group) \in Nat
      /\ \A i \in DOMAIN group :
           Len(group[i].paths) \in Nat /\ DOMAIN group[i].paths = 1..Len(group[i].paths)
  BY GroupFacts DEF IInv, BuiltInv
<1> QED BY <1>1 DEF Merged

\* No setting of an Ingress gives way to another's in a state BuildState returns
\* (the validations of ingressstate.go:301-620 are enough), whatever the number
\* and the order of the Ingresses.
THEOREM NothingGivesWay == Spec => []SettingsHonoured
<1>1. ASSUME IInv PROVE SettingsHonoured
  <2> SUFFICES ASSUME outcome = "built", NEW i \in DOMAIN group
               PROVE  /\ group[i].defaultHealthChecker # Unset =>
                           state.bsHealthChecker[DefaultIngress] = group[i].defaultHealthChecker
                      /\ \A n \in DOMAIN group[i].paths :
                           LET ing == group[i]
                               p   == ing.paths[n]
                               l   == p.listener
                               b   == p.backendSet
                           IN  /\ state.listenerProtocol[l] = ing.protocol
                               /\ state.listenerDefaultBs[l] = DefaultBsOf(ing, p)
                               /\ ing.idleTimeout \in {Unset, state.listenerIdleTimeout[l]}
                               /\ ListenerArtifacts(ing, p) \subseteq state.listenerTLS[l]
                               /\ state.listenerTLS[l] # {} =>
                                    PolicyHonoured(ing.listenerTLSPolicy, state.listenerTLSPolicy[l])
                               /\ state.bsPolicy[b] = PolicyOf(ing)
                               /\ IF ing.backendTLS THEN ArtifactOf(ing, p) \in {Unset, state.bsTLS[b]}
                                  ELSE state.bsTLS[b] = Unset
                               /\ state.bsTLS[b] # Unset =>
                                    PolicyHonoured(ing.bsTLSPolicy, state.bsTLSPolicy[b])
    BY DEF SettingsHonoured
  <2>1. /\ group \in Group /\ DOMAIN group = 1..Len(group) /\ Len(group) \in Nat /\ at = Len(group)
        /\ owner \in 0..at /\ OwnerInv /\ HoldsInv /\ TLSInv /\ BuiltInv
    BY <1>1, GroupFacts DEF IInv, BuiltInv, TypeOK
  <2>2. group[i].defaultHealthChecker # Unset =>
          state.bsHealthChecker[DefaultIngress] = group[i].defaultHealthChecker
    BY <2>1 DEF OwnerInv
  <2>3. ASSUME NEW n \in DOMAIN group[i].paths
        PROVE  LET ing == group[i]
                   p   == ing.paths[n]
                   l   == p.listener
                   b   == p.backendSet
               IN  /\ state.listenerProtocol[l] = ing.protocol
                   /\ state.listenerDefaultBs[l] = DefaultBsOf(ing, p)
                   /\ ing.idleTimeout \in {Unset, state.listenerIdleTimeout[l]}
                   /\ ListenerArtifacts(ing, p) \subseteq state.listenerTLS[l]
                   /\ state.listenerTLS[l] # {} =>
                        PolicyHonoured(ing.listenerTLSPolicy, state.listenerTLSPolicy[l])
                   /\ state.bsPolicy[b] = PolicyOf(ing)
                   /\ IF ing.backendTLS THEN ArtifactOf(ing, p) \in {Unset, state.bsTLS[b]}
                      ELSE state.bsTLS[b] = Unset
                   /\ state.bsTLS[b] # Unset =>
                        PolicyHonoured(ing.bsTLSPolicy, state.bsTLSPolicy[b])
    <3>1. PICK ing, p : ing = group[i] /\ p = PathOf(i, n)
      OBVIOUS
    <3>2. ListenerHolds(ing, p) /\ BackendSetHolds(ing, p)
      BY <1>1, <2>1, <3>1, AllMerged DEF HoldsInv
    <3>3. p.listener \in Listener /\ p.backendSet \in BackendSet /\ ing.backendTLS \in BOOLEAN
      BY <2>1, <3>1, GroupFacts
    <3>4. state.listenerTLS[p.listener] # {} =>
            PolicyHonoured(ing.listenerTLSPolicy, state.listenerTLSPolicy[p.listener])
      <4> SUFFICES ASSUME state.listenerTLS[p.listener] # {}, ing.listenerTLSPolicy # Unset
                   PROVE  PolicyHonoured(ing.listenerTLSPolicy, state.listenerTLSPolicy[p.listener])
        BY DEF PolicyHonoured
      <4>1. ing.listenerTLSPolicy \in ListenerCandidates(p.listener)
        BY <3>1 DEF ListenerCandidates, ServedBy, PathOf
      <4>2. /\ Mergeable(ListenerCandidates(p.listener)) /\ IsFiniteSet(ListenerCandidates(p.listener))
            /\ state.listenerTLSPolicy[p.listener] = MergedPolicy(ListenerCandidates(p.listener))
        BY <2>1, <3>3, CandidateFacts DEF BuiltInv
      <4> QED BY <4>1, <4>2, PolicyIsHonoured
    <3>5. state.bsTLS[p.backendSet] # Unset =>
            PolicyHonoured(ing.bsTLSPolicy, state.bsTLSPolicy[p.backendSet])
      <4> SUFFICES ASSUME state.bsTLS[p.backendSet] # Unset, ing.bsTLSPolicy # Unset
                   PROVE  PolicyHonoured(ing.bsTLSPolicy, state.bsTLSPolicy[p.backendSet])
        BY DEF PolicyHonoured
      <4>1. ing.bsTLSPolicy \in BackendSetCandidates(p.backendSet)
        BY <3>1 DEF BackendSetCandidates, BackedBy, PathOf
      <4>2. /\ Mergeable(BackendSetCandidates(p.backendSet)) /\ IsFiniteSet(BackendSetCandidates(p.backendSet))
            /\ state.bsTLSPolicy[p.backendSet] = MergedPolicy(BackendSetCandidates(p.backendSet))
        BY <2>1, <3>3, CandidateFacts DEF BuiltInv
      <4> QED BY <4>1, <4>2, PolicyIsHonoured
    <3>6. IF ing.backendTLS THEN ArtifactOf(ing, p) \in {Unset, state.bsTLS[p.backendSet]}
          ELSE state.bsTLS[p.backendSet] = Unset
      BY <2>1, <3>2, <3>3 DEF TLSInv, BackendSetHolds
    <3>7. p = group[i].paths[n] /\ ing = group[i]
      BY <3>1 DEF PathOf
    <3> QED BY <3>2, <3>4, <3>5, <3>6, <3>7 DEF ListenerHolds, BackendSetHolds
  <2> QED BY <2>2, <2>3
<1> QED BY <1>1, Invariance, PTL

\* A build is refused only if one Ingress is at fault by itself, or two disagree:
\* what a later path is compared with is always some Ingress's own declaration,
\* or the default that stands for one left open.
THEOREM RefusalsHaveReasons == Spec => []RefusedForAReason
<1>1. IInv => RefusedForAReason
  BY DEF IInv
<1> QED BY <1>1, Invariance, PTL

\* The state that is built has exactly the listeners and backend sets the paths
\* name, and what a listener reaches is among them.
THEOREM BuiltIsClosed == Spec => []NamesClosed
<1>1. ASSUME IInv PROVE NamesClosed
  <2> SUFFICES ASSUME outcome = "built"
               PROVE  /\ state.listeners = {l \in Listener : \E i \in DOMAIN group : ServedBy(i, l)}
                      /\ state.backendSets =
                           {b \in BackendSet : \E i \in DOMAIN group : BackedBy(i, b)} \cup {DefaultIngress}
                      /\ \A l \in state.listeners :
                           /\ state.listenerDefaultBs[l] \in state.listenerBackendSets[l]
                           /\ state.listenerBackendSets[l] \subseteq state.backendSets
                           /\ \A i \in DOMAIN group : \A n \in DOMAIN group[i].paths :
                                group[i].paths[n].listener = l =>
                                  group[i].paths[n].backendSet \in state.listenerBackendSets[l]
    BY DEF NamesClosed
  <2>1. TypeOK /\ HoldsInv /\ SourcedInv /\ ReachInv
    BY <1>1 DEF IInv
  <2>2. \A i \in DOMAIN group : \A n \in DOMAIN group[i].paths :
          ListenerHolds(group[i], group[i].paths[n]) /\ BackendSetHolds(group[i], group[i].paths[n])
    BY <1>1, <2>1, AllMerged DEF HoldsInv, PathOf
  <2>3. state.listeners = {l \in Listener : \E i \in DOMAIN group : ServedBy(i, l)}
    <3>1. \A l \in state.listeners : l \in Listener /\ \E i \in DOMAIN group : ServedBy(i, l)
      BY <2>1 DEF TypeOK, SourcedInv, ListenerSourced, ServedBy, PathOf
    <3>2. \A l \in Listener : (\E i \in DOMAIN group : ServedBy(i, l)) => l \in state.listeners
      BY <2>2 DEF ServedBy, ListenerHolds
    <3> QED BY <3>1, <3>2
  <2>4. state.backendSets = {b \in BackendSet : \E i \in DOMAIN group : BackedBy(i, b)} \cup {DefaultIngress}
    <3>1. \A b \in state.backendSets :
            b = DefaultIngress \/ (b \in BackendSet /\ \E i \in DOMAIN group : BackedBy(i, b))
      BY <2>1 DEF TypeOK, AllBackendSets, SourcedInv, BackendSetSourced, BackedBy, PathOf
    <3>2. \A b \in BackendSet : (\E i \in DOMAIN group : BackedBy(i, b)) => b \in state.backendSets
      BY <2>2 DEF BackedBy, BackendSetHolds
    <3>3. DefaultIngress \in state.backendSets
      BY <2>1 DEF TypeOK
    <3> QED BY <3>1, <3>2, <3>3
  <2>5. ASSUME NEW l \in state.listeners
        PROVE  /\ state.listenerDefaultBs[l] \in state.listenerBackendSets[l]
               /\ state.listenerBackendSets[l] \subseteq state.backendSets
    <3>1. PICK i \in DOMAIN group : \E n \in DOMAIN group[i].paths : group[i].paths[n].listener = l
      BY <2>3 DEF ServedBy
    <3>2. PICK n \in DOMAIN group[i].paths : group[i].paths[n].listener = l
      BY <3>1
    <3>3. /\ state.listenerDefaultBs[l] = DefaultBsOf(group[i], group[i].paths[n])
          /\ Reached(group[i], group[i].paths[n]) \subseteq state.listenerBackendSets[l]
      BY <2>2, <3>2 DEF ListenerHolds
    <3> QED BY <2>1, <2>3, <3>3 DEF Reached, ReachInv
  <2>6. \A i \in DOMAIN group : \A n \in DOMAIN group[i].paths :
          group[i].paths[n].backendSet \in state.listenerBackendSets[group[i].paths[n].listener]
    BY <2>2 DEF ListenerHolds, Reached
  <2> QED BY <2>3, <2>4, <2>5, <2>6
<1> QED BY <1>1, Invariance, PTL

\* The cookie of a backend set is the first load balancer cookie its Ingresses
\* ask for, else the first cookie, in the order of their names.
THEOREM CookiesDecided == Spec => []CookieDecided
<1>1. ASSUME IInv PROVE CookieDecided
  <2> SUFFICES ASSUME outcome = "built", NEW b \in BackendSet
               PROVE  LET asking == {i \in DOMAIN group : BackedBy(i, b) /\ group[i].persistence # Unset}
                          lb     == {i \in asking : group[i].persistence.kind = "lb"}
                          voters == IF lb # {} THEN lb ELSE asking
                      IN  IF voters = {} THEN state.bsPersistence[b] = Unset
                          ELSE \E i \in voters : /\ \A j \in voters : i <= j
                                                 /\ state.bsPersistence[b] = group[i].persistence
    BY DEF CookieDecided
  <2>1. Asking(b) = {i \in DOMAIN group : BackedBy(i, b) /\ group[i].persistence # Unset}
    BY <1>1, AllMerged DEF Asking, BackedBy, PathOf
  <2>2. IF Voters(b) = {} THEN state.bsPersistence[b] = Unset
        ELSE \E i \in Voters(b) : /\ \A j \in Voters(b) : i <= j
                                  /\ state.bsPersistence[b] = group[i].persistence
    BY <1>1 DEF IInv, CookieInv
  <2> QED BY <2>1, <2>2 DEF Voters, LbAsking
<1> QED BY <1>1, Invariance, PTL
=============================================================================
