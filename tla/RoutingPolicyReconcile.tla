----------------------- MODULE RoutingPolicyReconcile -----------------------
(***************************************************************************)
(* The routing policy controller's sync of one ingress class               *)
(* (pkg/controllers/routingpolicy/routingpolicy.go: ensureRoutingRules):   *)
(* first a policy for every listener the Ingresses want, in the three      *)
(* calls of EnsureRoutingPolicy, then the removal of the policies they do  *)
(* not want. runPusher starts it again every ten seconds, whether or not   *)
(* anything has changed; its key is held by one worker at a time.          *)
(***************************************************************************)
EXTENDS IngressGroup

CONSTANT RoutingWorker   \* the worker that holds the class's key

VARIABLES
  rpc,     \* where the sync is
  rbuilt,  \* the paths found at its start, until the last set is computed from them
  rtodo,   \* the listeners the current loop has left
  rnow,    \* the listener of the current turn, Absent between turns
  doubted  \* history: listeners whose policy was taken to be there, or not to be
           \* in use, and was not so, or was deleted by a late request; and not
           \* created or found since

routingVars == <<rpc, rbuilt, rtodo, rnow, doubted>>

RoutingPolicyInit ==
  /\ rpc = "idle"
  /\ rbuilt = {}
  /\ rtodo = {}
  /\ rnow = Absent
  /\ doubted = {}

\* processRoutingPolicy.
Start ==
  /\ rpc = "idle"
  /\ rpc' = "ensure"
  /\ rbuilt' = AllPaths(BuildState)
  /\ rtodo' = AllListeners(BuildState)
  /\ rnow' = Absent
  /\ UNCHANGED <<clientVars, ingresses, doubted>>

-----------------------------------------------------------------------------
(* The loop over the listeners.                                              *)

RoutingCall(kind, l) == [kind |-> kind, name |-> l, value |-> RulesFor(rbuilt, l)]

Made(call) == Succeeds(RoutingWorker, call)

\* What is known of the policy of listener l after a call that is to create it.
Known(l, there) == doubted' = IF l \in there THEN doubted \ {l} ELSE doubted \cup {l}

\* Mutant: a policy that is there is taken to be attached.
CreatePolicyOnly(l) ==
  /\ rpc = "ensure" /\ l \in rtodo
  /\ Made(RoutingCall("CreateRoutingPolicy", l))
  /\ Known(l, PoliciesIn(document'))
  /\ rpc' = IF l \in PoliciesIn(cache) THEN "rules" ELSE "attach"
  /\ rnow' = l /\ rtodo' = rtodo \ {l}
  /\ UNCHANGED <<ingresses, rbuilt>>

CreatePolicy(l) ==
  /\ rpc = "ensure" /\ l \in rtodo
  /\ Made(RoutingCall("CreateRoutingPolicy", l))
  /\ Known(l, PoliciesIn(document'))
  /\ rpc' = "attach" /\ rnow' = l /\ rtodo' = rtodo \ {l}
  /\ UNCHANGED <<ingresses, rbuilt>>

\* A 409 from a load balancer busy with another request: "may be already
\* present", and the policy is attached and updated, whether or not it is.
PolicyTakenAsDone(l) ==
  /\ rpc = "ensure" /\ l \in rtodo
  /\ l \notin PoliciesIn(cache)
  /\ Known(l, PoliciesIn(document))
  /\ rpc' = "attach" /\ rnow' = l /\ rtodo' = rtodo \ {l}
  /\ UNCHANGED <<clientVars, ingresses, rbuilt>>

AttachPolicy ==
  /\ rpc = "attach" /\ Made(RoutingCall("SetRoutingPolicy", rnow))
  /\ rpc' = "rules"
  /\ UNCHANGED <<ingresses, rbuilt, rtodo, rnow, doubted>>

UpdateRules ==
  /\ rpc = "rules" /\ Made(RoutingCall("UpdateRoutingPolicyRules", rnow))
  /\ rpc' = "ensure" /\ rnow' = Absent
  /\ UNCHANGED <<ingresses, rbuilt, rtodo, doubted>>

EnsureRefused(l) ==
  \/ rpc = "ensure" /\ l \in rtodo /\ Refuses(RoutingCall("CreateRoutingPolicy", l))
  \/ rpc = "attach" /\ l = rnow /\ Refuses(RoutingCall("SetRoutingPolicy", l))
  \/ rpc = "rules" /\ l = rnow /\ Refuses(RoutingCall("UpdateRoutingPolicyRules", l))

\* The sync ends.
GiveUp ==
  /\ rpc' = "idle" /\ rnow' = Absent /\ rtodo' = {}
  /\ rbuilt' = {}

\* Mutant: the first listener that cannot be done ends the sync.
EnsureFailsStops(l) ==
  /\ EnsureRefused(l)
  /\ GiveUp
  /\ UNCHANGED <<clientVars, ingresses, doubted>>

\* "We purposefully only log here then return an error at the end, so we can
\* attempt to sync all listeners."
EnsureFails(l) ==
  /\ EnsureRefused(l)
  /\ rpc' = "ensure" /\ rnow' = Absent /\ rtodo' = rtodo \ {l}
  /\ UNCHANGED <<clientVars, ingresses, rbuilt, doubted>>

-----------------------------------------------------------------------------
(* The removal of the others.                                                *)

ListPolicies ==
  /\ rpc = "ensure" /\ rtodo = {}
  /\ rpc' = "remove"
  /\ rtodo' = PoliciesIn(cache) \ PathListeners(rbuilt)
  /\ rbuilt' = {}
  /\ UNCHANGED <<clientVars, ingresses, rnow, doubted>>

\* Mutant: the policy goes with its listener still using it.
DetachSkipped(l) ==
  /\ rpc = "remove" /\ l \in rtodo
  /\ rpc' = "delete" /\ rnow' = l /\ rtodo' = rtodo \ {l}
  /\ UNCHANGED <<clientVars, ingresses, rbuilt, doubted>>

DetachCall(l) == [kind |-> "DetachRoutingPolicy", name |-> l, value |-> Absent]

\* A listener the cached document does not show is not asked about.
Detach(l) ==
  /\ rpc = "remove" /\ l \in rtodo
  /\ Made(DetachCall(l))
  /\ doubted' = IF l \in ListenersIn(document) \ ListenersIn(cache) THEN doubted \cup {l} ELSE doubted
  /\ rpc' = "delete" /\ rnow' = l /\ rtodo' = rtodo \ {l}
  /\ UNCHANGED <<ingresses, rbuilt>>

DeleteCall(l) == [kind |-> "DeleteRoutingPolicy", name |-> l, value |-> Absent]

DeletePolicy ==
  /\ rpc = "delete"
  /\ Made(DeleteCall(rnow))
  /\ rpc' = "remove" /\ rnow' = Absent
  /\ UNCHANGED <<ingresses, rbuilt, rtodo, doubted>>

\* The listener to detach from is not as the cached document shows it.
RemoveFails ==
  /\ rpc = "remove" /\ \E l \in rtodo : Refuses(DetachCall(l))
  /\ GiveUp
  /\ UNCHANGED <<clientVars, ingresses, doubted>>

\* The calls of which the next one may be made.
RoutingInHand ==
  CASE rpc = "ensure" -> {RoutingCall("CreateRoutingPolicy", l) : l \in rtodo}
    [] rpc = "attach" -> {RoutingCall("SetRoutingPolicy", rnow)}
    [] rpc = "rules"  -> {RoutingCall("UpdateRoutingPolicyRules", rnow)}
    [] rpc = "remove" -> {DetachCall(l) : l \in rtodo}
    [] rpc = "delete" -> {DeleteCall(rnow)}
    [] OTHER          -> {}

\* A failure of the service or the lister, or a call that takes too long: within
\* EnsureRoutingPolicy the next listener is tried, elsewhere the sync ends.
RoutingError ==
  /\ \/ UNCHANGED late
     \/ \E call \in RoutingInHand : Abandoned(call)
  /\ \/ /\ rpc = "ensure" /\ \E l \in rtodo : rtodo' = rtodo \ {l}
        /\ UNCHANGED <<rpc, rbuilt, rnow>>
     \/ /\ rpc \in {"attach", "rules"}
        /\ rpc' = "ensure" /\ rnow' = Absent
        /\ UNCHANGED <<rbuilt, rtodo>>
     \/ /\ rpc \in {"remove", "delete"} \/ (rpc = "ensure" /\ rtodo = {})
        /\ GiveUp
  /\ UNCHANGED <<document, cache, slow, waiting, ingresses, doubted>>

Stop ==
  /\ rpc = "remove" /\ rtodo = {}
  /\ rpc' = "idle"
  /\ UNCHANGED <<clientVars, ingresses, rbuilt, rtodo, rnow, doubted>>

RestartRouting == GiveUp /\ UNCHANGED doubted

LateRouting(call) ==
  /\ doubted' = IF call.kind = "DeleteRoutingPolicy" THEN doubted \cup {call.name} ELSE doubted
  /\ UNCHANGED <<rpc, rbuilt, rtodo, rnow>>

-----------------------------------------------------------------------------

RoutingStep ==
  /\ RoutingWorker \notin waiting
  /\ \/ Start \/ AttachPolicy \/ UpdateRules \/ ListPolicies
     \/ DeletePolicy \/ RemoveFails \/ Stop
     \/ \E l \in Listener : CreatePolicy(l) \/ EnsureFails(l) \/ Detach(l)

RoutingPolicyTypeOK ==
  /\ rpc \in {"idle", "ensure", "attach", "rules", "remove", "delete"}
  /\ rbuilt \subseteq Path
  /\ rtodo \subseteq Listener /\ rnow \in Listener \cup {Absent}
  /\ doubted \subseteq Listener
=============================================================================
