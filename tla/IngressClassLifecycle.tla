----------------------- MODULE IngressClassLifecycle ------------------------
(***************************************************************************)
(* The ingress class controller: the load balancer of one IngressClass is  *)
(* created, recorded in the class's annotations, kept at the settings the  *)
(* class asks for and deleted (or cleared) with the class.                 *)
(*                                                                         *)
(*   class   the IngressClass at the API server                            *)
(*   shape   the bandwidth in its IngressClassParameters                   *)
(*   listed  the lister's copy of the class, which may lag behind          *)
(*   lbs     the load balancers at the service                             *)
(*   token   the load balancer that the retry token of this class's UID    *)
(*           gives back instead of creating another one                    *)
(*   cache   the load balancer client's copies (one that is older than a   *)
(*           minute is no better than none and is left out)                *)
(*   sync    what the worker that has the class's key is about to do:      *)
(*           `class` is the copy it works on all along, `current` whether  *)
(*           its resource version is still that of the class, `lb` and     *)
(*           `seen` the load balancer in hand and the last document read   *)
(*                                                                         *)
(* One key is never in two workers' hands (ControllerQueue), so one sync   *)
(* runs at a time. A call of the load balancer client is one step here;    *)
(* LoadBalancerClient takes them apart. Defined tags stand for all that    *)
(* UpdateLoadBalancer sets (name, free-form tags, security attributes).    *)
(***************************************************************************)
EXTENDS WebAppFirewall

CONSTANTS Tag, DefaultTags,  \* the service adds DefaultTags to what it creates
          Shape, Nsg,
          NoCopy,
          Starts,            \* bound: what the class and its load balancer are at first
          MaxEdits,          \* changes by users, of the class or at the service
          MaxFaults          \* failed calls, crashes and updates by others

\* An annotation with tags: none, or the one set of tags it has. A tag is a
\* (namespace, key) pair without its case; values play no part.
Annotation == {{}} \cup {{tags} : tags \in SUBSET Tag}

ASSUME LifecycleAssumption ==
  /\ DefaultTags \subseteq Tag /\ Shape # {}
  /\ Starts \subseteq [imported : BOOLEAN, defined : Annotation, nsgs : SUBSET Nsg,
                       policy : Policy \cup {NoPolicy}]
  /\ MaxEdits \in Nat /\ MaxFaults \in Nat

VARIABLES class, shape, listed, lbs, token, cache, sync,
          edits, faults,
          claimed,   \* history: tags some user has taken charge of
          asked,     \* history: load balancers whose deletion was answered
          bare,      \* history: a version of the class that is being deleted was
                     \* without delete protection
          adrift,    \* history: firewalls that a failed step left unknown to the class
          panicked   \* history: a nil document was dereferenced

apiVars     == <<class, shape, listed>>
serviceVars == <<lbs, token, firewallVars>>
boundVars   == <<edits, faults>>
historyVars == <<claimed, asked, bare, adrift, panicked>>
vars == <<apiVars, serviceVars, cache, sync, boundVars, historyVars>>

Class == [phase : {"live", "deleting", "gone"}, finalizer : BOOLEAN,
          id : LbId \cup {NoLb}, defined : Annotation, defaults : Annotation,
          nsgs : SUBSET Nsg, protect : BOOLEAN,
          policy : Policy \cup {NoPolicy}, firewall : FirewallId \cup {NoFirewall}]

LoadBalancer == [state : {"none", "active", "deleted", "lost"},
                 owner : {"controller", "user"},
                 tags : SUBSET Tag, shape : Shape, nsgs : SUBSET Nsg,
                 defaultSet : BOOLEAN]

Unborn == [state |-> "none", owner |-> "controller", tags |-> {},
           shape |-> CHOOSE s \in Shape : TRUE, nsgs |-> {}, defaultSet |-> FALSE]

\* A document read, and whether its ETag is still that of the load balancer.
Copy == [tags : SUBSET Tag, shape : Shape, nsgs : SUBSET Nsg, current : BOOLEAN]

CopyOf(lb) == [tags |-> lb.tags, shape |-> lb.shape, nsgs |-> lb.nsgs, current |-> TRUE]

Idle == [at |-> "idle"]

Active(l) == l \in LbId /\ lbs[l].state = "active"

\* The class is new, or names a load balancer that its user has created and wants
\* to keep. The bandwidth asked for is that of an imported load balancer.
Init ==
  /\ \E start \in Starts :
       /\ class = [phase |-> "live", finalizer |-> FALSE,
                   id |-> IF start.imported THEN 1 ELSE NoLb,
                   defined |-> start.defined, defaults |-> {},
                   nsgs |-> start.nsgs, protect |-> start.imported,
                   policy |-> start.policy, firewall |-> NoFirewall]
       /\ lbs = [l \in LbId |-> IF start.imported /\ l = 1
                                  THEN [Unborn EXCEPT !.state = "active", !.owner = "user",
                                                      !.tags = Tag \ DefaultTags]
                                  ELSE Unborn]
       /\ claimed = UNION start.defined
  /\ FirewallInit
  /\ shape = Unborn.shape
  /\ listed = [copy |-> class, current |-> TRUE]
  /\ token = NoLb
  /\ cache = [l \in LbId |-> NoCopy]
  /\ sync = Idle
  /\ edits = MaxEdits /\ faults = MaxFaults
  /\ asked = {} /\ bare = FALSE /\ adrift = {} /\ panicked = FALSE

-----------------------------------------------------------------------------
(* Which tags the load balancer should have (util.go of the controller).     *)

Supplied(c) == UNION c.defined
Recorded(c) == UNION c.defaults

\* An older controller, or an imported load balancer: all its tags are kept.
Untracked(c) == c.defined = {} /\ c.defaults = {}

NewDefaults(tags, c) ==
  IF Untracked(c) THEN tags ELSE (tags \cap Recorded(c)) \ Supplied(c)

NewTags(tags, c) ==
  IF Untracked(c) THEN tags ELSE NewDefaults(tags, c) \cup Supplied(c)

-----------------------------------------------------------------------------
(* Calls.                                                                    *)

Goto(place) == [sync EXCEPT !.at = place]

\* A patch of the class by name, without a resource version.
Patch(c) ==
  /\ class' = c
  /\ listed' = [listed EXCEPT !.current = FALSE]
  /\ UNCHANGED shape

\* Others hold documents that are out of date once l has changed.
Outdated(l) == [cache EXCEPT ![l] = IF @ = NoCopy THEN @ ELSE [@ EXCEPT !.current = FALSE]]

\* GetLoadBalancer: the cached copy, or the service's answer.
Readable(l) == Active(l) \/ (l \in LbId /\ cache[l] # NoCopy)
Document(l) == IF cache[l] # NoCopy THEN cache[l] ELSE CopyOf(lbs[l])
Cached(l)   == [cache EXCEPT ![l] = Document(l)]

\* The ETag that UpdateLoadBalancer and UpdateNetworkSecurityGroups send is that
\* of a read of their own.
OwnMatch(l) == IF cache[l] = NoCopy THEN TRUE ELSE cache[l].current

\* A call that makes l the load balancer lb: it succeeds, or its work request is
\* given up although it is carried out later, or it is refused.
Call(l, lb, matches, next, onError) ==
  /\ \/ /\ Active(l) /\ matches
        /\ lbs' = [lbs EXCEPT ![l] = lb]
        /\ cache' = [cache EXCEPT ![l] = CopyOf(lb)]
        /\ sync' = next
        /\ UNCHANGED faults
     \/ /\ Active(l) /\ matches
        /\ faults > 0 /\ faults' = faults - 1
        /\ lbs' = [lbs EXCEPT ![l] = lb]
        /\ cache' = Outdated(l)
        /\ sync' = onError
     \/ /\ ~(Active(l) /\ matches)
        /\ sync' = onError
        /\ UNCHANGED <<lbs, cache, faults>>
  /\ UNCHANGED <<apiVars, token, firewallVars, edits, historyVars>>

\* A nil dereference ends the process; the next one lists the class anew.
Restart ==
  /\ sync' = Idle
  /\ cache' = [l \in LbId |-> NoCopy]
  /\ listed' = [copy |-> class, current |-> TRUE]
  /\ recent' = {}
  /\ UNCHANGED <<class, shape, lbs, token, firewalls>>

Panic(l) ==
  /\ ~Readable(l)
  /\ Restart
  /\ panicked' = TRUE
  /\ UNCHANGED <<boundVars, claimed, asked, bare, adrift>>

-----------------------------------------------------------------------------
(* A sync: sync, ensureFinalizer, ensureLoadBalancer.                        *)

\* Mutant: nothing holds the class while its load balancer is set up.
TakeSkipsFinalizer ==
  /\ sync.at = "idle"
  /\ listed.copy.phase # "gone"
  /\ sync' = [at |-> IF listed.copy.phase = "deleting" THEN "delete" ELSE "ensure",
              class |-> listed.copy, current |-> listed.current,
              shape |-> shape, lb |-> NoLb, seen |-> NoCopy, made |-> NoFirewall]
  /\ UNCHANGED <<apiVars, serviceVars, cache, boundVars, historyVars>>

Take ==
  /\ sync.at = "idle"
  /\ listed.copy.phase # "gone"
  /\ sync' = [at |-> CASE listed.copy.phase = "deleting" -> "delete"
                       [] listed.copy.phase = "live" /\ ~listed.copy.finalizer -> "finalizer"
                       [] OTHER -> "ensure",
              class |-> listed.copy, current |-> listed.current,
              shape |-> shape, lb |-> NoLb, seen |-> NoCopy, made |-> NoFirewall]
  /\ UNCHANGED <<apiVars, serviceVars, cache, boundVars, historyVars>>

\* The patch carries the resource version of the copy, on each retry the same.
EnsureFinalizer ==
  /\ sync.at = "finalizer"
  /\ IF sync.current
       THEN /\ Patch([class EXCEPT !.finalizer = TRUE])
            /\ sync' = [sync EXCEPT !.at = "ensure", !.current = FALSE]
       ELSE sync' = Idle /\ UNCHANGED apiVars
  /\ UNCHANGED <<serviceVars, cache, boundVars, historyVars>>

\* No id, or a load balancer that is not found: create one. The parameters are
\* read from a cache of their own, here as they are.
Ensure ==
  /\ sync.at = "ensure"
  /\ LET l == sync.class.id
     IN IF Readable(l)
          THEN /\ sync' = [sync EXCEPT !.at = "check", !.lb = l, !.shape = shape]
               /\ cache' = Cached(l)
          ELSE /\ sync' = [sync EXCEPT !.at = "create", !.shape = shape]
               /\ UNCHANGED cache
  /\ UNCHANGED <<apiVars, serviceVars, boundVars, historyVars>>

Created ==
  [state |-> "active", owner |-> "controller", tags |-> Supplied(sync.class) \cup DefaultTags,
   shape |-> sync.shape, nsgs |-> sync.class.nsgs, defaultSet |-> TRUE]

\* The create request is answered with load balancer l, or the answer is lost.
Answer(l, place) ==
  \/ /\ cache' = [cache EXCEPT ![l] = CopyOf(lbs'[l])]
     /\ sync' = [sync EXCEPT !.at = place, !.lb = l, !.seen = CopyOf(lbs'[l])]
     /\ UNCHANGED faults
  \/ /\ faults > 0 /\ faults' = faults - 1
     /\ sync' = Idle
     /\ UNCHANGED cache

NextLb(l) == lbs[l].state = "none" /\ \A k \in LbId : k < l => lbs[k].state # "none"

\* Mutants: no retry token is sent; the default tags are not filled in.
CreateWithoutToken ==
  /\ sync.at = "create"
  /\ \E l \in LbId :
       /\ NextLb(l)
       /\ lbs' = [lbs EXCEPT ![l] = Created]
       /\ UNCHANGED token
       /\ Answer(l, "backfill")
  /\ UNCHANGED <<apiVars, firewallVars, edits, historyVars>>
CreateSkipsBackfill ==
  /\ sync.at = "create"
  /\ \/ /\ token = NoLb
        /\ \E l \in LbId :
             /\ NextLb(l)
             /\ lbs' = [lbs EXCEPT ![l] = Created]
             /\ token' = l
             /\ Answer(l, "annotate")
     \/ /\ Active(token)
        /\ UNCHANGED <<lbs, token>>
        /\ Answer(token, "annotate")
     \/ /\ token # NoLb /\ ~Active(token)
        /\ sync' = Idle
        /\ UNCHANGED <<lbs, token, cache, faults>>
  /\ UNCHANGED <<apiVars, firewallVars, edits, historyVars>>

\* The token of the UID gives back what was created for it, whatever details the
\* request has, and a request for what is gone is rejected.
Create ==
  /\ sync.at = "create"
  /\ \/ /\ token = NoLb
        /\ \E l \in LbId :
             /\ NextLb(l)
             /\ lbs' = [lbs EXCEPT ![l] = Created]
             /\ token' = l
             /\ Answer(l, "backfill")
     \/ /\ Active(token)
        /\ UNCHANGED <<lbs, token>>
        /\ Answer(token, "backfill")
     \/ /\ token # NoLb /\ ~Active(token)
        /\ sync' = Idle
        /\ UNCHANGED <<lbs, token, cache, faults>>
  /\ UNCHANGED <<apiVars, firewallVars, edits, historyVars>>

\* getImplicitDefaultTagsForNewLoadBalancer, before the id is recorded.
Backfill ==
  /\ sync.at = "backfill"
  /\ Patch([class EXCEPT !.defaults = {sync.seen.tags \ Supplied(sync.class)}])
  /\ sync' = [sync EXCEPT !.at = "annotate", !.seen = NoCopy, !.current = FALSE]
  /\ UNCHANGED <<serviceVars, cache, boundVars, historyVars>>

Annotate ==
  /\ sync.at = "annotate"
  /\ Patch([class EXCEPT !.id = sync.lb])
  /\ sync' = [sync EXCEPT !.at = "firewall", !.seen = NoCopy, !.current = FALSE]
  /\ UNCHANGED <<serviceVars, cache, boundVars, historyVars>>

\* checkForIngressClassParameterUpdates: a second read, used without a check.
Check ==
  /\ sync.at = "check"
  /\ IF Readable(sync.lb)
       THEN /\ cache' = Cached(sync.lb)
            /\ LET seen == Document(sync.lb)
               IN sync' = [sync EXCEPT
                             !.seen = seen,
                             !.at = CASE seen.tags # NewTags(seen.tags, sync.class) -> "tags"
                                      [] sync.class.defaults # {NewDefaults(seen.tags, sync.class)} -> "defaults"
                                      [] OTHER -> "refresh"]
            /\ UNCHANGED <<apiVars, recent, boundVars, historyVars>>
       ELSE Panic(sync.lb)
  /\ UNCHANGED <<class, shape, lbs, token, firewalls>>

UpdateTags ==
  /\ sync.at = "tags"
  /\ Call(sync.lb, [lbs[sync.lb] EXCEPT !.tags = NewTags(sync.seen.tags, sync.class)],
          OwnMatch(sync.lb),
          Goto(IF sync.class.defaults # {NewDefaults(sync.seen.tags, sync.class)}
                 THEN "defaults" ELSE "refresh"),
          Idle)

UpdateDefaults ==
  /\ sync.at = "defaults"
  /\ Patch([class EXCEPT !.defaults = {NewDefaults(sync.seen.tags, sync.class)}])
  /\ sync' = [sync EXCEPT !.at = "refresh", !.current = FALSE]
  /\ UNCHANGED <<serviceVars, cache, boundVars, historyVars>>

\* A third read, used without a check.
Refresh ==
  /\ sync.at = "refresh"
  /\ IF Readable(sync.lb)
       THEN /\ cache' = Cached(sync.lb)
            /\ sync' = [sync EXCEPT
                          !.seen = Document(sync.lb),
                          !.at = IF Document(sync.lb).shape # sync.shape THEN "shape" ELSE "nsgs"]
            /\ UNCHANGED <<apiVars, recent, boundVars, historyVars>>
       ELSE Panic(sync.lb)
  /\ UNCHANGED <<class, shape, lbs, token, firewalls>>

\* With the ETag of the third read.
UpdateShape ==
  /\ sync.at = "shape"
  /\ Call(sync.lb, [lbs[sync.lb] EXCEPT !.shape = sync.shape], sync.seen.current,
          Goto("nsgs"), Idle)

\* Mutant: a class that names no group is left alone.
CheckNsgsOnlyGiven ==
  /\ sync.at = "nsgs"
  /\ IF Readable(sync.lb)
       THEN /\ cache' = Cached(sync.lb)
            /\ sync' = Goto(IF sync.class.nsgs \in {{}, Document(sync.lb).nsgs}
                              THEN "firewall" ELSE "updateNsgs")
            /\ UNCHANGED <<apiVars, recent, boundVars, historyVars>>
       ELSE Panic(sync.lb)
  /\ UNCHANGED <<class, shape, lbs, token, firewalls>>

\* checkForNetworkSecurityGroupsUpdate: a fourth read.
CheckNsgs ==
  /\ sync.at = "nsgs"
  /\ IF Readable(sync.lb)
       THEN /\ cache' = Cached(sync.lb)
            /\ sync' = Goto(IF Document(sync.lb).nsgs = sync.class.nsgs
                              THEN "firewall" ELSE "updateNsgs")
            /\ UNCHANGED <<apiVars, recent, boundVars, historyVars>>
       ELSE Panic(sync.lb)
  /\ UNCHANGED <<class, shape, lbs, token, firewalls>>

UpdateNsgs ==
  /\ sync.at = "updateNsgs"
  /\ Call(sync.lb, [lbs[sync.lb] EXCEPT !.nsgs = sync.class.nsgs], OwnMatch(sync.lb),
          Goto("firewall"), Idle)

\* setupWebApplicationFirewall, GetFireWallId: what there is to do about the firewall
\* that the copy of the class names. If its policy cannot be read a firewall is made.
SetupFirewall ==
  /\ sync.at = "firewall"
  /\ LET f == sync.class.firewall
         policy == sync.class.policy
     IN \/ /\ policy = NoPolicy
           /\ sync' = IF f = NoFirewall THEN Idle ELSE Goto("dropFirewall")
           /\ UNCHANGED <<recent, faults>>
        \/ /\ policy # NoPolicy /\ FirewallReadable(f)
           /\ sync' = IF firewalls[f].policy = policy THEN Idle ELSE Goto("makeFirewall")
           /\ ReadPolicy(f)
           /\ UNCHANGED faults
        \/ /\ policy # NoPolicy /\ ~FirewallReadable(f)
           /\ sync' = Goto("makeFirewall")
           /\ UNCHANGED <<recent, faults>>
        \/ /\ policy # NoPolicy /\ There(f) /\ f \notin recent
           /\ faults > 0 /\ faults' = faults - 1
           /\ sync' = Goto("makeFirewall")
           /\ UNCHANGED recent
  /\ UNCHANGED <<apiVars, lbs, token, firewalls, cache, edits, historyVars>>

\* The conflict that a load balancer with a firewall gives is an error of the
\* sync: apierrors.IsConflict does not know the service's errors.
MakeFirewall ==
  /\ sync.at = "makeFirewall"
  /\ \/ \E f \in FirewallId :
           /\ Active(sync.lb) /\ Make(f, sync.lb, sync.class.policy)
           /\ \/ /\ sync' = [sync EXCEPT !.at = "recordFirewall", !.made = f]
                 /\ UNCHANGED <<faults, adrift>>
              \/ /\ faults > 0 /\ faults' = faults - 1
                 /\ sync' = Idle
                 /\ adrift' = adrift \cup {f}
     \/ /\ ~Active(sync.lb) \/ Protected(sync.lb)
        /\ sync' = Idle
        /\ UNCHANGED <<firewallVars, faults, adrift>>
  /\ UNCHANGED <<apiVars, lbs, token, cache, edits, claimed, asked, bare, panicked>>

RecordFirewall ==
  /\ sync.at = "recordFirewall"
  /\ Patch([class EXCEPT !.firewall = sync.made])
  /\ sync' = Idle
  /\ UNCHANGED <<serviceVars, cache, boundVars, historyVars>>

\* The error of a deletion is logged, and the annotation goes all the same.
DropFirewall ==
  /\ sync.at = "dropFirewall"
  /\ \/ Remove(sync.class.firewall) /\ UNCHANGED <<faults, adrift>>
     \/ /\ faults > 0 /\ faults' = faults - 1
        /\ adrift' = adrift \cup {sync.class.firewall}
        /\ UNCHANGED firewallVars
  /\ sync' = Goto("forgetFirewall")
  /\ UNCHANGED <<apiVars, lbs, token, cache, edits, claimed, asked, bare, panicked>>

ForgetFirewall ==
  /\ sync.at = "forgetFirewall"
  /\ Patch([class EXCEPT !.firewall = NoFirewall])
  /\ sync' = Idle
  /\ UNCHANGED <<serviceVars, cache, boundVars, historyVars>>

-----------------------------------------------------------------------------
(* A sync of a class that is being deleted: deleteIngressClass.              *)

\* Mutant: delete protection is not looked at.
DeleteUnprotected ==
  /\ sync.at = "delete"
  /\ sync' = Goto(IF sync.class.id = NoLb THEN "unfinalize" ELSE "deleteLb")
  /\ UNCHANGED <<apiVars, serviceVars, cache, boundVars, historyVars>>

ClearPlace == IF sync.class.nsgs = {} THEN "clearSet" ELSE "clearNsgs"

Delete ==
  /\ sync.at = "delete"
  /\ LET l == sync.class.id
     IN \/ /\ sync.class.protect /\ Readable(l)
           /\ cache' = Cached(l)
           /\ sync' = [sync EXCEPT !.lb = l,
                         !.at = IF sync.class.firewall = NoFirewall
                                  THEN ClearPlace ELSE "clearFirewall"]
        \/ /\ sync.class.protect /\ ~Readable(l)
           /\ sync' = Goto("unfinalize") /\ UNCHANGED cache
        \/ /\ ~sync.class.protect
           /\ sync' = Goto(IF l = NoLb THEN "unfinalize" ELSE "deleteLb")
           /\ UNCHANGED cache
  /\ UNCHANGED <<apiVars, serviceVars, boundVars, historyVars>>

\* clearLoadBalancer: errors are logged, the next step is taken.
ClearFirewall ==
  /\ sync.at = "clearFirewall"
  /\ Remove(sync.class.firewall)
  /\ sync' = Goto(ClearPlace)
  /\ UNCHANGED <<apiVars, lbs, token, cache, boundVars, historyVars>>

ClearNsgs ==
  /\ sync.at = "clearNsgs"
  /\ Call(sync.lb, [lbs[sync.lb] EXCEPT !.nsgs = {}], OwnMatch(sync.lb),
          Goto("clearSet"), Goto("clearSet"))

ClearSet ==
  /\ sync.at = "clearSet"
  /\ Call(sync.lb, [lbs[sync.lb] EXCEPT !.defaultSet = FALSE], TRUE,
          Goto("clearTags"), Goto("clearTags"))

ClearTags ==
  /\ sync.at = "clearTags"
  /\ Call(sync.lb, [lbs[sync.lb] EXCEPT !.tags = {}], OwnMatch(sync.lb),
          Goto("unfinalize"), Goto("unfinalize"))

\* A 404 and a 409, which a busy load balancer answers too, are taken for done,
\* and the deletion is not waited for. removeFromCache removes nothing.
DeleteLb ==
  /\ sync.at = "deleteLb"
  /\ LET l == sync.class.id
     IN /\ asked' = asked \cup {l}
        /\ \/ /\ Active(l)
              /\ lbs' = [lbs EXCEPT ![l].state = "deleted"]
              /\ cache' = Outdated(l)
              /\ RemoveWith(l)
           \/ UNCHANGED <<lbs, cache, firewallVars>>
  /\ sync' = Goto("unfinalize")
  /\ UNCHANGED <<apiVars, token, boundVars, claimed, bare, adrift, panicked>>

\* Mutant: the patch carries no resource version.
UnfinalizeUnversioned ==
  /\ sync.at = "unfinalize"
  /\ IF class.phase = "deleting"
       THEN Patch([class EXCEPT !.phase = "gone", !.finalizer = FALSE])
       ELSE UNCHANGED apiVars
  /\ sync' = Idle
  /\ UNCHANGED <<serviceVars, cache, boundVars, historyVars>>

\* deleteFinalizer: with the resource version of the copy.
Unfinalize ==
  /\ sync.at = "unfinalize"
  /\ IF sync.current
       THEN Patch([class EXCEPT !.phase = "gone", !.finalizer = FALSE])
       ELSE UNCHANGED apiVars
  /\ sync' = Idle
  /\ UNCHANGED <<serviceVars, cache, boundVars, historyVars>>

-----------------------------------------------------------------------------
(* Failures, time and the users.                                             *)

\* A firewall that was made is not recorded.
LeaveAdrift ==
  /\ adrift' = IF sync.at = "recordFirewall" THEN adrift \cup {sync.made} ELSE adrift
  /\ UNCHANGED <<claimed, asked, bare, panicked>>

\* A call is answered with an error, which ends the sync; handleErr, the event
\* of the next change or the resync of every minute brings another.
Fail ==
  /\ faults > 0 /\ faults' = faults - 1
  /\ sync.at \notin {"idle", "dropFirewall", "clearFirewall", "clearNsgs", "clearSet", "clearTags"}
  /\ sync' = Idle
  /\ LeaveAdrift
  /\ UNCHANGED <<apiVars, serviceVars, cache, edits>>

ClearFails ==
  /\ faults > 0 /\ faults' = faults - 1
  /\ sync.at \in {"clearFirewall", "clearNsgs", "clearSet", "clearTags"}
  /\ sync' = Goto(CASE sync.at = "clearFirewall" -> ClearPlace
                    [] sync.at = "clearNsgs" -> "clearSet"
                    [] sync.at = "clearSet"  -> "clearTags"
                    [] sync.at = "clearTags" -> "unfinalize")
  /\ UNCHANGED <<apiVars, serviceVars, cache, edits, historyVars>>

Crash ==
  /\ faults > 0 /\ faults' = faults - 1
  /\ Restart
  /\ LeaveAdrift
  /\ UNCHANGED edits

CatchUp ==
  /\ ~listed.current
  /\ listed' = [copy |-> class, current |-> TRUE]
  /\ UNCHANGED <<class, shape, serviceVars, cache, sync, boundVars, historyVars>>

\* A copy is more than a minute old.
Expire(l) ==
  /\ cache[l] # NoCopy
  /\ cache' = [cache EXCEPT ![l] = NoCopy]
  /\ UNCHANGED <<apiVars, serviceVars, sync, boundVars, historyVars>>

PolicyGrowsOld(f) ==
  /\ ExpirePolicy(f)
  /\ UNCHANGED <<apiVars, lbs, token, cache, sync, boundVars, historyVars>>

\* A token lives for a day: by then syncs have recorded the load balancer.
ExpireToken ==
  /\ token # NoLb
  /\ \/ ~Active(token)
     \/ sync.at = "idle" /\ class.id = token /\ listed.copy.id = token
  /\ token' = NoLb
  /\ UNCHANGED <<apiVars, lbs, firewallVars, cache, sync, boundVars, historyVars>>

\* Annotations can be edited while the class is being deleted, too.
EditClass ==
  /\ edits > 0 /\ edits' = edits - 1
  /\ class.phase # "gone"
  /\ \/ \E defined \in Annotation \ {class.defined} :
          class' = [class EXCEPT !.defined = defined]
     \/ \E nsgs \in (SUBSET Nsg) \ {class.nsgs} : class' = [class EXCEPT !.nsgs = nsgs]
     \/ class' = [class EXCEPT !.protect = ~@]
     \/ \E policy \in (Policy \cup {NoPolicy}) \ {class.policy} :
          class' = [class EXCEPT !.policy = policy]
  /\ claimed' = claimed \cup Supplied(class')
  /\ bare' = (bare \/ (class.phase = "deleting" /\ ~class'.protect))
  /\ listed' = [listed EXCEPT !.current = FALSE]
  /\ sync' = IF sync.at = "idle" THEN sync ELSE [sync EXCEPT !.current = FALSE]
  /\ UNCHANGED <<shape, serviceVars, cache, faults, asked, adrift, panicked>>

\* Without a finalizer the class is gone at once.
DeleteClass ==
  /\ class.phase = "live"
  /\ class' = [class EXCEPT !.phase = IF class.finalizer THEN "deleting" ELSE "gone"]
  /\ bare' = ~class.protect
  /\ listed' = [listed EXCEPT !.current = FALSE]
  /\ sync' = IF sync.at = "idle" THEN sync ELSE [sync EXCEPT !.current = FALSE]
  /\ UNCHANGED <<shape, serviceVars, cache, boundVars, claimed, asked, adrift, panicked>>

EditShape ==
  /\ edits > 0 /\ edits' = edits - 1
  /\ \E s \in Shape \ {shape} : shape' = s
  /\ UNCHANGED <<class, listed, serviceVars, cache, sync, faults, historyVars>>

\* What l becomes by others' hands: copies of it are out of date.
Others(l, lb) ==
  /\ Active(l)
  /\ lbs' = [lbs EXCEPT ![l] = lb]
  /\ cache' = Outdated(l)
  /\ sync' = IF sync.at = "shape" /\ sync.lb = l THEN [sync EXCEPT !.seen.current = FALSE] ELSE sync
  /\ UNCHANGED <<apiVars, token, asked, bare, adrift, panicked>>

\* The other controllers change the load balancer, hence its ETag.
Touch(l) ==
  /\ faults > 0 /\ faults' = faults - 1
  /\ Others(l, lbs[l])
  /\ UNCHANGED <<firewallVars, edits, claimed>>

\* A user takes a tag off the load balancer, or deletes it.
RemoveTag(l) ==
  /\ edits > 0 /\ edits' = edits - 1
  /\ \E t \in lbs[l].tags :
       /\ Others(l, [lbs[l] EXCEPT !.tags = @ \ {t}])
       /\ claimed' = claimed \cup {t}
  /\ UNCHANGED <<firewallVars, faults>>

Lose(l) ==
  /\ edits > 0 /\ edits' = edits - 1
  /\ \E k \in LbId : lbs[k].state = "none"
  /\ Others(l, [lbs[l] EXCEPT !.state = "lost"])
  /\ RemoveWith(l)
  /\ UNCHANGED <<faults, claimed>>

-----------------------------------------------------------------------------
Sync ==
  \/ Take \/ EnsureFinalizer \/ Ensure \/ Create \/ Backfill \/ Annotate
  \/ Check \/ UpdateTags \/ UpdateDefaults \/ Refresh \/ UpdateShape
  \/ CheckNsgs \/ UpdateNsgs
  \/ SetupFirewall \/ MakeFirewall \/ RecordFirewall \/ DropFirewall \/ ForgetFirewall
  \/ Delete \/ ClearFirewall \/ ClearNsgs \/ ClearSet \/ ClearTags \/ DeleteLb \/ Unfinalize

Next ==
  \/ Sync \/ Fail \/ ClearFails \/ Crash
  \/ CatchUp \/ ExpireToken
  \/ EditClass \/ DeleteClass \/ EditShape
  \/ \E l \in LbId : Expire(l) \/ Touch(l) \/ RemoveTag(l) \/ Lose(l)
  \/ \E f \in FirewallId : PolicyGrowsOld(f)

Spec == Init /\ [][Next]_vars

\* The class is synced again and again, the lister catches up, and time passes.
FairSpec ==
  /\ Spec
  /\ WF_vars(Sync)
  /\ WF_vars(CatchUp)
  /\ WF_vars(ExpireToken)
  /\ \A l \in LbId : WF_vars(Expire(l))
  /\ \A f \in FirewallId : WF_vars(PolicyGrowsOld(f))

-----------------------------------------------------------------------------
(* Properties.                                                               *)

\* Types. The finalizer that sync sees to first holds the class while
\* ensureLoadBalancer works for it: its patches by name always find it.
TypeOK ==
  /\ class \in Class /\ shape \in Shape
  /\ listed.copy \in Class /\ listed.current \in BOOLEAN
  /\ lbs \in [LbId -> LoadBalancer]
  /\ token \in LbId \cup {NoLb}
  /\ cache \in [LbId -> Copy \cup {NoCopy}]
  /\ sync = Idle \/ (sync.class \in Class /\ sync.lb \in LbId \cup {NoLb}
                     /\ sync.seen \in Copy \cup {NoCopy}
                     /\ sync.made \in FirewallId \cup {NoFirewall})
  /\ sync.at \in {"create", "backfill", "annotate", "defaults",
                 "recordFirewall", "forgetFirewall"} => class.phase # "gone"
  /\ FirewallTypeOK /\ adrift \subseteq FirewallId
  /\ edits \in 0..MaxEdits /\ faults \in 0..MaxFaults
  /\ claimed \subseteq Tag /\ asked \subseteq LbId /\ bare \in BOOLEAN /\ panicked \in BOOLEAN

\* A load balancer that the controller has created is one that the class names,
\* or that its UID's retry token gives back, until the class is gone:
\* createLoadBalancer never makes a second one beside it, whatever fails between
\* the request and the patch of the annotation.
NoneForgotten ==
  class.phase # "gone" =>
    \A l \in LbId : lbs[l].state = "active" /\ lbs[l].owner = "controller"
                      => class.id = l \/ token = l

\* Tags that the service has added by default to a load balancer of the
\* controller stay there until a user claims them (GettingStarted.md, Default Tag
\* Support): the backfilled annotation keeps them through every update.
DefaultTagsKept ==
  class.phase = "live" /\ Active(class.id) /\ lbs[class.id].owner = "controller"
    => DefaultTags \ claimed \subseteq lbs[class.id].tags

\* deleteLoadBalancer only takes away the load balancer of a class that is being
\* deleted and that was seen without protection since then: a class that is
\* protected when its deletion is asked for, and stays so, keeps its load
\* balancer, however old the copies are that the syncs work on. (Protection that
\* is added to a class being deleted comes too late for a sync that has an older
\* copy: deleteIngressClass decides by the copy, and the service is not told.)
ProtectedStays ==
  (\E l \in LbId : lbs[l].state = "deleted") => class.phase # "live" /\ bare

\* The finalizer goes after the deletion of the load balancer that the class
\* names, even if the copy the sync works on did not name it yet.
DeletionAsked ==
  class.phase = "gone" /\ ~class.protect /\ Active(class.id)
    => lbs[class.id].owner = "user" \/ class.id \in asked

\* ensureLoadBalancer reads the load balancer again between its updates; when it
\* is not found there is "Redirect new LB creation" in getLoadBalancer.
NeverPanics == ~panicked

AsAsked ==
  /\ class.phase = "live"
  /\ Active(class.id)
  /\ Supplied(class) \subseteq lbs[class.id].tags
  /\ lbs[class.id].shape = shape
  /\ lbs[class.id].nsgs = class.nsgs
  /\ class.policy # NoPolicy => Protected(class.id)
  /\ class.policy = NoPolicy => \A f \in FirewallId : firewalls[f].lb = class.id => f \in adrift

\* Once users and failures leave it alone, the class is gone, or has a load
\* balancer with every setting it asks for: with a firewall if it names a policy
\* (one that was made with the policy it named at the time), and if not, without a
\* firewall that it knows of.
Converges == <>[](class.phase = "gone" \/ AsAsked)
=============================================================================
