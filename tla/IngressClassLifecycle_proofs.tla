-------------------- MODULE IngressClassLifecycle_proofs ---------------------
(***************************************************************************)
(* Proofs about IngressClassLifecycle, for any tags, bandwidths, groups    *)
(* and policies, any number of load balancers and firewalls, and any       *)
(* number of edits and of faults.                                          *)
(*                                                                         *)
(* Up to three versions of the class are about at once: the API server's,  *)
(* the lister's and the one a sync works on. What keeps the controller     *)
(* right although it acts on old ones is what the versions cannot disagree *)
(* about: nearly every part of IInv relates them to each other, or to the  *)
(* load balancer and the copies of it.                                     *)
(***************************************************************************)
EXTENDS IngressClassLifecycle, TLAPS

-----------------------------------------------------------------------------
(* The inductive invariant.                                                  *)

CreatePlaces == {"create", "backfill", "annotate"}
UpdatePlaces == {"check", "tags", "defaults"}
EnsurePlaces ==
  CreatePlaces \cup UpdatePlaces \cup
  {"ensure", "refresh", "shape", "nsgs", "updateNsgs",
   "firewall", "makeFirewall", "recordFirewall", "dropFirewall", "forgetFirewall"}
ClearPlaces  == {"clearFirewall", "clearNsgs", "clearSet", "clearTags"}
DeletePlaces == ClearPlaces \cup {"delete", "deleteLb", "unfinalize"}

SyncRecord ==
  [at : EnsurePlaces \cup DeletePlaces \cup {"finalizer"}, class : Class, current : BOOLEAN,
   shape : Shape, lb : LbId \cup {NoLb}, seen : Copy \cup {NoCopy},
   made : FirewallId \cup {NoFirewall}]

\* Types.
ValueInv ==
  /\ class \in Class /\ shape \in Shape
  /\ listed \in [copy : Class, current : BOOLEAN]
  /\ lbs \in [LbId -> LoadBalancer]
  /\ token \in LbId \cup {NoLb}
  /\ cache \in [LbId -> Copy \cup {NoCopy}]
  /\ sync = Idle \/ sync \in SyncRecord
  /\ FirewallTypeOK /\ adrift \subseteq FirewallId
  /\ edits \in 0..MaxEdits /\ faults \in 0..MaxFaults
  /\ claimed \subseteq Tag /\ asked \subseteq LbId /\ bare \in BOOLEAN /\ panicked \in BOOLEAN

\* The versions of the class that are about.
Versions == {class, listed.copy} \cup (IF sync.at = "idle" THEN {} ELSE {sync.class})

OurOwn(l) == l \in LbId /\ lbs[l].owner = "controller"
Users(l)  == l \in LbId /\ lbs[l].owner = "user"

\* The default tags that no user has taken charge of.
Unclaimed == DefaultTags \ claimed

\* A resource version that is still good is that of the class as it is.
VersionInv ==
  /\ listed.current => listed.copy = class
  /\ sync.at # "idle" /\ sync.current => sync.class = class

\* The finalizer, once seen, holds the class. Until it is there the class has no
\* load balancer of ours.
FinalizerInv ==
  /\ listed.copy.phase = "live" /\ listed.copy.finalizer => class.phase # "gone" /\ class.finalizer
  /\ class.phase = "live" /\ ~class.finalizer => ~OurOwn(class.id)

\* A version of the class being deleted that is not protected has gone on record,
\* whether it is the class as it is or the copy the controller has of it.
DeletingInv ==
  /\ class.phase # "live" /\ ~class.protect => bare
  /\ listed.copy.phase # "live" => /\ class.phase # "live"
                                   /\ ~listed.copy.protect => bare

\* What is named has been created.
BornInv ==
  /\ \A c \in Versions : c.id \in LbId => lbs[c.id].state # "none"
  /\ token \in LbId => lbs[token].state # "none" /\ OurOwn(token)
  /\ \A l \in LbId : cache[l] # NoCopy => lbs[l].state # "none"

\* Every version names the load balancer the controller has created, unless the
\* token gives it back.
KnownInv ==
  \A l \in LbId : Active(l) /\ OurOwn(l) => token = l \/ \A c \in Versions : c.id = l

\* The user's load balancer, while it is the class's, is so in every version; a
\* version that still names it later finds nothing of it.
ImportedInv ==
  /\ Users(class.id) => \A c \in Versions : c.id = class.id
  /\ \A c \in Versions : Users(c.id) /\ Readable(c.id) => c.id = class.id

\* The default tags that nobody has claimed are on the load balancer, in every
\* copy of it, and recorded in every version of the class that names it.
TagsInv ==
  /\ \A c \in Versions : Supplied(c) \subseteq claimed
  /\ class.phase = "live" =>
       /\ \A l \in LbId : OurOwn(l) => /\ Active(l) => Unclaimed \subseteq lbs[l].tags
                                       /\ cache[l] # NoCopy => Unclaimed \subseteq cache[l].tags
       /\ \A c \in Versions : OurOwn(c.id) => Unclaimed \subseteq Recorded(c)

WorldInv ==
  /\ VersionInv /\ FinalizerInv /\ DeletingInv /\ BornInv /\ KnownInv /\ ImportedInv /\ TagsInv
  /\ ProtectedStays /\ DeletionAsked

\* What a sync relies on at its places: it has what it is about to use; it
\* works for a class that is held; it creates where it has found nothing; it
\* updates the load balancer of its own version, with the default tags in hand; it
\* deletes for a class that is being deleted, and only by a version of it that was
\* not protected, be it protected by now or not.
PlaceInv ==
  /\ sync.at \in {"backfill", "tags", "defaults", "shape"} => sync.seen \in Copy
  /\ sync.at = "recordFirewall" => sync.made \in FirewallId
  /\ sync.at = "dropFirewall" => sync.class.firewall \in FirewallId
  /\ sync.at = "finalizer" => sync.class.phase = "live"
  /\ sync.at \in EnsurePlaces => class.phase # "gone" /\ class.finalizer
  /\ sync.at \in CreatePlaces => ~Readable(sync.class.id)
  /\ sync.at \in {"backfill", "annotate"} => OurOwn(sync.lb) /\ lbs[sync.lb].state # "none"
  /\ sync.at = "backfill" /\ class.phase = "live" => Unclaimed \subseteq sync.seen.tags
  /\ sync.at = "annotate" /\ class.phase = "live" => Unclaimed \subseteq Recorded(class)
  /\ sync.at \in UpdatePlaces => /\ sync.lb = sync.class.id /\ sync.lb \in LbId
                                 /\ Users(sync.lb) => sync.lb = class.id
  /\ sync.at \in {"tags", "defaults"} /\ class.phase = "live" /\ OurOwn(sync.lb)
       => Unclaimed \subseteq sync.seen.tags
  /\ sync.at \in DeletePlaces => /\ class.phase # "live" /\ listed.copy.phase # "live"
                                 /\ ~sync.class.protect => bare
  /\ sync.at \in ClearPlaces => sync.class.protect
  /\ sync.at = "deleteLb" => ~sync.class.protect /\ sync.class.id \in LbId
  /\ sync.at = "unfinalize" /\ ~sync.class.protect => sync.class.id \in asked \cup {NoLb}

IInv == ValueInv /\ WorldInv /\ PlaceInv

-----------------------------------------------------------------------------
(* Facts about the values.                                                   *)

\* A worker is idle, or in the middle of a sync.
LEMMA SyncPlaces ==
  ASSUME ValueInv
  PROVE  /\ sync.at = "idle" <=> sync = Idle
         /\ sync.at # "idle" => sync \in SyncRecord
BY DEF ValueInv, SyncRecord, Idle, EnsurePlaces, DeletePlaces, CreatePlaces, UpdatePlaces, ClearPlaces

\* What is set up for tags is made of tags.
LEMMA TagsTyped ==
  ASSUME ValueInv, NEW c \in Class, NEW tags \in SUBSET Tag
  PROVE  /\ Supplied(c) \subseteq Tag /\ Recorded(c) \subseteq Tag
         /\ NewTags(tags, c) \subseteq Tag /\ NewDefaults(tags, c) \subseteq Tag
<1>1. c.defined \in Annotation /\ c.defaults \in Annotation
  BY DEF Class
<1>2. UNION c.defined \subseteq Tag /\ UNION c.defaults \subseteq Tag
  BY <1>1 DEF Annotation
<1> QED BY <1>2 DEF Supplied, Recorded, NewTags, NewDefaults

\* An update never takes a default tag off that is recorded and not supplied.
LEMMA DefaultsSurvive ==
  ASSUME NEW c, NEW tags, NEW keep \in SUBSET tags, keep \cap Supplied(c) = {}, keep \subseteq Recorded(c)
  PROVE  /\ keep \subseteq NewTags(tags, c)
         /\ keep \subseteq NewDefaults(tags, c)
BY DEF NewTags, NewDefaults

\* A document read is one that was cached, or the load balancer as it is.
LEMMA DocumentTyped ==
  ASSUME ValueInv, NEW l \in LbId
  PROVE  CopyOf(lbs[l]) \in Copy /\ Document(l) \in Copy
BY DEF ValueInv, Document, CopyOf, Copy, LoadBalancer

-----------------------------------------------------------------------------
(* The beginning.                                                            *)

LEMMA Initially == Init => IInv
<1> SUFFICES ASSUME Init PROVE IInv
  OBVIOUS
<1>1. PICK start \in Starts :
       /\ class = [phase |-> "live", finalizer |-> FALSE,
                   id |-> IF start.imported THEN 1 ELSE NoLb,
                   defined |-> start.defined, defaults |-> {},
                   nsgs |-> start.nsgs, protect |-> start.imported,
                   policy |-> start.policy, firewall |-> NoFirewall]
       /\ lbs = [l \in LbId |-> IF start.imported /\ l = 1
                                  THEN [Unborn EXCEPT !.state = "active", !.owner = "user",
                                                      !.tags = Tag \ DefaultTags]
                                  ELSE Unborn]
       /\ claimed = UNION start.defined
  BY DEF Init
<1>2. start \in [imported : BOOLEAN, defined : Annotation, nsgs : SUBSET Nsg,
                 policy : Policy \cup {NoPolicy}]
  BY LifecycleAssumption
<1>3. 1 \in LbId
  BY FirewallAssumption DEF LbId
<1>4. /\ shape = Unborn.shape /\ listed = [copy |-> class, current |-> TRUE] /\ token = NoLb
      /\ cache = [l \in LbId |-> NoCopy] /\ sync = Idle /\ edits = MaxEdits /\ faults = MaxFaults
      /\ asked = {} /\ bare = FALSE /\ adrift = {} /\ panicked = FALSE /\ FirewallInit
  BY DEF Init
<1>5. class \in Class
  BY <1>1, <1>2, <1>3 DEF Class, Annotation
<1>6. /\ lbs \in [LbId -> LoadBalancer]
      /\ \A l \in LbId : \/ lbs[l].owner = "user" /\ lbs[l].state = "active"
                        \/ lbs[l].state = "none"
      /\ start.imported => lbs[1].owner = "user" /\ lbs[1].state = "active"
  <2>1. Unborn \in LoadBalancer /\ Unborn.state = "none"
    <3>1. Unborn.shape \in Shape
      BY LifecycleAssumption DEF Unborn
    <3> QED BY <3>1 DEF Unborn, LoadBalancer
  <2> QED BY <1>1, <1>3, <2>1 DEF LoadBalancer
<1>7. ValueInv
  <2>1. FirewallTypeOK
    BY <1>4 DEF FirewallInit, FirewallTypeOK, There
  <2>2. shape \in Shape
    BY <1>4, LifecycleAssumption DEF Unborn
  <2>3. claimed \subseteq Tag
    BY <1>1, <1>2 DEF Annotation
  <2>4. edits \in 0..MaxEdits /\ faults \in 0..MaxFaults
    BY <1>4, LifecycleAssumption
  <2> QED BY <1>4, <1>5, <1>6, <2>1, <2>2, <2>3, <2>4 DEF ValueInv
<1>8. sync.at = "idle" /\ Versions = {class}
  BY <1>4 DEF Idle, Versions
<1>9. \A l \in LbId : ~(Active(l) /\ OurOwn(l))
  BY <1>6 DEF Active, OurOwn
<1>10. class.phase = "live" /\ ~OurOwn(class.id) /\ (class.id \in LbId => lbs[class.id].state = "active")
  BY <1>1, <1>3, <1>6, FirewallAssumption DEF OurOwn
<1>11. PlaceInv
  BY <1>8 DEF PlaceInv, EnsurePlaces, DeletePlaces, CreatePlaces, UpdatePlaces, ClearPlaces
<1>12. VersionInv /\ FinalizerInv /\ DeletingInv
  BY <1>1, <1>4, <1>8, <1>10 DEF VersionInv, FinalizerInv, DeletingInv
<1>13. BornInv /\ KnownInv /\ ImportedInv
  BY <1>4, <1>8, <1>9, <1>10, FirewallAssumption DEF BornInv, KnownInv, ImportedInv
<1>14. TagsInv
  BY <1>1, <1>4, <1>8, <1>9, <1>10 DEF TagsInv, Supplied
<1>15. ProtectedStays /\ DeletionAsked
  BY <1>6, <1>10 DEF ProtectedStays, DeletionAsked
<1> QED BY <1>7, <1>11, <1>12, <1>13, <1>14, <1>15 DEF IInv, WorldInv

-----------------------------------------------------------------------------
(* Steps that leave the class and what is known of it alone.                 *)

\* What a sync is about to do next, if anything, it does with the same copy.
Onward(s) ==
  s.at # "idle" => sync.at # "idle" /\ s.class = sync.class /\ (s.current => sync.current)

\* A step that changes no version of the class and creates, loses and hides nothing
\* keeps the relations between them, if it takes no default tag away.
LEMMA WorldKept ==
  ASSUME ValueInv, WorldInv, class' = class, listed' = listed, token' = token,
         claimed' = claimed, asked' = asked, bare' = bare, Onward(sync'),
         \A l \in LbId : lbs'[l].state = lbs[l].state /\ lbs'[l].owner = lbs[l].owner,
         \A l \in LbId : cache'[l] # NoCopy => Readable(l),
         class.phase = "live" =>
           \A l \in LbId : OurOwn(l) => /\ Active(l) => Unclaimed \subseteq lbs'[l].tags
                                        /\ cache'[l] # NoCopy => Unclaimed \subseteq cache'[l].tags
  PROVE  WorldInv'
<1>1. Versions' \subseteq Versions /\ class \in Versions'
  BY DEF Versions, Onward
<1>2. /\ \A l : Active(l)' <=> Active(l)
      /\ \A l : OurOwn(l)' <=> OurOwn(l)
      /\ \A l : Users(l)' <=> Users(l)
      /\ \A l : Readable(l)' => Readable(l)
  BY DEF Active, OurOwn, Users, Readable
<1>3. VersionInv' /\ FinalizerInv' /\ DeletingInv'
  BY <1>2 DEF WorldInv, VersionInv, FinalizerInv, DeletingInv, Onward
<1>4. BornInv'
  <2>1. BornInv
    BY DEF WorldInv
  <2>2. \A l \in LbId : cache'[l] # NoCopy => lbs[l].state # "none"
    BY <2>1 DEF BornInv, Readable, Active
  <2> QED BY <1>1, <1>2, <2>1, <2>2 DEF BornInv
<1>5. KnownInv'
  BY <1>1, <1>2 DEF WorldInv, KnownInv
<1>6. ImportedInv'
  BY <1>1, <1>2 DEF WorldInv, ImportedInv
<1>7. TagsInv'
  <2>1. Unclaimed' = Unclaimed
    BY DEF Unclaimed
  <2>2. TagsInv
    BY DEF WorldInv
  <2>3. (\A c \in Versions : Supplied(c) \subseteq claimed)'
    BY <1>1, <2>2 DEF TagsInv, Supplied
  <2>4. class.phase = "live" => (\A c \in Versions : OurOwn(c.id) => Unclaimed \subseteq Recorded(c))'
    BY <1>1, <1>2, <2>1, <2>2 DEF TagsInv, Recorded
  <2>5. class.phase = "live" =>
          \A l \in LbId : OurOwn(l)' => /\ Active(l)' => Unclaimed' \subseteq lbs'[l].tags
                                        /\ cache'[l] # NoCopy => Unclaimed' \subseteq cache'[l].tags
    BY <1>2, <2>1
  <2> QED BY <2>3, <2>4, <2>5 DEF TagsInv
<1>8. ProtectedStays' /\ DeletionAsked'
  BY <1>2 DEF WorldInv, ProtectedStays, DeletionAsked, Active
<1> QED BY <1>3, <1>4, <1>5, <1>6, <1>7, <1>8 DEF WorldInv

\* A sync that ends relies on nothing.
LEMMA PlaceLeft ==
  ASSUME sync' = Idle
  PROVE  PlaceInv' /\ Onward(sync')
BY DEF PlaceInv, Idle, Onward, EnsurePlaces, DeletePlaces, CreatePlaces, UpdatePlaces, ClearPlaces

\* What others do takes away nothing that a sync relies on: the class keeps its
\* finalizer, and what has gone on record stays there.
LEMMA PlaceKept ==
  ASSUME PlaceInv,
         sync.at = "idle" => sync' = sync,
         sync'.at = sync.at, sync'.class = sync.class, sync'.lb = sync.lb, sync'.made = sync.made,
         sync.seen \in Copy => sync'.seen \in Copy /\ sync'.seen.tags = sync.seen.tags,
         class'.id = class.id, class'.defaults = class.defaults, class'.finalizer = class.finalizer,
         class'.phase = "live" => class.phase = "live",
         class'.phase = "gone" => class.phase = "gone" \/ ~class.finalizer,
         class.phase # "live" /\ bare => bare',
         listed'.copy.phase = "live" => listed.copy.phase = "live" \/ class.phase = "live",
         \A l \in LbId : /\ lbs'[l].owner = lbs[l].owner
                         /\ lbs[l].state # "none" => lbs'[l].state # "none",
         \A l : Readable(l)' => Readable(l),
         claimed \subseteq claimed', asked' = asked
  PROVE  PlaceInv'
<1>1. /\ \A l : OurOwn(l)' <=> OurOwn(l)
      /\ \A l : Users(l)' <=> Users(l)
      /\ Unclaimed' \subseteq Unclaimed
      /\ Recorded(class)' = Recorded(class)
  BY DEF OurOwn, Users, Unclaimed, Recorded
<1>2. /\ sync'.at \in {"backfill", "tags", "defaults", "shape"} => sync'.seen \in Copy
      /\ sync'.at = "recordFirewall" => sync'.made \in FirewallId
      /\ sync'.at = "dropFirewall" => sync'.class.firewall \in FirewallId
      /\ sync'.at = "finalizer" => sync'.class.phase = "live"
      /\ sync'.at \in EnsurePlaces => class'.phase # "gone" /\ class'.finalizer
      /\ sync'.at \in CreatePlaces => ~Readable(sync.class.id)'
  BY DEF PlaceInv
<1>3. sync'.at \in {"backfill", "annotate"} => OurOwn(sync.lb)' /\ lbs'[sync.lb].state # "none"
  BY <1>1 DEF PlaceInv, OurOwn
<1>4. /\ sync'.at = "backfill" /\ class'.phase = "live" => Unclaimed' \subseteq sync'.seen.tags
      /\ sync'.at = "annotate" /\ class'.phase = "live" => Unclaimed' \subseteq Recorded(class)'
      /\ sync'.at \in {"tags", "defaults"} /\ class'.phase = "live" /\ OurOwn(sync.lb)'
           => Unclaimed' \subseteq sync'.seen.tags
  BY <1>1 DEF PlaceInv
<1>5. sync'.at \in UpdatePlaces => /\ sync'.lb = sync'.class.id /\ sync'.lb \in LbId
                                   /\ Users(sync.lb)' => sync'.lb = class'.id
  BY <1>1 DEF PlaceInv
<1>6. /\ sync'.at \in DeletePlaces => /\ class'.phase # "live" /\ listed'.copy.phase # "live"
                                      /\ ~sync'.class.protect => bare'
      /\ sync'.at \in ClearPlaces => sync'.class.protect
      /\ sync'.at = "deleteLb" => ~sync'.class.protect /\ sync'.class.id \in LbId
      /\ sync'.at = "unfinalize" /\ ~sync'.class.protect => sync'.class.id \in asked' \cup {NoLb}
  BY DEF PlaceInv
<1> QED BY <1>2, <1>3, <1>4, <1>5, <1>6 DEF PlaceInv

-----------------------------------------------------------------------------
(* Going on with a sync.                                                     *)

\* The places of ensureLoadBalancer that need no more than a class that is held.
HeldPlaces == {"ensure", "refresh", "nsgs", "updateNsgs", "firewall", "makeFirewall", "forgetFirewall"}

LEMMA HeldEnough ==
  ASSUME class'.phase # "gone", class'.finalizer, sync'.at \in HeldPlaces
  PROVE  PlaceInv'
BY DEF PlaceInv, HeldPlaces, EnsurePlaces, DeletePlaces, CreatePlaces, UpdatePlaces, ClearPlaces

\* The next place of deleteIngressClass.
LEMMA DeletionGoesOn ==
  ASSUME PlaceInv, class' = class, listed' = listed, bare' = bare, sync.at \in DeletePlaces, sync'.at \in DeletePlaces,
         sync'.class = sync.class,
         sync'.at \in ClearPlaces => sync.class.protect,
         sync'.at = "deleteLb" => ~sync.class.protect /\ sync.class.id \in LbId,
         sync'.at = "unfinalize" /\ ~sync.class.protect => sync.class.id \in asked' \cup {NoLb}
  PROVE  PlaceInv'
BY DEF PlaceInv, EnsurePlaces, DeletePlaces, CreatePlaces, UpdatePlaces, ClearPlaces

\* Only the place changes.
LEMMA GotoTyped ==
  ASSUME ValueInv, sync.at # "idle", NEW p \in EnsurePlaces \cup DeletePlaces
  PROVE  /\ Goto(p) \in SyncRecord /\ Onward(Goto(p)) /\ Goto(p).at = p
         /\ Goto(p).class = sync.class /\ Goto(p).current = sync.current
         /\ Goto(p).lb = sync.lb /\ Goto(p).seen = sync.seen /\ Goto(p).made = sync.made
<1>1. sync \in SyncRecord
  BY SyncPlaces
<1> QED BY <1>1 DEF Goto, SyncRecord, Onward

\* A fault less to come.
LEMMA FaultTyped ==
  ASSUME ValueInv, faults > 0, faults' = faults - 1
  PROVE  faults' \in 0..MaxFaults
BY LifecycleAssumption DEF ValueInv

\* The copies after a read.
LEMMA ReadKept ==
  ASSUME IInv, NEW l, Readable(l), cache' = Cached(l),
         class' = class, listed' = listed, token' = token, claimed' = claimed, asked' = asked, bare' = bare,
         lbs' = lbs, Onward(sync')
  PROVE  /\ l \in LbId /\ Document(l) \in Copy /\ cache' \in [LbId -> Copy \cup {NoCopy}]
         /\ class.phase = "live" /\ OurOwn(l) => Unclaimed \subseteq Document(l).tags
         /\ WorldInv'
<1>1. l \in LbId
  BY DEF Readable, Active
<1>2. Document(l) \in Copy
  BY <1>1, DocumentTyped DEF IInv
<1>3. cache' = [cache EXCEPT ![l] = Document(l)] /\ cache \in [LbId -> Copy \cup {NoCopy}]
  BY DEF Cached, IInv, ValueInv
<1>4. class.phase = "live" /\ OurOwn(l) => Unclaimed \subseteq Document(l).tags
  BY <1>1 DEF IInv, WorldInv, TagsInv, Document, CopyOf, Readable
<1>5. \A k \in LbId : cache'[k] # NoCopy => Readable(k)
  BY <1>1, <1>3 DEF Readable
<1>6. class.phase = "live" =>
        \A k \in LbId : OurOwn(k) => /\ Active(k) => Unclaimed \subseteq lbs'[k].tags
                                     /\ cache'[k] # NoCopy => Unclaimed \subseteq cache'[k].tags
  BY <1>1, <1>3, <1>4 DEF IInv, WorldInv, TagsInv
<1>7. WorldInv'
  BY <1>5, <1>6, WorldKept DEF IInv
<1> QED BY <1>1, <1>2, <1>3, <1>4, <1>7

\* Copies that are out of date are copies of what they were copies of.
LEMMA OutdatedTyped ==
  ASSUME ValueInv, NEW l
  PROVE  /\ Outdated(l) \in [LbId -> Copy \cup {NoCopy}]
         /\ \A k \in LbId : Outdated(l)[k] # NoCopy => /\ cache[k] # NoCopy
                                                      /\ Outdated(l)[k].tags = cache[k].tags
<1>1. cache \in [LbId -> Copy \cup {NoCopy}]
  BY DEF ValueInv
<1>2. \A c \in Copy : [c EXCEPT !.current = FALSE] \in Copy /\ [c EXCEPT !.current = FALSE].tags = c.tags
  BY DEF Copy
<1> QED BY <1>1, <1>2 DEF Outdated

\* A call of the client leaves the class alone, whether or not it succeeds.
LEMMA CallKept ==
  ASSUME IInv, NEW l, NEW lb, NEW matches, NEW next, NEW onError, Call(l, lb, matches, next, onError),
         l \in LbId => /\ lb \in LoadBalancer /\ lb.state = lbs[l].state /\ lb.owner = lbs[l].owner
                       /\ class.phase = "live" /\ OurOwn(l) => Unclaimed \subseteq lb.tags,
         Onward(next), next = Idle \/ next \in SyncRecord,
         Onward(onError), onError = Idle \/ onError \in SyncRecord
  PROVE  /\ ValueInv' /\ WorldInv'
         /\ sync' \in {next, onError} /\ class' = class /\ listed' = listed /\ asked' = asked
         /\ claimed' = claimed /\ bare' = bare
         /\ \A k : OurOwn(k)' <=> OurOwn(k)
         /\ \A k : Users(k)' <=> Users(k)
<1>1. /\ class' = class /\ shape' = shape /\ listed' = listed /\ token' = token /\ edits' = edits
      /\ firewalls' = firewalls /\ recent' = recent
      /\ claimed' = claimed /\ asked' = asked /\ bare' = bare /\ adrift' = adrift /\ panicked' = panicked
      /\ sync' \in {next, onError}
  BY DEF Call, apiVars, firewallVars, historyVars
<1>2. \/ lbs' = lbs /\ cache' = cache
      \/ /\ l \in LbId /\ Active(l)
         /\ lbs' = [lbs EXCEPT ![l] = lb]
         /\ cache' = [cache EXCEPT ![l] = CopyOf(lb)] \/ cache' = Outdated(l)
  BY DEF Call, Active
<1>3. faults' \in 0..MaxFaults
  <2>1. faults' = faults \/ (faults > 0 /\ faults' = faults - 1)
    BY DEF Call
  <2> QED BY <2>1, FaultTyped DEF IInv, ValueInv
<1>4. /\ lbs \in [LbId -> LoadBalancer] /\ cache \in [LbId -> Copy \cup {NoCopy}]
      /\ l \in LbId => CopyOf(lb) \in Copy /\ CopyOf(lb).tags = lb.tags
  BY DEF IInv, ValueInv, CopyOf, Copy, LoadBalancer
<1>5. cache' = Outdated(l) =>
        /\ cache' \in [LbId -> Copy \cup {NoCopy}]
        /\ \A k \in LbId : cache'[k] # NoCopy => cache[k] # NoCopy /\ cache'[k].tags = cache[k].tags
  BY OutdatedTyped DEF IInv
<1>6. lbs' \in [LbId -> LoadBalancer] /\ cache' \in [LbId -> Copy \cup {NoCopy}]
  BY <1>2, <1>4, <1>5
<1>7. ValueInv'
  BY <1>1, <1>3, <1>6 DEF IInv, ValueInv, FirewallTypeOK, There
<1>8. \A k \in LbId : lbs'[k].state = lbs[k].state /\ lbs'[k].owner = lbs[k].owner
  BY <1>2, <1>4
<1>9. \A k \in LbId : cache'[k] # NoCopy => Readable(k)
  BY <1>2, <1>4, <1>5 DEF Readable
<1>10. class.phase = "live" =>
        \A k \in LbId : OurOwn(k) => /\ Active(k) => Unclaimed \subseteq lbs'[k].tags
                                     /\ cache'[k] # NoCopy => Unclaimed \subseteq cache'[k].tags
  <2>1. TagsInv
    BY DEF IInv, WorldInv
  <2> QED BY <1>2, <1>4, <1>5, <2>1 DEF TagsInv
<1>11. WorldInv'
  BY <1>1, <1>8, <1>9, <1>10, WorldKept DEF IInv
<1> QED BY <1>1, <1>7, <1>8, <1>11 DEF OurOwn, Users

-----------------------------------------------------------------------------
(* The steps that call the client: tags, bandwidth, groups.                  *)

\* What Call needs of the tags that a step leaves alone.
LEMMA TagsAlone ==
  ASSUME IInv, NEW l
  PROVE  l \in LbId => /\ lbs[l] \in LoadBalancer
                       /\ class.phase = "live" /\ OurOwn(l) /\ Active(l) => Unclaimed \subseteq lbs[l].tags
BY DEF IInv, ValueInv, WorldInv, TagsInv

LEMMA UpdateTagsKeeps == ASSUME IInv, UpdateTags PROVE IInv'
<1> DEFINE place == IF sync.class.defaults # {NewDefaults(sync.seen.tags, sync.class)}
                      THEN "defaults" ELSE "refresh"
           lb    == [lbs[sync.lb] EXCEPT !.tags = NewTags(sync.seen.tags, sync.class)]
<1>1. sync.at = "tags" /\ Call(sync.lb, lb, OwnMatch(sync.lb), Goto(place), Idle)
  BY DEF UpdateTags
<1>2. sync \in SyncRecord /\ sync.seen \in Copy /\ sync.lb = sync.class.id /\ sync.lb \in LbId
  BY <1>1, SyncPlaces DEF IInv, PlaceInv, UpdatePlaces
<1>3. sync.class \in Class /\ sync.seen.tags \in SUBSET Tag /\ sync.class \in Versions
  BY <1>1, <1>2 DEF SyncRecord, Copy, Versions
<1>4. NewTags(sync.seen.tags, sync.class) \subseteq Tag
  BY <1>3, TagsTyped DEF IInv
<1>5. class.phase = "live" /\ OurOwn(sync.lb) => Unclaimed \subseteq NewTags(sync.seen.tags, sync.class)
  <2> SUFFICES ASSUME class.phase = "live", OurOwn(sync.lb)
               PROVE  Unclaimed \subseteq NewTags(sync.seen.tags, sync.class)
    OBVIOUS
  <2>1. Unclaimed \in SUBSET sync.seen.tags
    BY <1>1 DEF IInv, PlaceInv
  <2>2. Unclaimed \cap Supplied(sync.class) = {} /\ Unclaimed \subseteq Recorded(sync.class)
    BY <1>2, <1>3 DEF IInv, WorldInv, TagsInv, Unclaimed
  <2> QED BY <2>1, <2>2, DefaultsSurvive
<1>6. lb \in LoadBalancer /\ lb.state = lbs[sync.lb].state /\ lb.owner = lbs[sync.lb].owner
      /\ lb.tags = NewTags(sync.seen.tags, sync.class)
  <2>1. lbs[sync.lb] \in LoadBalancer
    BY <1>2 DEF IInv, ValueInv
  <2> QED BY <1>4, <2>1 DEF LoadBalancer
<1>7. Goto(place) \in SyncRecord /\ Onward(Goto(place)) /\ Onward(Idle)
  BY <1>1, GotoTyped DEF IInv, EnsurePlaces, UpdatePlaces, Onward, Idle
<1>8. /\ ValueInv' /\ WorldInv'
      /\ sync' \in {Goto(place), Idle} /\ class' = class /\ listed' = listed /\ claimed' = claimed
      /\ \A k : OurOwn(k)' <=> OurOwn(k)
      /\ \A k : Users(k)' <=> Users(k)
  <2> HIDE DEF lb, place
  <2> QED BY <1>1, <1>5, <1>6, <1>7, CallKept
<1>9. PlaceInv'
  <2>1. CASE sync' = Idle
    BY <2>1, PlaceLeft
  <2>2. CASE sync' = Goto("refresh")
    <3>1. sync'.at = "refresh" /\ class.phase # "gone" /\ class.finalizer
      BY <1>1, <2>2, GotoTyped DEF IInv, PlaceInv, EnsurePlaces, UpdatePlaces
    <3> QED BY <1>8, <3>1, HeldEnough DEF HeldPlaces
  <2>3. CASE sync' = Goto("defaults")
    <3>1. sync'.at = "defaults" /\ sync'.class = sync.class /\ sync'.lb = sync.lb /\ sync'.seen = sync.seen
      BY <1>1, <2>3, GotoTyped DEF IInv, EnsurePlaces, UpdatePlaces
    <3>2. Unclaimed' = Unclaimed
      BY <1>8 DEF Unclaimed
    <3> QED BY <1>1, <1>8, <3>1, <3>2
            DEF IInv, PlaceInv, EnsurePlaces, UpdatePlaces, CreatePlaces, DeletePlaces, ClearPlaces
  <2> QED BY <1>8, <2>1, <2>2, <2>3
<1> QED BY <1>8, <1>9 DEF IInv

\* UpdateShape and UpdateNsgs: what the load balancer is changed to has its tags.
LEMMA SettingKeeps ==
  ASSUME IInv, NEW lb, NEW matches, NEW p \in HeldPlaces, sync.at \in EnsurePlaces,
         Call(sync.lb, lb, matches, Goto(p), Idle),
         sync.lb \in LbId => /\ lb \in LoadBalancer /\ lb.state = lbs[sync.lb].state
                             /\ lb.owner = lbs[sync.lb].owner /\ lb.tags = lbs[sync.lb].tags
  PROVE  IInv'
<1>1. sync.at # "idle" /\ class.phase # "gone" /\ class.finalizer
  BY DEF IInv, PlaceInv, EnsurePlaces, CreatePlaces, UpdatePlaces
<1>2. Goto(p) \in SyncRecord /\ Onward(Goto(p)) /\ Onward(Idle) /\ Goto(p).at = p
  BY <1>1, GotoTyped DEF IInv, HeldPlaces, EnsurePlaces, Onward, Idle
<1>3. CASE Active(sync.lb)
  <2>1. class.phase = "live" /\ OurOwn(sync.lb) => Unclaimed \subseteq lbs[sync.lb].tags
    BY <1>3, TagsAlone DEF OurOwn
  <2>2. ValueInv' /\ WorldInv' /\ sync' \in {Goto(p), Idle} /\ class' = class
    BY <1>2, <2>1, CallKept
  <2>3. PlaceInv'
    BY <1>1, <1>2, <2>2, PlaceLeft, HeldEnough
  <2> QED BY <2>2, <2>3 DEF IInv
<1>4. CASE ~Active(sync.lb)
  <2>1. /\ lbs' = lbs /\ cache' = cache /\ sync' = Idle /\ faults' = faults
        /\ class' = class /\ shape' = shape /\ listed' = listed /\ token' = token /\ edits' = edits
        /\ firewalls' = firewalls /\ recent' = recent
        /\ claimed' = claimed /\ asked' = asked /\ bare' = bare /\ adrift' = adrift /\ panicked' = panicked
    BY <1>4 DEF Call, apiVars, firewallVars, historyVars
  <2>2. ValueInv'
    BY <2>1 DEF IInv, ValueInv, FirewallTypeOK, There
  <2>3. PlaceInv' /\ Onward(sync')
    BY <2>1, PlaceLeft
  <2>4. WorldInv'
    <3>1. \A l \in LbId : cache'[l] # NoCopy => Readable(l)
      BY <2>1 DEF Readable
    <3>2. TagsInv
      BY DEF IInv, WorldInv
    <3> QED BY <2>1, <2>3, <3>1, <3>2, WorldKept DEF IInv, TagsInv
  <2> QED BY <2>2, <2>3, <2>4 DEF IInv
<1> QED BY <1>3, <1>4

LEMMA UpdateShapeKeeps == ASSUME IInv, UpdateShape PROVE IInv'
<1>1. sync.at = "shape" /\ sync \in SyncRecord
  BY SyncPlaces DEF UpdateShape, IInv
<1>2. Call(sync.lb, [lbs[sync.lb] EXCEPT !.shape = sync.shape], sync.seen.current, Goto("nsgs"), Idle)
  BY DEF UpdateShape
<1>3. sync.lb \in LbId => LET lb == [lbs[sync.lb] EXCEPT !.shape = sync.shape]
                         IN  /\ lb \in LoadBalancer /\ lb.state = lbs[sync.lb].state
                             /\ lb.owner = lbs[sync.lb].owner /\ lb.tags = lbs[sync.lb].tags
  BY <1>1, TagsAlone DEF LoadBalancer, SyncRecord
<1> QED BY <1>1, <1>2, <1>3, SettingKeeps DEF EnsurePlaces, HeldPlaces

LEMMA UpdateNsgsKeeps == ASSUME IInv, UpdateNsgs PROVE IInv'
<1>1. sync.at = "updateNsgs" /\ sync \in SyncRecord
  BY SyncPlaces DEF UpdateNsgs, IInv
<1>2. Call(sync.lb, [lbs[sync.lb] EXCEPT !.nsgs = sync.class.nsgs], OwnMatch(sync.lb), Goto("firewall"), Idle)
  BY DEF UpdateNsgs
<1>3. sync.lb \in LbId => LET lb == [lbs[sync.lb] EXCEPT !.nsgs = sync.class.nsgs]
                         IN  /\ lb \in LoadBalancer /\ lb.state = lbs[sync.lb].state
                             /\ lb.owner = lbs[sync.lb].owner /\ lb.tags = lbs[sync.lb].tags
  BY <1>1, TagsAlone DEF LoadBalancer, SyncRecord, Class
<1> QED BY <1>1, <1>2, <1>3, SettingKeeps DEF EnsurePlaces, HeldPlaces

\* The steps of clearLoadBalancer: the class is being deleted, so no tag is missed.
LEMMA ClearingKeeps ==
  ASSUME IInv, NEW lb, NEW matches, NEW p \in ClearPlaces \cup {"unfinalize"}, sync.at \in ClearPlaces,
         Call(sync.lb, lb, matches, Goto(p), Goto(p)),
         sync.lb \in LbId => /\ lb \in LoadBalancer /\ lb.state = lbs[sync.lb].state
                             /\ lb.owner = lbs[sync.lb].owner
  PROVE  IInv'
<1>1. sync.at \in DeletePlaces /\ sync.at # "idle" /\ p \in DeletePlaces
      /\ class.phase # "live" /\ sync.class.protect
  BY DEF IInv, PlaceInv, DeletePlaces, ClearPlaces
<1>2. /\ Goto(p) \in SyncRecord /\ Onward(Goto(p)) /\ Goto(p).at = p /\ Goto(p).class = sync.class
  BY <1>1, GotoTyped DEF IInv
<1>3. /\ ValueInv' /\ WorldInv'
      /\ sync' = Goto(p) /\ class' = class /\ listed' = listed /\ bare' = bare
  BY <1>1, <1>2, CallKept
<1>4. PlaceInv'
  BY <1>1, <1>2, <1>3, DeletionGoesOn DEF IInv, ClearPlaces
<1> QED BY <1>3, <1>4 DEF IInv

LEMMA ClearKeeps == ASSUME IInv, ClearNsgs \/ ClearSet \/ ClearTags PROVE IInv'
<1> DEFINE Same(lb) == sync.lb \in LbId => /\ lb \in LoadBalancer /\ lb.state = lbs[sync.lb].state
                                           /\ lb.owner = lbs[sync.lb].owner
<1>1. /\ Same([lbs[sync.lb] EXCEPT !.nsgs = {}])
      /\ Same([lbs[sync.lb] EXCEPT !.defaultSet = FALSE])
      /\ Same([lbs[sync.lb] EXCEPT !.tags = {}])
  BY TagsAlone DEF LoadBalancer
<1>2. CASE ClearNsgs
  BY <1>1, <1>2, ClearingKeeps DEF ClearNsgs, ClearPlaces
<1>3. CASE ClearSet
  BY <1>1, <1>3, ClearingKeeps DEF ClearSet, ClearPlaces
<1>4. CASE ClearTags
  BY <1>1, <1>4, ClearingKeeps DEF ClearTags, ClearPlaces
<1> QED BY <1>2, <1>3, <1>4

-----------------------------------------------------------------------------
(* The other steps of a sync that leave the class alone.                     *)

LEMMA TakeKeeps == ASSUME IInv, Take PROVE IInv'
<1>1. /\ sync.at = "idle" /\ listed.copy.phase # "gone"
      /\ sync' = [at |-> CASE listed.copy.phase = "deleting" -> "delete"
                           [] listed.copy.phase = "live" /\ ~listed.copy.finalizer -> "finalizer"
                           [] OTHER -> "ensure",
                  class |-> listed.copy, current |-> listed.current,
                  shape |-> shape, lb |-> NoLb, seen |-> NoCopy, made |-> NoFirewall]
      /\ class' = class /\ shape' = shape /\ listed' = listed /\ lbs' = lbs /\ token' = token
      /\ firewalls' = firewalls /\ recent' = recent /\ cache' = cache
      /\ edits' = edits /\ faults' = faults
      /\ claimed' = claimed /\ asked' = asked /\ bare' = bare /\ adrift' = adrift /\ panicked' = panicked
  BY DEF Take, apiVars, serviceVars, firewallVars, boundVars, historyVars
<1>2. sync'.class = listed.copy /\ sync'.current = listed.current
  BY <1>1
<1>3. /\ sync'.at \in {"delete", "finalizer", "ensure"}
      /\ sync'.at = "delete" <=> listed.copy.phase = "deleting"
      /\ sync'.at = "finalizer" <=> listed.copy.phase = "live" /\ ~listed.copy.finalizer
  BY <1>1
<1>4. listed.copy \in Class /\ listed.current \in BOOLEAN
  BY DEF IInv, ValueInv
<1>5. sync' \in SyncRecord
  <2>1. sync'.at \in EnsurePlaces \cup DeletePlaces \cup {"finalizer"}
    BY <1>3 DEF EnsurePlaces, DeletePlaces
  <2> QED BY <1>1, <1>4, <2>1 DEF SyncRecord, IInv, ValueInv
<1>6. ValueInv'
  BY <1>1, <1>5 DEF IInv, ValueInv, FirewallTypeOK, There
<1>7. Versions' = Versions
  BY <1>1, <1>2, <1>3 DEF Versions
<1>8. \A l : /\ Active(l)' <=> Active(l)
             /\ OurOwn(l)' <=> OurOwn(l)
             /\ Users(l)' <=> Users(l)
             /\ Readable(l)' <=> Readable(l)
  BY <1>1 DEF Active, OurOwn, Users, Readable
<1>9. WorldInv'
  <2>1. VersionInv'
    BY <1>1, <1>2 DEF IInv, WorldInv, VersionInv
  <2>2. FinalizerInv' /\ DeletingInv' /\ ProtectedStays' /\ DeletionAsked'
    BY <1>1, <1>8 DEF IInv, WorldInv, FinalizerInv, DeletingInv, ProtectedStays, DeletionAsked
  <2>3. BornInv' /\ KnownInv' /\ ImportedInv'
    BY <1>1, <1>7, <1>8 DEF IInv, WorldInv, BornInv, KnownInv, ImportedInv
  <2>4. TagsInv'
    BY <1>1, <1>7, <1>8 DEF IInv, WorldInv, TagsInv, Supplied, Recorded, Unclaimed
  <2> QED BY <2>1, <2>2, <2>3, <2>4 DEF WorldInv
<1>10. PlaceInv'
  <2>1. CASE sync'.at = "ensure"
    <3>1. listed.copy.phase = "live" /\ listed.copy.finalizer
      BY <1>1, <1>3, <1>4, <2>1 DEF Class
    <3> QED BY <1>1, <2>1, <3>1, HeldEnough DEF IInv, WorldInv, FinalizerInv, HeldPlaces
  <2>2. CASE sync'.at = "delete"
    BY <1>1, <1>2, <1>3, <2>2 DEF IInv, WorldInv, DeletingInv, PlaceInv,
                                   EnsurePlaces, DeletePlaces, CreatePlaces, UpdatePlaces, ClearPlaces
  <2>3. CASE sync'.at = "finalizer"
    BY <1>2, <1>3, <2>3 DEF PlaceInv, EnsurePlaces, DeletePlaces, CreatePlaces, UpdatePlaces, ClearPlaces
  <2> QED BY <1>3, <2>1, <2>2, <2>3
<1> QED BY <1>6, <1>9, <1>10 DEF IInv

LEMMA EnsureKeeps == ASSUME IInv, Ensure PROVE IInv'
<1> DEFINE l == sync.class.id
<1>1. /\ sync.at = "ensure" /\ sync \in SyncRecord
      /\ class' = class /\ shape' = shape /\ listed' = listed /\ lbs' = lbs /\ token' = token
      /\ firewalls' = firewalls /\ recent' = recent /\ edits' = edits /\ faults' = faults
      /\ claimed' = claimed /\ asked' = asked /\ bare' = bare /\ adrift' = adrift /\ panicked' = panicked
  BY SyncPlaces DEF Ensure, IInv, apiVars, serviceVars, firewallVars, boundVars, historyVars
<1>2. class.phase # "gone" /\ class.finalizer /\ shape \in Shape
  BY <1>1 DEF IInv, PlaceInv, EnsurePlaces, ValueInv
<1>3. CASE Readable(l)
  <2>1. sync' = [sync EXCEPT !.at = "check", !.lb = l, !.shape = shape] /\ cache' = Cached(l)
    BY <1>3 DEF Ensure
  <2>2. l \in LbId
    BY <1>3 DEF Readable, Active
  <2>3. /\ sync'.at = "check" /\ sync'.class = sync.class /\ sync'.current = sync.current /\ sync'.lb = l
        /\ sync' \in SyncRecord
    BY <1>1, <1>2, <2>1, <2>2 DEF SyncRecord, EnsurePlaces, UpdatePlaces
  <2>4. Onward(sync')
    BY <1>1, <2>3 DEF Onward
  <2>5. WorldInv' /\ cache' \in [LbId -> Copy \cup {NoCopy}]
    BY <1>1, <1>3, <2>1, <2>4, ReadKept
  <2>6. ValueInv'
    BY <1>1, <2>3, <2>5 DEF IInv, ValueInv, FirewallTypeOK, There
  <2>7. Users(l) => l = class.id
    <3>1. sync.class \in Versions
      BY <1>1 DEF Versions
    <3> QED BY <1>1, <1>3, <3>1 DEF IInv, WorldInv, ImportedInv, Users
  <2>8. PlaceInv'
    BY <1>1, <1>2, <2>2, <2>3, <2>7
    DEF PlaceInv, Users, EnsurePlaces, DeletePlaces, CreatePlaces, UpdatePlaces, ClearPlaces
  <2> QED BY <2>5, <2>6, <2>8 DEF IInv
<1>4. CASE ~Readable(l)
  <2>1. sync' = [sync EXCEPT !.at = "create", !.shape = shape] /\ cache' = cache
    BY <1>4 DEF Ensure
  <2>2. /\ sync'.at = "create" /\ sync'.class = sync.class /\ sync'.current = sync.current
        /\ sync' \in SyncRecord
    BY <1>1, <1>2, <2>1 DEF SyncRecord, EnsurePlaces, CreatePlaces
  <2>3. Onward(sync')
    BY <1>1, <2>2 DEF Onward
  <2>4. WorldInv'
    BY <1>1, <2>1, <2>3, WorldKept DEF IInv, WorldInv, TagsInv, Readable
  <2>5. ValueInv'
    BY <1>1, <2>1, <2>2 DEF IInv, ValueInv, FirewallTypeOK, There
  <2>6. PlaceInv'
    BY <1>1, <1>2, <1>4, <2>1, <2>2
    DEF PlaceInv, Readable, Active, EnsurePlaces, DeletePlaces, CreatePlaces, UpdatePlaces, ClearPlaces
  <2> QED BY <2>4, <2>5, <2>6 DEF IInv
<1> QED BY <1>3, <1>4

\* The process ends, and the next one lists the class.
LEMMA RestartKeeps ==
  ASSUME IInv, Restart, faults' \in 0..MaxFaults, edits' = edits, claimed' = claimed, asked' = asked, bare' = bare,
         adrift' \subseteq FirewallId, panicked' \in BOOLEAN
  PROVE  IInv'
<1>1. /\ sync' = Idle /\ cache' = [l \in LbId |-> NoCopy]
      /\ listed' = [copy |-> class, current |-> TRUE] /\ recent' = {}
      /\ class' = class /\ shape' = shape /\ lbs' = lbs /\ token' = token /\ firewalls' = firewalls
  BY DEF Restart
<1>2. ValueInv'
  BY <1>1 DEF IInv, ValueInv, FirewallTypeOK, There
<1>3. PlaceInv'
  BY <1>1, PlaceLeft
<1>4. Versions' \subseteq Versions /\ Versions' = {class} /\ sync'.at = "idle"
  BY <1>1 DEF Versions, Idle
<1>5. \A l : /\ Active(l)' <=> Active(l)
             /\ OurOwn(l)' <=> OurOwn(l)
             /\ Users(l)' <=> Users(l)
             /\ Readable(l)' => Readable(l)
  BY <1>1 DEF Active, OurOwn, Users, Readable
<1>6. VersionInv' /\ DeletingInv' /\ ProtectedStays' /\ DeletionAsked'
  BY <1>1, <1>4, <1>5 DEF IInv, WorldInv, VersionInv, DeletingInv, ProtectedStays, DeletionAsked
<1>7. FinalizerInv'
  BY <1>1, <1>5 DEF IInv, WorldInv, FinalizerInv
<1>8. BornInv' /\ KnownInv' /\ ImportedInv'
  BY <1>1, <1>4, <1>5 DEF IInv, WorldInv, BornInv, KnownInv, ImportedInv
<1>9. TagsInv'
  BY <1>1, <1>4, <1>5 DEF IInv, WorldInv, TagsInv, Supplied, Recorded, Unclaimed
<1> QED BY <1>2, <1>3, <1>6, <1>7, <1>8, <1>9 DEF IInv, WorldInv

LEMMA PanicKeeps == ASSUME IInv, NEW l, Panic(l) PROVE IInv'
BY RestartKeeps DEF Panic, boundVars, IInv, ValueInv

\* The two reads of Check and of CheckNsgs.
LEMMA CheckKeeps == ASSUME IInv, Check PROVE IInv'
<1>1. CASE ~Readable(sync.lb)
  BY <1>1, PanicKeeps DEF Check
<1>2. CASE Readable(sync.lb)
  <2> DEFINE seen  == Document(sync.lb)
             place == CASE seen.tags # NewTags(seen.tags, sync.class) -> "tags"
                        [] sync.class.defaults # {NewDefaults(seen.tags, sync.class)} -> "defaults"
                        [] OTHER -> "refresh"
  <2>1. /\ sync.at = "check" /\ sync \in SyncRecord /\ cache' = Cached(sync.lb)
        /\ class' = class /\ shape' = shape /\ listed' = listed /\ lbs' = lbs /\ token' = token
        /\ firewalls' = firewalls /\ recent' = recent /\ edits' = edits /\ faults' = faults
        /\ claimed' = claimed /\ asked' = asked /\ bare' = bare /\ adrift' = adrift /\ panicked' = panicked
    BY <1>2, SyncPlaces DEF Check, IInv, apiVars, boundVars, historyVars
  <2>2. sync' = [sync EXCEPT !.seen = seen, !.at = place] /\ place \in {"tags", "defaults", "refresh"}
    BY <1>2 DEF Check
  <2>3. sync.lb \in LbId /\ seen \in Copy
    BY <1>2, DocumentTyped DEF Readable, Active, IInv
  <2>4. /\ sync'.at \in {"tags", "defaults", "refresh"} /\ sync'.class = sync.class
        /\ sync'.current = sync.current /\ sync'.lb = sync.lb /\ sync'.seen = seen
    <3> HIDE DEF seen, place
    <3> QED BY <2>1, <2>2 DEF SyncRecord
  <2>5. sync' \in SyncRecord /\ Onward(sync')
    <3>1. place \in EnsurePlaces
      BY <2>2 DEF EnsurePlaces, UpdatePlaces
    <3> HIDE DEF seen, place
    <3> QED BY <2>1, <2>2, <2>3, <2>4, <3>1 DEF SyncRecord, Onward
  <2>6. /\ WorldInv' /\ cache' \in [LbId -> Copy \cup {NoCopy}]
        /\ class.phase = "live" /\ OurOwn(sync.lb) => Unclaimed \subseteq seen.tags
    BY <1>2, <2>1, <2>5, ReadKept
  <2>7. ValueInv'
    BY <2>1, <2>5, <2>6 DEF IInv, ValueInv, FirewallTypeOK, There
  <2>8. /\ class.phase # "gone" /\ class.finalizer
        /\ sync.lb = sync.class.id /\ (Users(sync.lb) => sync.lb = class.id)
    BY <2>1 DEF IInv, PlaceInv, EnsurePlaces, UpdatePlaces
  <2>9. PlaceInv'
    <3>1. CASE sync'.at = "refresh"
      BY <2>1, <2>8, <3>1, HeldEnough DEF HeldPlaces
    <3>2. CASE sync'.at \in {"tags", "defaults"}
      <4>1. /\ Unclaimed' = Unclaimed
            /\ OurOwn(sync.lb)' <=> OurOwn(sync.lb)
            /\ Users(sync.lb)' <=> Users(sync.lb)
        BY <2>1, <2>4 DEF Unclaimed, OurOwn, Users
      <4> HIDE DEF seen
      <4> QED BY <2>1, <2>3, <2>4, <2>6, <2>8, <3>2, <4>1
              DEF PlaceInv, EnsurePlaces, DeletePlaces, CreatePlaces, UpdatePlaces, ClearPlaces
    <3> QED BY <2>4, <3>1, <3>2
  <2> QED BY <2>6, <2>7, <2>9 DEF IInv
<1> QED BY <1>1, <1>2

LEMMA RefreshKeeps == ASSUME IInv, Refresh PROVE IInv'
<1>1. CASE ~Readable(sync.lb)
  BY <1>1, PanicKeeps DEF Refresh
<1>2. CASE Readable(sync.lb)
  <2> DEFINE seen  == Document(sync.lb)
             place == IF seen.shape # sync.shape THEN "shape" ELSE "nsgs"
  <2>1. /\ sync.at = "refresh" /\ sync \in SyncRecord /\ cache' = Cached(sync.lb)
        /\ sync' = [sync EXCEPT !.seen = seen, !.at = place]
        /\ class' = class /\ shape' = shape /\ listed' = listed /\ lbs' = lbs /\ token' = token
        /\ firewalls' = firewalls /\ recent' = recent /\ edits' = edits /\ faults' = faults
        /\ claimed' = claimed /\ asked' = asked /\ bare' = bare /\ adrift' = adrift /\ panicked' = panicked
    BY <1>2, SyncPlaces DEF Refresh, IInv, apiVars, boundVars, historyVars
  <2>2. seen \in Copy /\ place \in {"shape", "nsgs"} /\ place \in EnsurePlaces
    BY <1>2, DocumentTyped DEF Readable, Active, IInv, EnsurePlaces
  <2> HIDE DEF seen, place
  <2>3. sync' \in SyncRecord /\ Onward(sync') /\ sync'.at = place /\ sync'.seen = seen
    BY <2>1, <2>2 DEF SyncRecord, Onward
  <2>4. WorldInv' /\ cache' \in [LbId -> Copy \cup {NoCopy}]
    BY <1>2, <2>1, <2>3, ReadKept
  <2>5. ValueInv'
    BY <2>1, <2>3, <2>4 DEF IInv, ValueInv, FirewallTypeOK, There
  <2>6. PlaceInv'
    BY <2>1, <2>2, <2>3
    DEF IInv, PlaceInv, EnsurePlaces, DeletePlaces, CreatePlaces, UpdatePlaces, ClearPlaces
  <2> QED BY <2>4, <2>5, <2>6 DEF IInv
<1> QED BY <1>1, <1>2

LEMMA CheckNsgsKeeps == ASSUME IInv, CheckNsgs PROVE IInv'
<1>1. CASE ~Readable(sync.lb)
  BY <1>1, PanicKeeps DEF CheckNsgs
<1>2. CASE Readable(sync.lb)
  <2> DEFINE place == IF Document(sync.lb).nsgs = sync.class.nsgs THEN "firewall" ELSE "updateNsgs"
  <2>1. /\ sync.at = "nsgs" /\ cache' = Cached(sync.lb) /\ sync' = Goto(place)
        /\ class' = class /\ shape' = shape /\ listed' = listed /\ lbs' = lbs /\ token' = token
        /\ firewalls' = firewalls /\ recent' = recent /\ edits' = edits /\ faults' = faults
        /\ claimed' = claimed /\ asked' = asked /\ bare' = bare /\ adrift' = adrift /\ panicked' = panicked
    BY <1>2 DEF CheckNsgs, apiVars, boundVars, historyVars
  <2>2. place \in HeldPlaces /\ place \in EnsurePlaces
    BY DEF EnsurePlaces, HeldPlaces
  <2> HIDE DEF place
  <2>3. sync' \in SyncRecord /\ Onward(sync') /\ sync'.at = place
    BY <2>1, <2>2, GotoTyped DEF IInv
  <2>4. WorldInv' /\ cache' \in [LbId -> Copy \cup {NoCopy}]
    BY <1>2, <2>1, <2>3, ReadKept
  <2>5. ValueInv'
    BY <2>1, <2>3, <2>4 DEF IInv, ValueInv, FirewallTypeOK, There
  <2>6. class.phase # "gone" /\ class.finalizer
    BY <2>1 DEF IInv, PlaceInv, EnsurePlaces
  <2>7. PlaceInv'
    BY <2>1, <2>2, <2>3, <2>6, HeldEnough
  <2> QED BY <2>4, <2>5, <2>7 DEF IInv
<1> QED BY <1>1, <1>2

\* What happens to firewalls is nothing to the class and its load balancer.
LEMMA FirewallStep ==
  ASSUME IInv, class' = class, shape' = shape, listed' = listed, lbs' = lbs, token' = token,
         cache' = cache, edits' = edits, claimed' = claimed, asked' = asked, bare' = bare, panicked' = panicked,
         FirewallTypeOK', faults' = faults \/ (faults > 0 /\ faults' = faults - 1),
         adrift' \subseteq FirewallId,
         Onward(sync'), sync' = Idle \/ sync' \in SyncRecord
  PROVE  ValueInv' /\ WorldInv'
<1>1. faults' \in 0..MaxFaults
  BY FaultTyped DEF IInv, ValueInv
<1>2. ValueInv'
  BY <1>1 DEF IInv, ValueInv
<1>3. TagsInv
  BY DEF IInv, WorldInv
<1>4. WorldInv'
  BY <1>3, WorldKept DEF IInv, TagsInv, Readable
<1> QED BY <1>2, <1>4

\* The client never has the policy of a firewall that was not made, and a load
\* balancer never has two firewalls.
LEMMA FirewallsTyped ==
  ASSUME FirewallTypeOK
  PROVE  /\ UNCHANGED firewallVars => FirewallTypeOK'
         /\ \A f \in FirewallId : ReadPolicy(f) /\ firewalls' = firewalls => FirewallTypeOK'
         /\ \A f : ExpirePolicy(f) => FirewallTypeOK'
         /\ \A f \in FirewallId, l \in LbId, p \in Policy \cup {NoPolicy} : Make(f, l, p) => FirewallTypeOK'
         /\ \A f \in FirewallId : Remove(f) => FirewallTypeOK'
         /\ \A l : RemoveWith(l) => FirewallTypeOK'
<1>1. UNCHANGED firewallVars => FirewallTypeOK'
  BY DEF FirewallTypeOK, firewallVars, There
<1>2. \A f \in FirewallId : ReadPolicy(f) /\ firewalls' = firewalls => FirewallTypeOK'
  BY DEF FirewallTypeOK, ReadPolicy, There
<1>3. \A f : ExpirePolicy(f) => FirewallTypeOK'
  BY DEF FirewallTypeOK, ExpirePolicy, There
<1>4. ASSUME NEW f \in FirewallId, NEW l \in LbId, NEW p \in Policy \cup {NoPolicy}, Make(f, l, p)
      PROVE  FirewallTypeOK'
  <2>1. /\ firewalls' = [firewalls EXCEPT ![f] = [lb |-> l, policy |-> p]] /\ recent' = recent
        /\ \A g \in FirewallId : firewalls[g].lb # l
    BY <1>4 DEF Make, Protected
  <2>2. \A g \in FirewallId : firewalls'[g] = IF g = f THEN [lb |-> l, policy |-> p] ELSE firewalls[g]
    BY <2>1 DEF FirewallTypeOK
  <2>3. \A g \in FirewallId : firewalls'[g].lb = IF g = f THEN l ELSE firewalls[g].lb
    BY <2>2
  <2>4. \A g, h \in FirewallId : There(g)' /\ firewalls'[g].lb = firewalls'[h].lb => g = h
    BY <2>1, <2>3 DEF FirewallTypeOK, There
  <2> QED BY <2>1, <2>4 DEF FirewallTypeOK
<1>5. ASSUME NEW f \in FirewallId, Remove(f)
      PROVE  FirewallTypeOK'
  <2>1. recent' = recent /\ (firewalls' = firewalls \/ firewalls' = [firewalls EXCEPT ![f].lb = NoLb])
    BY <1>5 DEF Remove
  <2>2. \A g \in FirewallId : /\ firewalls'[g].lb \in {firewalls[g].lb, NoLb}
                              /\ firewalls'[g].policy = firewalls[g].policy
    BY <2>1 DEF FirewallTypeOK
  <2>3. firewalls' \in [FirewallId -> [lb : LbId \cup {NoLb}, policy : Policy \cup {NoPolicy}]]
    BY <2>1 DEF FirewallTypeOK
  <2>4. \A g, h \in FirewallId : There(g)' /\ firewalls'[g].lb = firewalls'[h].lb => g = h
    BY <2>2 DEF FirewallTypeOK, There
  <2> QED BY <2>1, <2>3, <2>4 DEF FirewallTypeOK
<1>6. ASSUME NEW l, RemoveWith(l)
      PROVE  FirewallTypeOK'
  <2>1. /\ recent' = recent
        /\ firewalls' = [f \in FirewallId |->
             IF firewalls[f].lb = l THEN [firewalls[f] EXCEPT !.lb = NoLb] ELSE firewalls[f]]
    BY <1>6 DEF RemoveWith
  <2>2. \A g \in FirewallId : firewalls'[g].lb \in {firewalls[g].lb, NoLb}
    BY <2>1 DEF FirewallTypeOK
  <2>3. firewalls' \in [FirewallId -> [lb : LbId \cup {NoLb}, policy : Policy \cup {NoPolicy}]]
    BY <2>1 DEF FirewallTypeOK
  <2>4. \A g, h \in FirewallId : There(g)' /\ firewalls'[g].lb = firewalls'[h].lb => g = h
    BY <2>2 DEF FirewallTypeOK, There
  <2> QED BY <2>1, <2>3, <2>4 DEF FirewallTypeOK
<1> QED BY <1>1, <1>2, <1>3, <1>4, <1>5, <1>6

LEMMA SetupFirewallKeeps == ASSUME IInv, SetupFirewall PROVE IInv'
<1>1. /\ sync.at = "firewall" /\ class' = class /\ shape' = shape /\ listed' = listed /\ lbs' = lbs
      /\ token' = token /\ cache' = cache /\ edits' = edits /\ firewalls' = firewalls
      /\ claimed' = claimed /\ asked' = asked /\ bare' = bare /\ adrift' = adrift /\ panicked' = panicked
      /\ faults' = faults \/ (faults > 0 /\ faults' = faults - 1)
      /\ recent' = recent \/ (ReadPolicy(sync.class.firewall) /\ FirewallReadable(sync.class.firewall))
      /\ \/ sync' = Idle \/ sync' = Goto("makeFirewall")
         \/ sync' = Goto("dropFirewall") /\ sync.class.firewall # NoFirewall
  BY DEF SetupFirewall, apiVars, historyVars
<1>2. /\ sync \in SyncRecord /\ class.phase # "gone" /\ class.finalizer /\ sync.at # "idle"
      /\ FirewallTypeOK /\ adrift \subseteq FirewallId
  BY <1>1, SyncPlaces DEF IInv, ValueInv, PlaceInv, EnsurePlaces
<1>3. FirewallTypeOK'
  <2>1. FirewallReadable(sync.class.firewall) => sync.class.firewall \in FirewallId
    BY <1>2 DEF FirewallReadable, There, FirewallTypeOK
  <2> QED BY <1>1, <1>2, <2>1, FirewallsTyped DEF firewallVars
<1>4. /\ Onward(sync') /\ (sync' = Idle \/ sync' \in SyncRecord)
      /\ sync' = Idle \/ (sync'.at \in {"makeFirewall", "dropFirewall"} /\ sync'.class = sync.class)
  BY <1>1, <1>2, GotoTyped, PlaceLeft DEF EnsurePlaces, IInv
<1>5. ValueInv' /\ WorldInv'
  BY <1>1, <1>2, <1>3, <1>4, FirewallStep
<1>6. PlaceInv'
  <2>1. CASE sync' = Idle
    BY <2>1, PlaceLeft
  <2>2. CASE sync' = Goto("makeFirewall")
    BY <1>1, <1>2, <2>2, HeldEnough, GotoTyped DEF HeldPlaces, EnsurePlaces, IInv
  <2>3. CASE sync' = Goto("dropFirewall") /\ sync.class.firewall # NoFirewall
    <3>1. sync'.at = "dropFirewall" /\ sync'.class = sync.class /\ sync.class.firewall \in FirewallId
      BY <1>2, <2>3, GotoTyped DEF EnsurePlaces, IInv, SyncRecord, Class
    <3> QED BY <1>1, <1>2, <3>1
            DEF PlaceInv, EnsurePlaces, DeletePlaces, CreatePlaces, UpdatePlaces, ClearPlaces
  <2> QED BY <1>1, <2>1, <2>2, <2>3
<1> QED BY <1>5, <1>6 DEF IInv

LEMMA MakeFirewallKeeps == ASSUME IInv, MakeFirewall PROVE IInv'
<1>1. /\ sync.at = "makeFirewall" /\ class' = class /\ shape' = shape /\ listed' = listed /\ lbs' = lbs
      /\ token' = token /\ cache' = cache /\ edits' = edits
      /\ claimed' = claimed /\ asked' = asked /\ bare' = bare /\ panicked' = panicked
  BY DEF MakeFirewall, apiVars
<1>2. /\ sync \in SyncRecord /\ class.phase # "gone" /\ class.finalizer /\ sync.at # "idle"
      /\ FirewallTypeOK /\ adrift \subseteq FirewallId
      /\ sync.class.policy \in Policy \cup {NoPolicy}
  BY <1>1, SyncPlaces DEF IInv, ValueInv, PlaceInv, EnsurePlaces, SyncRecord, Class
<1>3. CASE (~Active(sync.lb) \/ Protected(sync.lb)) /\ sync' = Idle
            /\ UNCHANGED <<firewallVars, faults, adrift>>
  <2>1. FirewallTypeOK' /\ faults' = faults /\ adrift' = adrift
    BY <1>2, <1>3, FirewallsTyped
  <2> QED BY <1>1, <1>2, <1>3, <2>1, FirewallStep, PlaceLeft DEF IInv
<1>4. ASSUME NEW f \in FirewallId, Active(sync.lb), Make(f, sync.lb, sync.class.policy),
             \/ /\ sync' = [sync EXCEPT !.at = "recordFirewall", !.made = f]
                /\ UNCHANGED <<faults, adrift>>
             \/ /\ faults > 0 /\ faults' = faults - 1
                /\ sync' = Idle
                /\ adrift' = adrift \cup {f}
      PROVE  IInv'
  <2>1. FirewallTypeOK'
    BY <1>2, <1>4, FirewallsTyped DEF Active
  <2>2. adrift' \subseteq FirewallId /\ (faults' = faults \/ (faults > 0 /\ faults' = faults - 1))
    BY <1>2, <1>4
  <2>3. CASE sync' = Idle
    BY <1>1, <2>1, <2>2, <2>3, FirewallStep, PlaceLeft DEF IInv
  <2>4. CASE sync' = [sync EXCEPT !.at = "recordFirewall", !.made = f]
    <3>1. /\ sync' \in SyncRecord /\ sync'.at = "recordFirewall" /\ sync'.made = f
          /\ sync'.class = sync.class /\ sync'.current = sync.current
      BY <1>2, <2>4 DEF SyncRecord, EnsurePlaces
    <3>2. Onward(sync')
      BY <1>2, <3>1 DEF Onward
    <3>3. ValueInv' /\ WorldInv'
      BY <1>1, <2>1, <2>2, <3>1, <3>2, FirewallStep
    <3>4. PlaceInv'
      BY <1>1, <1>2, <3>1
      DEF PlaceInv, EnsurePlaces, DeletePlaces, CreatePlaces, UpdatePlaces, ClearPlaces
    <3> QED BY <3>3, <3>4 DEF IInv
  <2> QED BY <1>4, <2>3, <2>4
<1> QED BY <1>3, <1>4 DEF MakeFirewall

LEMMA DropFirewallKeeps == ASSUME IInv, DropFirewall PROVE IInv'
<1>1. /\ sync.at = "dropFirewall" /\ class' = class /\ shape' = shape /\ listed' = listed /\ lbs' = lbs
      /\ token' = token /\ cache' = cache /\ edits' = edits
      /\ claimed' = claimed /\ asked' = asked /\ bare' = bare /\ panicked' = panicked
      /\ sync' = Goto("forgetFirewall")
      /\ \/ Remove(sync.class.firewall) /\ UNCHANGED <<faults, adrift>>
         \/ /\ faults > 0 /\ faults' = faults - 1
            /\ adrift' = adrift \cup {sync.class.firewall}
            /\ UNCHANGED firewallVars
  BY DEF DropFirewall, apiVars
<1>2. /\ class.phase # "gone" /\ class.finalizer /\ sync.class.firewall \in FirewallId
      /\ FirewallTypeOK /\ adrift \subseteq FirewallId
  BY <1>1 DEF IInv, ValueInv, PlaceInv, EnsurePlaces
<1>3. FirewallTypeOK'
  BY <1>1, <1>2, FirewallsTyped
<1>4. sync' \in SyncRecord /\ Onward(sync') /\ sync'.at = "forgetFirewall"
  BY <1>1, GotoTyped DEF EnsurePlaces, IInv
<1>5. ValueInv' /\ WorldInv'
  <2>1. adrift' \subseteq FirewallId /\ (faults' = faults \/ (faults > 0 /\ faults' = faults - 1))
    BY <1>1, <1>2
  <2> QED BY <1>1, <1>3, <1>4, <2>1, FirewallStep
<1>6. PlaceInv'
  BY <1>1, <1>2, <1>4, HeldEnough DEF HeldPlaces
<1> QED BY <1>5, <1>6 DEF IInv

LEMMA DeleteKeeps == ASSUME IInv, Delete PROVE IInv'
<1> DEFINE l == sync.class.id
<1>1. /\ sync.at = "delete" /\ class' = class /\ shape' = shape /\ listed' = listed /\ lbs' = lbs
      /\ token' = token /\ firewalls' = firewalls /\ recent' = recent /\ edits' = edits /\ faults' = faults
      /\ claimed' = claimed /\ asked' = asked /\ bare' = bare /\ adrift' = adrift /\ panicked' = panicked
  BY DEF Delete, apiVars, serviceVars, firewallVars, boundVars, historyVars
<1>2. sync \in SyncRecord /\ l \in LbId \cup {NoLb}
  BY <1>1, SyncPlaces DEF IInv, SyncRecord, Class
<1>3. FirewallTypeOK' /\ adrift' \subseteq FirewallId
  BY <1>1, FirewallsTyped DEF IInv, ValueInv, firewallVars
<1>4. CASE sync.class.protect /\ Readable(l)
  <2>1. /\ cache' = Cached(l)
        /\ sync' = [sync EXCEPT !.lb = l,
                      !.at = IF sync.class.firewall = NoFirewall THEN ClearPlace ELSE "clearFirewall"]
    BY <1>4 DEF Delete
  <2>2. /\ sync'.at \in ClearPlaces /\ sync'.class = sync.class /\ sync'.current = sync.current
        /\ sync' \in SyncRecord /\ Onward(sync')
    <3>1. ClearPlace \in ClearPlaces /\ "clearFirewall" \in ClearPlaces
      BY DEF ClearPlace, ClearPlaces
    <3> HIDE DEF ClearPlace, l
    <3> QED BY <1>1, <1>2, <2>1, <3>1 DEF SyncRecord, DeletePlaces, Onward
  <2>3. WorldInv' /\ cache' \in [LbId -> Copy \cup {NoCopy}]
    BY <1>1, <1>4, <2>1, <2>2, ReadKept
  <2>4. ValueInv'
    BY <1>1, <1>3, <2>2, <2>3 DEF IInv, ValueInv
  <2>5. PlaceInv'
    BY <1>1, <1>4, <2>2, DeletionGoesOn DEF IInv, DeletePlaces, ClearPlaces
  <2> QED BY <2>3, <2>4, <2>5 DEF IInv
<1>5. CASE ~(sync.class.protect /\ Readable(l))
  <2>1. /\ cache' = cache
        /\ \/ sync' = Goto("unfinalize") /\ (~sync.class.protect => l = NoLb)
           \/ sync' = Goto("deleteLb") /\ l # NoLb /\ ~sync.class.protect
    BY <1>5 DEF Delete
  <2>2. /\ sync'.at \in {"unfinalize", "deleteLb"} /\ sync'.class = sync.class
        /\ sync' \in SyncRecord /\ Onward(sync')
        /\ sync'.at = "unfinalize" => sync' = Goto("unfinalize")
        /\ sync'.at = "deleteLb" => sync' = Goto("deleteLb")
    BY <1>1, <2>1, GotoTyped DEF IInv, DeletePlaces
  <2>3. ValueInv'
    BY <1>1, <1>3, <2>1, <2>2 DEF IInv, ValueInv
  <2>4. WorldInv'
    BY <1>1, <2>1, <2>2, WorldKept DEF IInv, WorldInv, TagsInv, Readable
  <2>5. PlaceInv'
    <3>1. /\ sync'.at = "deleteLb" => ~sync.class.protect /\ sync.class.id \in LbId
          /\ sync'.at = "unfinalize" /\ ~sync.class.protect => sync.class.id = NoLb
      BY <1>1, <1>2, <2>1, <2>2, GotoTyped DEF IInv, DeletePlaces
    <3> QED BY <1>1, <2>2, <3>1, DeletionGoesOn DEF IInv, DeletePlaces, ClearPlaces
  <2> QED BY <2>3, <2>4, <2>5 DEF IInv
<1> QED BY <1>4, <1>5

LEMMA ClearFirewallKeeps == ASSUME IInv, ClearFirewall PROVE IInv'
<1>1. /\ sync.at = "clearFirewall" /\ Remove(sync.class.firewall) /\ sync' = Goto(ClearPlace)
      /\ class' = class /\ shape' = shape /\ listed' = listed /\ lbs' = lbs
      /\ token' = token /\ cache' = cache /\ edits' = edits /\ faults' = faults
      /\ claimed' = claimed /\ asked' = asked /\ bare' = bare /\ adrift' = adrift /\ panicked' = panicked
  BY DEF ClearFirewall, apiVars, boundVars, historyVars
<1>2. ClearPlace \in ClearPlaces /\ ClearPlace \in DeletePlaces
  BY DEF ClearPlace, ClearPlaces, DeletePlaces
<1>3. sync' \in SyncRecord /\ Onward(sync') /\ sync'.at = ClearPlace /\ sync'.class = sync.class
  BY <1>1, <1>2, GotoTyped DEF IInv
<1>4. FirewallTypeOK' /\ adrift' \subseteq FirewallId
  <2>1. FirewallTypeOK /\ adrift \subseteq FirewallId
    BY DEF IInv, ValueInv
  <2>2. CASE sync.class.firewall \in FirewallId
    BY <1>1, <2>1, <2>2, FirewallsTyped
  <2>3. CASE sync.class.firewall \notin FirewallId
    BY <1>1, <2>1, <2>3, FirewallsTyped DEF Remove, There, firewallVars
  <2> QED BY <1>1, <2>1, <2>2, <2>3
<1>5. ValueInv' /\ WorldInv'
  BY <1>1, <1>3, <1>4, FirewallStep
<1>6. PlaceInv'
  BY <1>1, <1>2, <1>3, DeletionGoesOn DEF IInv, PlaceInv, DeletePlaces, ClearPlaces, ClearPlace
<1> QED BY <1>5, <1>6 DEF IInv

-----------------------------------------------------------------------------
(* The steps that patch the class.                                           *)

\* A patch that leaves the id, the supplied tags, the protection and the deletion
\* of the class alone, and records the default tags of its own load balancer.
LEMMA PatchKept ==
  ASSUME IInv, NEW c \in Class, Patch(c),
         c.id = class.id, c.defined = class.defined, c.protect = class.protect, c.phase = class.phase,
         class.finalizer => c.finalizer,
         class.phase = "live" /\ OurOwn(class.id) => Unclaimed \subseteq Recorded(c),
         UNCHANGED <<serviceVars, cache, boundVars, historyVars>>,
         sync' = Idle \/ (/\ sync.at # "idle" /\ sync' \in SyncRecord
                          /\ sync'.class = sync.class /\ ~sync'.current)
  PROVE  /\ ValueInv' /\ WorldInv' /\ class' = c
         /\ \A l : OurOwn(l)' <=> OurOwn(l)
         /\ \A l : Users(l)' <=> Users(l)
         /\ \A l : Readable(l)' <=> Readable(l)
         /\ Unclaimed' = Unclaimed
<1>1. /\ class' = c /\ shape' = shape /\ lbs' = lbs /\ token' = token /\ cache' = cache
      /\ firewalls' = firewalls /\ recent' = recent /\ edits' = edits /\ faults' = faults
      /\ claimed' = claimed /\ asked' = asked /\ bare' = bare /\ adrift' = adrift /\ panicked' = panicked
  BY DEF Patch, serviceVars, firewallVars, boundVars, historyVars
<1>2. /\ listed' \in [copy : Class, current : BOOLEAN]
      /\ listed'.copy = listed.copy /\ ~listed'.current
  BY DEF Patch, IInv, ValueInv
<1>3. ValueInv'
  BY <1>1, <1>2 DEF IInv, ValueInv, FirewallTypeOK, There
<1>4. /\ \A l : Active(l)' <=> Active(l)
      /\ \A l : OurOwn(l)' <=> OurOwn(l)
      /\ \A l : Users(l)' <=> Users(l)
      /\ \A l : Readable(l)' <=> Readable(l)
      /\ Unclaimed' = Unclaimed
  BY <1>1 DEF Active, OurOwn, Users, Readable, Unclaimed
<1>5. \A v \in Versions' : v = c \/ v \in Versions
  BY <1>1, <1>2 DEF Versions, Idle
<1>6. class \in Versions
  BY DEF Versions
<1>7. VersionInv'
  BY <1>2 DEF VersionInv, Idle
<1>8. FinalizerInv' /\ DeletingInv' /\ ProtectedStays' /\ DeletionAsked'
  BY <1>1, <1>2, <1>4 DEF IInv, WorldInv, FinalizerInv, DeletingInv, ProtectedStays, DeletionAsked
<1>9. \A v \in Versions' : \E w \in Versions : v.id = w.id /\ v.defined = w.defined
  BY <1>5, <1>6
<1>10. BornInv' /\ KnownInv' /\ ImportedInv'
  BY <1>1, <1>4, <1>9 DEF IInv, WorldInv, BornInv, KnownInv, ImportedInv
<1>11. TagsInv'
  BY <1>1, <1>4, <1>5, <1>6, <1>9 DEF IInv, WorldInv, TagsInv, Supplied
<1> QED BY <1>1, <1>3, <1>4, <1>7, <1>8, <1>10, <1>11 DEF WorldInv

\* A step of a sync that ends it and changes nothing else.
LEMMA GivesUp ==
  ASSUME IInv, sync' = Idle, UNCHANGED <<apiVars, serviceVars, cache, edits>>,
         claimed' = claimed, asked' = asked, bare' = bare, panicked' = panicked, adrift' \subseteq FirewallId,
         faults' = faults \/ (faults > 0 /\ faults' = faults - 1)
  PROVE  IInv'
<1>1. /\ class' = class /\ shape' = shape /\ listed' = listed /\ lbs' = lbs /\ token' = token
      /\ cache' = cache /\ edits' = edits
      /\ UNCHANGED firewallVars
  BY DEF apiVars, serviceVars
<1>2. FirewallTypeOK'
  BY <1>1, FirewallsTyped DEF IInv, ValueInv
<1>3. PlaceInv' /\ Onward(sync')
  BY PlaceLeft
<1>4. ValueInv' /\ WorldInv'
  BY <1>1, <1>2, <1>3, FirewallStep
<1> QED BY <1>3, <1>4 DEF IInv

LEMMA EnsureFinalizerKeeps == ASSUME IInv, EnsureFinalizer PROVE IInv'
<1>1. sync.at = "finalizer" /\ sync \in SyncRecord /\ UNCHANGED <<serviceVars, cache, boundVars, historyVars>>
  BY SyncPlaces DEF EnsureFinalizer, IInv
<1>2. CASE ~sync.current
  BY <1>1, <1>2, GivesUp DEF EnsureFinalizer, boundVars, historyVars, IInv, ValueInv
<1>3. CASE sync.current
  <2> DEFINE c == [class EXCEPT !.finalizer = TRUE]
  <2>1. Patch(c) /\ sync' = [sync EXCEPT !.at = "ensure", !.current = FALSE]
    BY <1>3 DEF EnsureFinalizer
  <2>2. /\ class \in Class /\ class.phase = "live"
    BY <1>1, <1>3 DEF IInv, ValueInv, WorldInv, VersionInv, PlaceInv
  <2>3. /\ c \in Class /\ c.id = class.id /\ c.defined = class.defined /\ c.defaults = class.defaults
        /\ c.protect = class.protect /\ c.phase = class.phase /\ c.finalizer
    BY <2>2 DEF Class
  <2> HIDE DEF c
  <2>4. sync' \in SyncRecord /\ sync'.class = sync.class /\ ~sync'.current /\ sync'.at = "ensure"
    BY <1>1, <2>1 DEF SyncRecord, EnsurePlaces
  <2>5. class.phase = "live" /\ OurOwn(class.id) => Unclaimed \subseteq Recorded(c)
    BY <2>3 DEF IInv, WorldInv, TagsInv, Versions, Recorded
  <2>6. ValueInv' /\ WorldInv' /\ class' = c
    BY <1>1, <2>1, <2>3, <2>4, <2>5, PatchKept
  <2>7. PlaceInv'
    BY <2>2, <2>3, <2>4, <2>6, HeldEnough DEF HeldPlaces
  <2> QED BY <2>6, <2>7 DEF IInv
<1> QED BY <1>2, <1>3

LEMMA BackfillKeeps == ASSUME IInv, Backfill PROVE IInv'
<1> DEFINE kept == sync.seen.tags \ Supplied(sync.class)
           c    == [class EXCEPT !.defaults = {kept}]
<1>1. /\ sync.at = "backfill" /\ sync \in SyncRecord
      /\ UNCHANGED <<serviceVars, cache, boundVars, historyVars>>
      /\ Patch(c) /\ sync' = [sync EXCEPT !.at = "annotate", !.seen = NoCopy, !.current = FALSE]
  BY SyncPlaces DEF Backfill, IInv
<1>2. /\ class \in Class /\ sync.class \in Versions /\ sync.seen \in Copy
      /\ class.phase # "gone" /\ class.finalizer /\ OurOwn(sync.lb) /\ lbs[sync.lb].state # "none"
      /\ ~Readable(sync.class.id)
      /\ class.phase = "live" => Unclaimed \subseteq sync.seen.tags
  BY <1>1 DEF IInv, ValueInv, PlaceInv, EnsurePlaces, CreatePlaces, Versions
<1>3. kept \subseteq Tag
  BY <1>2 DEF Copy
<1>4. class.phase = "live" => Unclaimed \subseteq kept
  BY <1>2 DEF IInv, WorldInv, TagsInv, Unclaimed
<1> HIDE DEF kept
<1>5. /\ c \in Class /\ c.id = class.id /\ c.defined = class.defined /\ c.defaults = {kept}
      /\ c.protect = class.protect /\ c.phase = class.phase /\ c.finalizer = class.finalizer
  BY <1>2, <1>3 DEF Class, Annotation
<1>6. class.phase = "live" => Unclaimed \subseteq Recorded(c)
  BY <1>4, <1>5 DEF Recorded
<1> HIDE DEF c
<1>7. /\ sync' \in SyncRecord /\ sync'.class = sync.class /\ ~sync'.current
      /\ sync'.at = "annotate" /\ sync'.lb = sync.lb
  BY <1>1 DEF SyncRecord, EnsurePlaces, CreatePlaces
<1>8. /\ ValueInv' /\ WorldInv' /\ class' = c /\ Unclaimed' = Unclaimed
      /\ \A l : OurOwn(l)' <=> OurOwn(l)
      /\ \A l : Readable(l)' <=> Readable(l)
  BY <1>1, <1>5, <1>6, <1>7, PatchKept
<1>9. PlaceInv'
  <2>1. OurOwn(sync.lb)' /\ lbs'[sync'.lb].state # "none" /\ ~Readable(sync.class.id)'
    BY <1>1, <1>2, <1>7, <1>8 DEF serviceVars
  <2>2. class'.phase # "gone" /\ class'.finalizer
    BY <1>2, <1>5, <1>8
  <2>3. class'.phase = "live" => Unclaimed' \subseteq Recorded(class)'
    BY <1>5, <1>6, <1>8 DEF Recorded
  <2> QED BY <1>7, <2>1, <2>2, <2>3
          DEF PlaceInv, EnsurePlaces, DeletePlaces, CreatePlaces, UpdatePlaces, ClearPlaces
<1> QED BY <1>8, <1>9 DEF IInv

LEMMA UpdateDefaultsKeeps == ASSUME IInv, UpdateDefaults PROVE IInv'
<1> DEFINE kept == NewDefaults(sync.seen.tags, sync.class)
           c    == [class EXCEPT !.defaults = {kept}]
<1>1. /\ sync.at = "defaults" /\ sync \in SyncRecord
      /\ UNCHANGED <<serviceVars, cache, boundVars, historyVars>>
      /\ Patch(c) /\ sync' = [sync EXCEPT !.at = "refresh", !.current = FALSE]
  BY SyncPlaces DEF UpdateDefaults, IInv
<1>2. /\ class \in Class /\ sync.class \in Versions /\ sync.class \in Class /\ sync.seen \in Copy
      /\ class.phase # "gone" /\ class.finalizer
      /\ sync.lb = sync.class.id /\ sync.lb \in LbId
      /\ Users(sync.lb) => sync.lb = class.id
      /\ class.phase = "live" /\ OurOwn(sync.lb) => Unclaimed \subseteq sync.seen.tags
  BY <1>1 DEF IInv, ValueInv, PlaceInv, EnsurePlaces, UpdatePlaces, Versions, SyncRecord
<1>3. sync.seen.tags \in SUBSET Tag
  BY <1>2 DEF Copy
<1>4. kept \subseteq Tag
  BY <1>2, <1>3, TagsTyped DEF IInv
<1>5. class.phase = "live" /\ OurOwn(class.id) => Unclaimed \subseteq kept
  <2> SUFFICES ASSUME class.phase = "live", OurOwn(class.id)
               PROVE  Unclaimed \subseteq kept
    OBVIOUS
  <2>1. OurOwn(sync.lb)
    BY <1>2 DEF OurOwn, Users, IInv, ValueInv, LoadBalancer
  <2>2. Unclaimed \in SUBSET sync.seen.tags
    BY <1>2, <2>1
  <2>3. Unclaimed \cap Supplied(sync.class) = {} /\ Unclaimed \subseteq Recorded(sync.class)
    BY <1>2, <2>1 DEF IInv, WorldInv, TagsInv, Unclaimed
  <2> QED BY <2>2, <2>3, DefaultsSurvive
<1> HIDE DEF kept
<1>6. /\ c \in Class /\ c.id = class.id /\ c.defined = class.defined /\ c.defaults = {kept}
      /\ c.protect = class.protect /\ c.phase = class.phase /\ c.finalizer = class.finalizer
  BY <1>2, <1>4 DEF Class, Annotation
<1>7. class.phase = "live" /\ OurOwn(class.id) => Unclaimed \subseteq Recorded(c)
  BY <1>5, <1>6 DEF Recorded
<1> HIDE DEF c
<1>8. sync' \in SyncRecord /\ sync'.class = sync.class /\ ~sync'.current /\ sync'.at = "refresh"
  BY <1>1 DEF SyncRecord, EnsurePlaces
<1>9. ValueInv' /\ WorldInv' /\ class' = c
  BY <1>1, <1>6, <1>7, <1>8, PatchKept
<1>10. PlaceInv'
  BY <1>2, <1>6, <1>8, <1>9, HeldEnough DEF HeldPlaces
<1> QED BY <1>9, <1>10 DEF IInv

\* RecordFirewall and ForgetFirewall, the last patches of a sync.
LEMMA FirewallPatchKeeps == ASSUME IInv, RecordFirewall \/ ForgetFirewall PROVE IInv'
<1>1. PICK f \in FirewallId \cup {NoFirewall} :
         /\ Patch([class EXCEPT !.firewall = f]) /\ sync' = Idle
         /\ UNCHANGED <<serviceVars, cache, boundVars, historyVars>>
  BY DEF RecordFirewall, ForgetFirewall, IInv, PlaceInv
<1> DEFINE c == [class EXCEPT !.firewall = f]
<1>2. class \in Class
  BY DEF IInv, ValueInv
<1>3. /\ c \in Class /\ c.id = class.id /\ c.defined = class.defined /\ c.defaults = class.defaults
      /\ c.protect = class.protect /\ c.phase = class.phase /\ c.finalizer = class.finalizer
  BY <1>2 DEF Class
<1>4. Patch(c)
  BY <1>1
<1> HIDE DEF c
<1>5. class.phase = "live" /\ OurOwn(class.id) => Unclaimed \subseteq Recorded(c)
  BY <1>3 DEF IInv, WorldInv, TagsInv, Versions, Recorded
<1>6. ValueInv' /\ WorldInv'
  BY <1>1, <1>3, <1>4, <1>5, PatchKept
<1>7. PlaceInv'
  BY <1>1, PlaceLeft
<1> QED BY <1>6, <1>7 DEF IInv

\* The id that is recorded is that of the only load balancer of ours there is: what
\* other versions name, if anything, was not found.
LEMMA AnnotateKeeps == ASSUME IInv, Annotate PROVE IInv'
<1> DEFINE c == [class EXCEPT !.id = sync.lb]
<1>1. /\ sync.at = "annotate" /\ sync \in SyncRecord
      /\ class' = c /\ shape' = shape /\ listed' = [listed EXCEPT !.current = FALSE]
      /\ sync' = [sync EXCEPT !.at = "firewall", !.seen = NoCopy, !.current = FALSE]
      /\ lbs' = lbs /\ token' = token /\ cache' = cache
      /\ firewalls' = firewalls /\ recent' = recent /\ edits' = edits /\ faults' = faults
      /\ claimed' = claimed /\ asked' = asked /\ bare' = bare /\ adrift' = adrift /\ panicked' = panicked
  BY SyncPlaces DEF Annotate, IInv, Patch, serviceVars, firewallVars, boundVars, historyVars
<1>2. /\ class \in Class /\ sync.class \in Versions /\ class \in Versions
      /\ class.phase # "gone" /\ class.finalizer
      /\ OurOwn(sync.lb) /\ sync.lb \in LbId /\ lbs[sync.lb].state # "none"
      /\ ~Readable(sync.class.id)
      /\ class.phase = "live" => Unclaimed \subseteq Recorded(class)
  BY <1>1 DEF IInv, ValueInv, PlaceInv, EnsurePlaces, CreatePlaces, Versions, OurOwn
<1>3. /\ c \in Class /\ c.id = sync.lb /\ c.defined = class.defined /\ c.defaults = class.defaults
      /\ c.protect = class.protect /\ c.phase = class.phase /\ c.finalizer = class.finalizer
  BY <1>2 DEF Class
<1> HIDE DEF c
<1>4. /\ sync' \in SyncRecord /\ sync'.class = sync.class /\ ~sync'.current
      /\ sync'.at = "firewall"
  BY <1>1 DEF SyncRecord, EnsurePlaces
<1>5. /\ listed' \in [copy : Class, current : BOOLEAN]
      /\ listed'.copy = listed.copy /\ ~listed'.current
  BY <1>1 DEF IInv, ValueInv
<1>6. ValueInv'
  BY <1>1, <1>3, <1>4, <1>5 DEF IInv, ValueInv, FirewallTypeOK, There
<1>7. PlaceInv'
  BY <1>1, <1>2, <1>3, <1>4, HeldEnough DEF HeldPlaces
<1>8. /\ \A l : Active(l)' <=> Active(l)
      /\ \A l : OurOwn(l)' <=> OurOwn(l)
      /\ \A l : Users(l)' <=> Users(l)
      /\ \A l : Readable(l)' <=> Readable(l)
      /\ Unclaimed' = Unclaimed
  BY <1>1 DEF Active, OurOwn, Users, Readable, Unclaimed
<1>9. \A v \in Versions' : v = c \/ v \in Versions
  BY <1>1, <1>4, <1>5 DEF Versions
<1>10. ~Users(sync.lb)
  BY <1>2 DEF OurOwn, Users
<1>11. VersionInv' /\ FinalizerInv' /\ DeletingInv' /\ ProtectedStays' /\ DeletionAsked'
  BY <1>1, <1>2, <1>3, <1>4, <1>5, <1>8
  DEF IInv, WorldInv, VersionInv, FinalizerInv, DeletingInv, ProtectedStays, DeletionAsked
<1>12. BornInv'
  BY <1>1, <1>2, <1>3, <1>8, <1>9 DEF IInv, WorldInv, BornInv
<1>13. KnownInv'
  <2>1. \A l \in LbId : Active(l) /\ OurOwn(l) => token = l
    BY <1>2 DEF IInv, WorldInv, KnownInv, Readable
  <2> QED BY <1>1, <1>8, <2>1 DEF KnownInv
<1>14. ImportedInv'
  <2>1. ASSUME NEW v \in Versions', Users(v.id), Readable(v.id)
        PROVE  FALSE
    <3>1. v \in Versions
      BY <1>3, <1>9, <1>10, <2>1
    <3>2. v.id = class.id
      BY <2>1, <3>1 DEF IInv, WorldInv, ImportedInv
    <3>3. sync.class.id = class.id
      BY <1>2, <2>1, <3>2 DEF IInv, WorldInv, ImportedInv
    <3> QED BY <1>2, <2>1, <3>2, <3>3
  <2> QED BY <1>1, <1>3, <1>8, <1>10, <2>1 DEF ImportedInv
<1>15. TagsInv'
  <2>1. \A v \in Versions' : Supplied(v) \subseteq claimed
    BY <1>2, <1>3, <1>9 DEF IInv, WorldInv, TagsInv, Supplied
  <2>2. class.phase = "live" => \A v \in Versions' : OurOwn(v.id) => Unclaimed \subseteq Recorded(v)
    BY <1>2, <1>3, <1>9 DEF IInv, WorldInv, TagsInv, Recorded
  <2>3. TagsInv
    BY DEF IInv, WorldInv
  <2>4. (\A v \in Versions : Supplied(v) \subseteq claimed)'
    BY <1>1, <2>1 DEF Supplied
  <2>5. class'.phase = "live" =>
          (\A v \in Versions : OurOwn(v.id) => Unclaimed \subseteq Recorded(v))'
    BY <1>1, <1>3, <1>8, <2>2 DEF Recorded
  <2>6. class'.phase = "live" =>
          (\A l \in LbId : OurOwn(l) => /\ Active(l) => Unclaimed \subseteq lbs[l].tags
                                        /\ cache[l] # NoCopy => Unclaimed \subseteq cache[l].tags)'
    BY <1>1, <1>3, <1>8, <2>3 DEF TagsInv
  <2> QED BY <2>4, <2>5, <2>6 DEF TagsInv
<1> QED BY <1>6, <1>7, <1>11, <1>12, <1>13, <1>14, <1>15 DEF IInv, WorldInv

LEMMA UnfinalizeKeeps == ASSUME IInv, Unfinalize PROVE IInv'
<1>1. /\ sync.at = "unfinalize" /\ sync' = Idle /\ sync \in SyncRecord
      /\ UNCHANGED <<serviceVars, cache, boundVars, historyVars>>
  BY SyncPlaces DEF Unfinalize, IInv
<1>2. CASE ~sync.current
  BY <1>1, <1>2, GivesUp DEF Unfinalize, boundVars, historyVars, IInv, ValueInv
<1>3. CASE sync.current
  <2> DEFINE c == [class EXCEPT !.phase = "gone", !.finalizer = FALSE]
  <2>1. /\ class' = c /\ shape' = shape /\ listed' = [listed EXCEPT !.current = FALSE]
        /\ lbs' = lbs /\ token' = token /\ cache' = cache
        /\ firewalls' = firewalls /\ recent' = recent /\ edits' = edits /\ faults' = faults
        /\ claimed' = claimed /\ asked' = asked /\ bare' = bare /\ adrift' = adrift /\ panicked' = panicked
    BY <1>1, <1>3 DEF Unfinalize, Patch, serviceVars, firewallVars, boundVars, historyVars
  <2>2. /\ class \in Class /\ sync.class = class /\ class \in Versions
        /\ class.phase # "live" /\ listed.copy.phase # "live"
        /\ ~class.protect => class.id \in asked \cup {NoLb}
    BY <1>1, <1>3 DEF IInv, ValueInv, WorldInv, VersionInv, PlaceInv, DeletePlaces, Versions
  <2>3. /\ c \in Class /\ c.id = class.id /\ c.defined = class.defined /\ c.protect = class.protect
        /\ c.phase = "gone"
    BY <2>2 DEF Class
  <2> HIDE DEF c
  <2>4. /\ listed' \in [copy : Class, current : BOOLEAN]
        /\ listed'.copy = listed.copy /\ ~listed'.current
    BY <2>1 DEF IInv, ValueInv
  <2>5. ValueInv'
    BY <1>1, <2>1, <2>3, <2>4 DEF IInv, ValueInv, FirewallTypeOK, There
  <2>6. PlaceInv'
    BY <1>1, PlaceLeft
  <2>7. /\ \A l : Active(l)' <=> Active(l)
        /\ \A l : OurOwn(l)' <=> OurOwn(l)
        /\ \A l : Users(l)' <=> Users(l)
        /\ \A l : Readable(l)' <=> Readable(l)
    BY <2>1 DEF Active, OurOwn, Users, Readable
  <2>8. \A v \in Versions' : v = c \/ v \in Versions
    BY <1>1, <2>1, <2>4 DEF Versions, Idle
  <2>9. \A v \in Versions' : \E w \in Versions : v.id = w.id /\ v.defined = w.defined
    BY <2>2, <2>3, <2>8
  <2>10. VersionInv' /\ FinalizerInv' /\ DeletingInv' /\ ProtectedStays'
    BY <1>1, <2>1, <2>2, <2>3, <2>4, <2>7
    DEF IInv, WorldInv, VersionInv, FinalizerInv, DeletingInv, ProtectedStays, Idle
  <2>11. BornInv' /\ KnownInv' /\ ImportedInv'
    BY <2>1, <2>3, <2>7, <2>9 DEF IInv, WorldInv, BornInv, KnownInv, ImportedInv
  <2>12. TagsInv'
    BY <2>1, <2>3, <2>9 DEF IInv, WorldInv, TagsInv, Supplied
  <2>13. DeletionAsked'
    BY <2>1, <2>2, <2>3, <2>7, FirewallAssumption DEF DeletionAsked, Active
  <2> QED BY <2>5, <2>6, <2>10, <2>11, <2>12, <2>13 DEF IInv, WorldInv
<1> QED BY <1>2, <1>3

-----------------------------------------------------------------------------
(* The creation and the deletion of the load balancer.                       *)

\* What Answer leaves: the load balancer in hand, or nothing.
LEMMA AnswerGives ==
  ASSUME IInv, sync.at = "create", NEW l \in LbId, Answer(l, "backfill"), lbs' \in [LbId -> LoadBalancer]
  PROVE  /\ sync' = Idle \/ (/\ sync' \in SyncRecord /\ sync'.at = "backfill"
                             /\ sync'.class = sync.class /\ sync'.current = sync.current
                             /\ sync'.lb = l /\ sync'.seen \in Copy /\ sync'.seen.tags = lbs'[l].tags)
         /\ faults' = faults \/ (faults > 0 /\ faults' = faults - 1)
         /\ cache' \in [LbId -> Copy \cup {NoCopy}]
         /\ \A k \in LbId : cache'[k] = cache[k] \/ (k = l /\ cache'[k].tags = lbs'[l].tags)
         /\ Onward(sync')
<1>1. CopyOf(lbs'[l]) \in Copy /\ CopyOf(lbs'[l]).tags = lbs'[l].tags
  BY DEF CopyOf, Copy, LoadBalancer
<1>2. sync \in SyncRecord /\ cache \in [LbId -> Copy \cup {NoCopy}]
  BY SyncPlaces DEF IInv, ValueInv
<1>3. CASE /\ cache' = [cache EXCEPT ![l] = CopyOf(lbs'[l])]
           /\ sync' = [sync EXCEPT !.at = "backfill", !.lb = l, !.seen = CopyOf(lbs'[l])]
           /\ UNCHANGED faults
  BY <1>1, <1>2, <1>3 DEF SyncRecord, EnsurePlaces, CreatePlaces, Onward
<1>4. CASE sync' = Idle /\ faults > 0 /\ faults' = faults - 1 /\ UNCHANGED cache
  BY <1>2, <1>4 DEF Idle, Onward
<1> QED BY <1>3, <1>4 DEF Answer

LEMMA CreateKeeps == ASSUME IInv, Create PROVE IInv'
<1>1. /\ sync.at = "create" /\ sync \in SyncRecord
      /\ class' = class /\ shape' = shape /\ listed' = listed
      /\ firewalls' = firewalls /\ recent' = recent /\ edits' = edits
      /\ claimed' = claimed /\ asked' = asked /\ bare' = bare /\ adrift' = adrift /\ panicked' = panicked
  BY SyncPlaces DEF Create, IInv, apiVars, firewallVars, historyVars
<1>2. /\ class.phase # "gone" /\ class.finalizer /\ ~Readable(sync.class.id)
      /\ sync.class \in Versions /\ class \in Versions
  BY <1>1 DEF IInv, PlaceInv, EnsurePlaces, CreatePlaces, Versions
<1>3. CASE token # NoLb /\ ~Active(token) /\ sync' = Idle /\ UNCHANGED <<lbs, token, cache, faults>>
  BY <1>1, <1>3, GivesUp DEF apiVars, serviceVars, firewallVars, IInv, ValueInv
<1>4. CASE Active(token) /\ UNCHANGED <<lbs, token>> /\ Answer(token, "backfill")
  <2>1. token \in LbId /\ lbs' = lbs /\ token' = token /\ lbs \in [LbId -> LoadBalancer]
    BY <1>4 DEF Active, IInv, ValueInv
  <2>2. /\ sync' = Idle \/ (/\ sync' \in SyncRecord /\ sync'.at = "backfill"
                            /\ sync'.class = sync.class /\ sync'.current = sync.current
                            /\ sync'.lb = token /\ sync'.seen \in Copy
                            /\ sync'.seen.tags = lbs[token].tags)
        /\ faults' = faults \/ (faults > 0 /\ faults' = faults - 1)
        /\ cache' \in [LbId -> Copy \cup {NoCopy}]
        /\ \A k \in LbId : cache'[k] = cache[k] \/ (k = token /\ cache'[k].tags = lbs[token].tags)
        /\ Onward(sync')
    BY <1>1, <1>4, <2>1, AnswerGives
  <2>3. faults' \in 0..MaxFaults
    BY <2>2, FaultTyped DEF IInv, ValueInv
  <2>4. ValueInv'
    BY <1>1, <2>1, <2>2, <2>3 DEF IInv, ValueInv, FirewallTypeOK, There
  <2>5. OurOwn(token) /\ lbs[token].state # "none"
    BY <2>1 DEF IInv, WorldInv, BornInv
  <2>6. class.phase = "live" => Unclaimed \subseteq lbs[token].tags
    BY <1>4, <2>1, <2>5 DEF IInv, WorldInv, TagsInv
  <2>7. WorldInv'
    <3>1. \A k \in LbId : cache'[k] # NoCopy => Readable(k)
      BY <1>4, <2>2 DEF Readable
    <3>2. TagsInv
      BY DEF IInv, WorldInv
    <3>3. class.phase = "live" =>
            \A k \in LbId : OurOwn(k) => /\ Active(k) => Unclaimed \subseteq lbs'[k].tags
                                         /\ cache'[k] # NoCopy => Unclaimed \subseteq cache'[k].tags
      BY <2>1, <2>2, <2>6, <3>2 DEF TagsInv
    <3> QED BY <1>1, <2>1, <2>2, <3>1, <3>3, WorldKept DEF IInv
  <2>8. PlaceInv'
    <3>1. CASE sync' = Idle
      BY <3>1, PlaceLeft
    <3>2. CASE sync'.at = "backfill" /\ sync' # Idle
      <4>1. /\ OurOwn(sync.lb)' /\ lbs'[sync'.lb].state # "none"
            /\ sync'.seen \in Copy /\ class'.phase # "gone" /\ class'.finalizer
        BY <1>1, <1>2, <2>1, <2>2, <2>5, <3>2 DEF OurOwn
      <4>2. ~Readable(sync.class.id)'
        BY <1>2, <1>4, <2>1, <2>2, <3>2 DEF Readable, Active
      <4>3. class'.phase = "live" => Unclaimed' \subseteq sync'.seen.tags
        BY <1>1, <2>2, <2>6, <3>2 DEF Unclaimed
      <4> QED BY <3>2, <4>1, <4>2, <4>3
              DEF PlaceInv, EnsurePlaces, DeletePlaces, CreatePlaces, UpdatePlaces, ClearPlaces
    <3> QED BY <2>2, <3>1, <3>2
  <2> QED BY <2>4, <2>7, <2>8 DEF IInv
<1>5. ASSUME token = NoLb, NEW l \in LbId, NextLb(l), lbs' = [lbs EXCEPT ![l] = Created], token' = l,
             Answer(l, "backfill")
      PROVE  IInv'
  <2>1. /\ Created \in LoadBalancer /\ Created.state = "active" /\ Created.owner = "controller"
        /\ Created.tags = Supplied(sync.class) \cup DefaultTags
    <3>1. sync.class \in Class
      BY <1>1 DEF SyncRecord
    <3>2. Supplied(sync.class) \subseteq Tag
      BY <3>1, TagsTyped DEF IInv
    <3>3. Supplied(sync.class) \cup DefaultTags \subseteq Tag
      BY <3>2, LifecycleAssumption
    <3>4. sync.shape \in Shape /\ sync.class.nsgs \subseteq Nsg
      BY <1>1, <3>1 DEF SyncRecord, Class
    <3> HIDE DEF Supplied
    <3> QED BY <3>3, <3>4 DEF Created, LoadBalancer
  <2>2. lbs \in [LbId -> LoadBalancer] /\ lbs[l].state = "none"
    BY <1>5 DEF IInv, ValueInv, NextLb
  <2>3. /\ lbs' \in [LbId -> LoadBalancer] /\ lbs'[l] = Created
        /\ \A k \in LbId : k # l => lbs'[k] = lbs[k]
    BY <1>5, <2>1, <2>2
  <2>4. /\ sync' = Idle \/ (/\ sync' \in SyncRecord /\ sync'.at = "backfill"
                            /\ sync'.class = sync.class /\ sync'.current = sync.current
                            /\ sync'.lb = l /\ sync'.seen \in Copy
                            /\ sync'.seen.tags = Created.tags)
        /\ faults' = faults \/ (faults > 0 /\ faults' = faults - 1)
        /\ cache' \in [LbId -> Copy \cup {NoCopy}]
        /\ \A k \in LbId : cache'[k] = cache[k] \/ (k = l /\ cache'[k].tags = Created.tags)
        /\ Onward(sync')
    BY <1>1, <1>5, <2>3, AnswerGives
  <2>5. faults' \in 0..MaxFaults
    BY <2>4, FaultTyped DEF IInv, ValueInv
  <2>6. ValueInv'
    BY <1>1, <1>5, <2>3, <2>4, <2>5 DEF IInv, ValueInv, FirewallTypeOK, There
  <2>7. cache[l] = NoCopy /\ \A v \in Versions : v.id # l
    BY <2>2 DEF IInv, WorldInv, BornInv
  <2>8. Versions' \subseteq Versions /\ class \in Versions'
    BY <1>1, <2>4 DEF Versions, Onward
  <2>9. /\ \A k : k # l => (Active(k)' <=> Active(k))
        /\ \A k : k # l => (OurOwn(k)' <=> OurOwn(k))
        /\ \A k : k # l => (Users(k)' <=> Users(k))
        /\ \A k : k # l => (Readable(k)' <=> Readable(k))
        /\ OurOwn(l)' /\ Unclaimed' = Unclaimed
    BY <1>1, <2>1, <2>3, <2>4 DEF Active, OurOwn, Users, Readable, Unclaimed
  <2>10. VersionInv'
    BY <1>1, <2>4 DEF IInv, WorldInv, VersionInv, Onward
  <2>11. FinalizerInv' /\ DeletingInv' /\ DeletionAsked'
    BY <1>1, <1>2 DEF IInv, WorldInv, FinalizerInv, DeletingInv, DeletionAsked
  <2>12. ProtectedStays'
    BY <1>1, <2>1, <2>3 DEF IInv, WorldInv, ProtectedStays
  <2>13. BornInv'
    BY <1>5, <2>1, <2>3, <2>4, <2>8, <2>9 DEF IInv, WorldInv, BornInv
  <2>14. KnownInv'
    <3>1. \A k \in LbId : ~(Active(k) /\ OurOwn(k))
      BY <1>2, <1>5, FirewallAssumption DEF IInv, WorldInv, KnownInv, Readable
    <3> QED BY <1>5, <2>9, <3>1 DEF KnownInv
  <2>15. ImportedInv'
    BY <1>1, <1>2, <2>7, <2>8, <2>9 DEF IInv, WorldInv, ImportedInv
  <2>16. TagsInv'
    <3>1. TagsInv
      BY DEF IInv, WorldInv
    <3>2. (\A v \in Versions : Supplied(v) \subseteq claimed)'
      BY <1>1, <2>8, <3>1 DEF TagsInv, Supplied
    <3>3. class'.phase = "live" => (\A v \in Versions : OurOwn(v.id) => Unclaimed \subseteq Recorded(v))'
      BY <1>1, <2>7, <2>8, <2>9, <3>1 DEF TagsInv, Recorded
    <3>4. Unclaimed \subseteq Created.tags
      BY <2>1 DEF Unclaimed
    <3>5. class'.phase = "live" =>
            (\A k \in LbId : OurOwn(k) => /\ Active(k) => Unclaimed \subseteq lbs[k].tags
                                          /\ cache[k] # NoCopy => Unclaimed \subseteq cache[k].tags)'
      BY <1>1, <2>3, <2>4, <2>7, <2>9, <3>1, <3>4 DEF TagsInv
    <3> QED BY <3>2, <3>3, <3>5 DEF TagsInv
  <2>17. PlaceInv'
    <3>1. CASE sync' = Idle
      BY <3>1, PlaceLeft
    <3>2. CASE sync'.at = "backfill" /\ sync' # Idle
      <4>1. /\ OurOwn(sync.lb)' /\ lbs'[sync'.lb].state # "none"
            /\ sync'.seen \in Copy /\ class'.phase # "gone" /\ class'.finalizer
        BY <1>1, <1>2, <2>1, <2>3, <2>4, <2>9, <3>2 DEF OurOwn
      <4>2. ~Readable(sync.class.id)'
        <5>1. sync'.class.id = sync.class.id /\ sync.class.id # l
          BY <1>2, <2>4, <2>7, <3>2
        <5> QED BY <1>2, <2>3, <2>4, <5>1 DEF Readable, Active
      <4>3. class'.phase = "live" => Unclaimed' \subseteq sync'.seen.tags
        BY <2>1, <2>4, <2>9, <3>2 DEF Unclaimed
      <4> QED BY <3>2, <4>1, <4>2, <4>3
              DEF PlaceInv, EnsurePlaces, DeletePlaces, CreatePlaces, UpdatePlaces, ClearPlaces
    <3> QED BY <2>4, <3>1, <3>2
  <2> QED BY <2>6, <2>10, <2>11, <2>12, <2>13, <2>14, <2>15, <2>16, <2>17 DEF IInv, WorldInv
<1> QED BY <1>3, <1>4, <1>5 DEF Create

LEMMA DeleteLbKeeps == ASSUME IInv, DeleteLb PROVE IInv'
<1> DEFINE l == sync.class.id
<1>1. /\ sync.at = "deleteLb" /\ sync' = Goto("unfinalize") /\ asked' = asked \cup {l}
      /\ class' = class /\ shape' = shape /\ listed' = listed /\ token' = token
      /\ edits' = edits /\ faults' = faults
      /\ claimed' = claimed /\ bare' = bare /\ adrift' = adrift /\ panicked' = panicked
      /\ \/ /\ Active(l) /\ lbs' = [lbs EXCEPT ![l].state = "deleted"]
            /\ cache' = Outdated(l) /\ RemoveWith(l)
         \/ lbs' = lbs /\ cache' = cache /\ UNCHANGED firewallVars
  BY DEF DeleteLb, apiVars, boundVars, historyVars
<1>2. /\ class.phase # "live" /\ listed.copy.phase # "live" /\ bare
      /\ ~sync.class.protect /\ l \in LbId /\ sync.class \in Versions
  BY <1>1 DEF IInv, PlaceInv, DeletePlaces, Versions
<1>3. /\ lbs \in [LbId -> LoadBalancer] /\ cache \in [LbId -> Copy \cup {NoCopy}]
      /\ FirewallTypeOK /\ asked \subseteq LbId
  BY DEF IInv, ValueInv
<1>4. /\ lbs' \in [LbId -> LoadBalancer]
      /\ \A k \in LbId : /\ lbs'[k].owner = lbs[k].owner
                         /\ lbs'[k].state = lbs[k].state \/ (k = l /\ lbs[k].state = "active"
                                                                   /\ lbs'[k].state = "deleted")
  <2>1. CASE lbs' = lbs
    BY <1>3, <2>1
  <2>2. CASE Active(l) /\ lbs' = [lbs EXCEPT ![l].state = "deleted"]
    <3>1. [lbs[l] EXCEPT !.state = "deleted"] \in LoadBalancer
      BY <1>2, <1>3 DEF LoadBalancer
    <3> QED BY <1>2, <1>3, <2>2, <3>1 DEF Active, LoadBalancer
  <2> QED BY <1>1, <2>1, <2>2
<1>5. /\ cache' \in [LbId -> Copy \cup {NoCopy}]
      /\ \A k \in LbId : cache'[k] # NoCopy => cache[k] # NoCopy
  BY <1>1, <1>3, OutdatedTyped DEF IInv
<1>6. FirewallTypeOK'
  BY <1>1, <1>3, FirewallsTyped
<1>7. /\ sync' \in SyncRecord /\ Onward(sync') /\ sync'.at = "unfinalize" /\ sync'.class = sync.class
  BY <1>1, GotoTyped DEF IInv, DeletePlaces
<1>8. ValueInv'
  BY <1>1, <1>2, <1>3, <1>4, <1>5, <1>6, <1>7 DEF IInv, ValueInv
<1>9. PlaceInv'
  BY <1>1, <1>7, DeletionGoesOn DEF IInv, DeletePlaces, ClearPlaces
<1>10. /\ \A k : Active(k)' => Active(k)
       /\ \A k : OurOwn(k)' <=> OurOwn(k)
       /\ \A k : Users(k)' <=> Users(k)
       /\ \A k : Readable(k)' => Readable(k)
  BY <1>4, <1>5 DEF Active, OurOwn, Users, Readable
<1>11. Versions' \subseteq Versions /\ class \in Versions
  BY <1>1, <1>7 DEF Versions, Onward
<1>12. VersionInv' /\ FinalizerInv' /\ DeletingInv'
  BY <1>1, <1>2, <1>7 DEF IInv, WorldInv, VersionInv, FinalizerInv, DeletingInv, Onward
<1>13. BornInv' /\ KnownInv' /\ ImportedInv'
  <2>1. \A k \in LbId : lbs[k].state # "none" => lbs'[k].state # "none"
    BY <1>4
  <2> QED BY <1>1, <1>5, <1>10, <1>11, <2>1 DEF IInv, WorldInv, BornInv, KnownInv, ImportedInv
<1>14. TagsInv'
  BY <1>1, <1>2, <1>11 DEF IInv, WorldInv, TagsInv, Supplied
<1>15. ProtectedStays' /\ DeletionAsked'
  BY <1>1, <1>2, <1>4, <1>10 DEF IInv, WorldInv, ProtectedStays, DeletionAsked, Active
<1> QED BY <1>8, <1>9, <1>12, <1>13, <1>14, <1>15 DEF IInv, WorldInv

-----------------------------------------------------------------------------
(* Failures, time and the users.                                             *)

LEMMA LeaveAdriftTyped ==
  ASSUME IInv, LeaveAdrift
  PROVE  adrift' \subseteq FirewallId /\ claimed' = claimed /\ asked' = asked /\ bare' = bare /\ panicked' = panicked
BY DEF LeaveAdrift, IInv, ValueInv, PlaceInv

LEMMA FailKeeps == ASSUME IInv, Fail \/ ClearFails \/ Crash PROVE IInv'
<1>1. CASE Fail
  BY <1>1, LeaveAdriftTyped, GivesUp DEF Fail
<1>2. CASE Crash
  <2>1. faults' \in 0..MaxFaults /\ panicked' \in BOOLEAN
    BY <1>2, FaultTyped, LeaveAdriftTyped DEF Crash, IInv, ValueInv
  <2> QED BY <1>2, <2>1, LeaveAdriftTyped, RestartKeeps DEF Crash
<1>3. CASE ClearFails
  <2> DEFINE place == CASE sync.at = "clearFirewall" -> ClearPlace
                        [] sync.at = "clearNsgs" -> "clearSet"
                        [] sync.at = "clearSet"  -> "clearTags"
                        [] sync.at = "clearTags" -> "unfinalize"
  <2>1. /\ sync' = Goto(place) /\ sync.at \in ClearPlaces /\ faults > 0 /\ faults' = faults - 1
        /\ class' = class /\ shape' = shape /\ listed' = listed /\ lbs' = lbs
        /\ token' = token /\ cache' = cache /\ edits' = edits /\ UNCHANGED firewallVars
        /\ claimed' = claimed /\ asked' = asked /\ bare' = bare /\ adrift' = adrift /\ panicked' = panicked
    BY <1>3 DEF ClearFails, ClearPlaces, apiVars, serviceVars, historyVars
  <2>2. place \in ClearPlaces \cup {"unfinalize"} /\ place \in DeletePlaces
    BY <2>1 DEF ClearPlaces, ClearPlace, DeletePlaces
  <2> HIDE DEF place
  <2>3. FirewallTypeOK' /\ adrift' \subseteq FirewallId
    BY <2>1, FirewallsTyped DEF IInv, ValueInv
  <2>4. sync' \in SyncRecord /\ Onward(sync') /\ sync'.at = place /\ sync'.class = sync.class
    BY <2>1, <2>2, GotoTyped DEF IInv, ClearPlaces
  <2>5. ValueInv' /\ WorldInv'
    BY <2>1, <2>3, <2>4, FirewallStep
  <2>6. sync.class.protect
    BY <2>1 DEF IInv, PlaceInv
  <2>7. PlaceInv'
    BY <2>1, <2>2, <2>4, <2>6, DeletionGoesOn DEF IInv, DeletePlaces, ClearPlaces
  <2> QED BY <2>5, <2>7 DEF IInv
<1> QED BY <1>1, <1>2, <1>3

LEMMA CatchUpKeeps == ASSUME IInv, CatchUp PROVE IInv'
<1>1. /\ listed' = [copy |-> class, current |-> TRUE]
      /\ class' = class /\ shape' = shape /\ lbs' = lbs /\ token' = token /\ cache' = cache
      /\ sync' = sync /\ edits' = edits /\ faults' = faults
      /\ firewalls' = firewalls /\ recent' = recent
      /\ claimed' = claimed /\ asked' = asked /\ bare' = bare /\ adrift' = adrift /\ panicked' = panicked
  BY DEF CatchUp, serviceVars, firewallVars, boundVars, historyVars
<1>2. ValueInv'
  BY <1>1 DEF IInv, ValueInv, FirewallTypeOK, There
<1>3. Versions' \subseteq Versions
  BY <1>1 DEF Versions
<1>4. /\ \A l : Active(l)' <=> Active(l)
      /\ \A l : OurOwn(l)' <=> OurOwn(l)
      /\ \A l : Users(l)' <=> Users(l)
      /\ \A l : Readable(l)' <=> Readable(l)
      /\ Unclaimed' = Unclaimed
  BY <1>1 DEF Active, OurOwn, Users, Readable, Unclaimed
<1>5. VersionInv' /\ FinalizerInv' /\ DeletingInv' /\ ProtectedStays' /\ DeletionAsked'
  BY <1>1, <1>4 DEF IInv, WorldInv, VersionInv, FinalizerInv, DeletingInv, ProtectedStays, DeletionAsked
<1>6. BornInv' /\ KnownInv' /\ ImportedInv'
  BY <1>1, <1>3, <1>4 DEF IInv, WorldInv, BornInv, KnownInv, ImportedInv
<1>7. TagsInv'
  BY <1>1, <1>3, <1>4 DEF IInv, WorldInv, TagsInv, Supplied, Recorded
<1>8. PlaceInv'
  BY <1>1, <1>4, PlaceKept DEF IInv
<1> QED BY <1>2, <1>5, <1>6, <1>7, <1>8 DEF IInv, WorldInv

LEMMA ExpireKeeps == ASSUME IInv, NEW l \in LbId, Expire(l) PROVE IInv'
<1>1. /\ cache' = [cache EXCEPT ![l] = NoCopy]
      /\ class' = class /\ shape' = shape /\ listed' = listed /\ lbs' = lbs /\ token' = token
      /\ sync' = sync /\ edits' = edits /\ faults' = faults
      /\ firewalls' = firewalls /\ recent' = recent
      /\ claimed' = claimed /\ asked' = asked /\ bare' = bare /\ adrift' = adrift /\ panicked' = panicked
  BY DEF Expire, apiVars, serviceVars, firewallVars, boundVars, historyVars
<1>2. /\ cache' \in [LbId -> Copy \cup {NoCopy}]
      /\ \A k \in LbId : cache'[k] # NoCopy => cache'[k] = cache[k]
  BY <1>1 DEF IInv, ValueInv
<1>3. ValueInv'
  BY <1>1, <1>2 DEF IInv, ValueInv, FirewallTypeOK, There
<1>4. \A k \in LbId : cache'[k] # NoCopy => Readable(k)
  BY <1>2 DEF Readable
<1>5. \A k : Readable(k)' => Readable(k)
  BY <1>1, <1>4 DEF Readable, Active
<1>6. WorldInv'
  <2>1. TagsInv /\ Onward(sync')
    BY <1>1 DEF IInv, WorldInv, Onward
  <2>2. class.phase = "live" =>
          \A k \in LbId : OurOwn(k) => /\ Active(k) => Unclaimed \subseteq lbs'[k].tags
                                       /\ cache'[k] # NoCopy => Unclaimed \subseteq cache'[k].tags
    BY <1>1, <1>2, <2>1 DEF TagsInv
  <2> QED BY <1>1, <1>4, <2>1, <2>2, WorldKept DEF IInv
<1>7. PlaceInv'
  BY <1>1, <1>5, PlaceKept DEF IInv
<1> QED BY <1>3, <1>6, <1>7 DEF IInv

LEMMA PolicyGrowsOldKeeps == ASSUME IInv, NEW f, PolicyGrowsOld(f) PROVE IInv'
<1>1. /\ ExpirePolicy(f)
      /\ class' = class /\ shape' = shape /\ listed' = listed /\ lbs' = lbs /\ token' = token
      /\ cache' = cache /\ sync' = sync /\ edits' = edits /\ faults' = faults
      /\ claimed' = claimed /\ asked' = asked /\ bare' = bare /\ adrift' = adrift /\ panicked' = panicked
  BY DEF PolicyGrowsOld, apiVars, boundVars, historyVars
<1>2. FirewallTypeOK' /\ adrift' \subseteq FirewallId /\ Onward(sync') /\ (sync' = Idle \/ sync' \in SyncRecord)
  BY <1>1, FirewallsTyped DEF IInv, ValueInv, Onward
<1>3. ValueInv' /\ WorldInv'
  BY <1>1, <1>2, FirewallStep
<1>4. PlaceInv'
  BY <1>1, PlaceKept DEF IInv, Readable, Active
<1> QED BY <1>3, <1>4 DEF IInv

\* The token is only forgotten when the class names what it gave back, in every version.
LEMMA ExpireTokenKeeps == ASSUME IInv, ExpireToken PROVE IInv'
<1>1. /\ token' = NoLb /\ (~Active(token) \/ (sync.at = "idle" /\ class.id = token /\ listed.copy.id = token))
      /\ class' = class /\ shape' = shape /\ listed' = listed /\ lbs' = lbs
      /\ cache' = cache /\ sync' = sync /\ edits' = edits /\ faults' = faults
      /\ firewalls' = firewalls /\ recent' = recent
      /\ claimed' = claimed /\ asked' = asked /\ bare' = bare /\ adrift' = adrift /\ panicked' = panicked
  BY DEF ExpireToken, apiVars, firewallVars, boundVars, historyVars
<1>2. ValueInv'
  BY <1>1 DEF IInv, ValueInv, FirewallTypeOK, There
<1>3. Versions' = Versions
  BY <1>1 DEF Versions
<1>4. /\ \A l : Active(l)' <=> Active(l)
      /\ \A l : OurOwn(l)' <=> OurOwn(l)
      /\ \A l : Users(l)' <=> Users(l)
      /\ \A l : Readable(l)' <=> Readable(l)
      /\ Unclaimed' = Unclaimed
  BY <1>1 DEF Active, OurOwn, Users, Readable, Unclaimed
<1>5. VersionInv' /\ FinalizerInv' /\ DeletingInv' /\ ProtectedStays' /\ DeletionAsked'
  BY <1>1, <1>4 DEF IInv, WorldInv, VersionInv, FinalizerInv, DeletingInv, ProtectedStays, DeletionAsked
<1>6. BornInv' /\ ImportedInv'
  BY <1>1, <1>3, <1>4, FirewallAssumption DEF IInv, WorldInv, BornInv, ImportedInv
<1>7. KnownInv'
  <2>1. ASSUME NEW l \in LbId, Active(l), OurOwn(l)
        PROVE  \A v \in Versions : v.id = l
    BY <1>1, <2>1 DEF IInv, WorldInv, KnownInv, Versions
  <2> QED BY <1>3, <1>4, <2>1 DEF KnownInv
<1>8. TagsInv'
  BY <1>1, <1>3, <1>4 DEF IInv, WorldInv, TagsInv, Supplied, Recorded
<1>9. PlaceInv'
  BY <1>1, <1>4, PlaceKept DEF IInv
<1> QED BY <1>2, <1>5, <1>6, <1>7, <1>8, <1>9 DEF IInv, WorldInv

LEMMA EditShapeKeeps == ASSUME IInv, EditShape PROVE IInv'
<1>1. /\ shape' \in Shape /\ edits > 0 /\ edits' = edits - 1
      /\ class' = class /\ listed' = listed /\ lbs' = lbs /\ token' = token
      /\ cache' = cache /\ sync' = sync /\ faults' = faults
      /\ firewalls' = firewalls /\ recent' = recent
      /\ claimed' = claimed /\ asked' = asked /\ bare' = bare /\ adrift' = adrift /\ panicked' = panicked
  BY DEF EditShape, serviceVars, firewallVars, historyVars
<1>2. edits' \in 0..MaxEdits
  BY <1>1, LifecycleAssumption DEF IInv, ValueInv
<1>3. ValueInv'
  BY <1>1, <1>2 DEF IInv, ValueInv, FirewallTypeOK, There
<1>4. WorldInv'
  BY <1>1, WorldKept DEF IInv, WorldInv, TagsInv, Readable, Onward
<1>5. PlaceInv'
  BY <1>1, PlaceKept DEF IInv, Readable, Active
<1> QED BY <1>3, <1>4, <1>5 DEF IInv

\* What a sync has in hand is out of date when the class is changed.
LEMMA OutdatedSync ==
  ASSUME IInv, sync' = IF sync.at = "idle" THEN sync ELSE [sync EXCEPT !.current = FALSE]
  PROVE  /\ sync' = Idle \/ sync' \in SyncRecord
         /\ sync.at = "idle" => sync' = sync
         /\ sync'.at = sync.at /\ sync'.class = sync.class /\ sync'.lb = sync.lb
         /\ sync'.made = sync.made /\ sync'.seen = sync.seen
         /\ sync'.at # "idle" => ~sync'.current
<1>1. CASE sync.at = "idle"
  BY <1>1 DEF IInv, ValueInv
<1>2. CASE sync.at # "idle"
  BY <1>2, SyncPlaces DEF IInv, SyncRecord
<1> QED BY <1>1, <1>2

LEMMA EditClassKeeps == ASSUME IInv, EditClass PROVE IInv'
<1>1. /\ class.phase # "gone" /\ edits > 0 /\ edits' = edits - 1
      /\ claimed' = claimed \cup Supplied(class')
      /\ listed' = [listed EXCEPT !.current = FALSE]
      /\ sync' = IF sync.at = "idle" THEN sync ELSE [sync EXCEPT !.current = FALSE]
      /\ shape' = shape /\ lbs' = lbs /\ token' = token
      /\ cache' = cache /\ faults' = faults /\ firewalls' = firewalls /\ recent' = recent
      /\ bare' = (bare \/ (class.phase = "deleting" /\ ~class'.protect))
      /\ asked' = asked /\ adrift' = adrift /\ panicked' = panicked
  BY DEF EditClass, serviceVars, firewallVars
<1>2. class \in Class
  BY DEF IInv, ValueInv
<1>3. /\ class' \in Class /\ class'.id = class.id /\ class'.phase = class.phase
      /\ class'.finalizer = class.finalizer /\ class'.defaults = class.defaults
  <2>1. CASE \E defined \in Annotation \ {class.defined} : class' = [class EXCEPT !.defined = defined]
    BY <1>2, <2>1 DEF Class
  <2>2. CASE \E nsgs \in (SUBSET Nsg) \ {class.nsgs} : class' = [class EXCEPT !.nsgs = nsgs]
    BY <1>2, <2>2 DEF Class
  <2>3. CASE class' = [class EXCEPT !.protect = ~@]
    BY <1>2, <2>3 DEF Class
  <2>4. CASE \E policy \in (Policy \cup {NoPolicy}) \ {class.policy} :
               class' = [class EXCEPT !.policy = policy]
    BY <1>2, <2>4 DEF Class
  <2> QED BY <2>1, <2>2, <2>3, <2>4 DEF EditClass
<1>4. claimed' \subseteq Tag /\ edits' \in 0..MaxEdits
  <2>1. class'.defined \in Annotation
    BY <1>3 DEF Class
  <2>2. Supplied(class') \subseteq Tag
    BY <2>1 DEF Annotation, Supplied
  <2> QED BY <1>1, <2>2, LifecycleAssumption DEF IInv, ValueInv
<1>5. /\ listed' \in [copy : Class, current : BOOLEAN]
      /\ listed'.copy = listed.copy /\ ~listed'.current
  BY <1>1 DEF IInv, ValueInv
<1>6. /\ sync' = Idle \/ sync' \in SyncRecord
      /\ sync.at = "idle" => sync' = sync
      /\ sync'.at = sync.at /\ sync'.class = sync.class /\ sync'.lb = sync.lb
      /\ sync'.made = sync.made /\ sync'.seen = sync.seen
      /\ sync'.at # "idle" => ~sync'.current
  BY <1>1, OutdatedSync
<1>7. ValueInv'
  BY <1>1, <1>3, <1>4, <1>5, <1>6 DEF IInv, ValueInv, FirewallTypeOK, There
<1>8. /\ \A l : Active(l)' <=> Active(l)
      /\ \A l : OurOwn(l)' <=> OurOwn(l)
      /\ \A l : Users(l)' <=> Users(l)
      /\ \A l : Readable(l)' <=> Readable(l)
      /\ Unclaimed' \subseteq Unclaimed
  BY <1>1 DEF Active, OurOwn, Users, Readable, Unclaimed
<1>9. PlaceInv'
  BY <1>1, <1>3, <1>5, <1>6, <1>8, PlaceKept DEF IInv
<1>10. \A v \in Versions' : v = class' \/ v \in Versions
  BY <1>5, <1>6 DEF Versions
<1>11. class \in Versions
  BY DEF Versions
<1>12. \A v \in Versions' : \E w \in Versions : v.id = w.id /\ v.defaults = w.defaults
  BY <1>3, <1>10, <1>11
<1>13. VersionInv' /\ FinalizerInv'
  BY <1>1, <1>3, <1>5, <1>6, <1>8 DEF IInv, WorldInv, VersionInv, FinalizerInv
<1>17. DeletingInv'
  <2>1. class.phase \in {"live", "deleting", "gone"}
    BY <1>2 DEF Class
  <2> QED BY <1>1, <1>3, <1>5, <2>1 DEF IInv, WorldInv, DeletingInv
<1>14. ProtectedStays' /\ DeletionAsked'
  BY <1>1, <1>3 DEF IInv, WorldInv, ProtectedStays, DeletionAsked
<1>15. BornInv' /\ KnownInv' /\ ImportedInv'
  BY <1>1, <1>3, <1>8, <1>12 DEF IInv, WorldInv, BornInv, KnownInv, ImportedInv
<1>16. TagsInv'
  <2>1. TagsInv
    BY DEF IInv, WorldInv
  <2>2. (\A v \in Versions : Supplied(v) \subseteq claimed)'
    BY <1>1, <1>10, <2>1 DEF TagsInv, Supplied
  <2>3. class'.phase = "live" => (\A v \in Versions : OurOwn(v.id) => Unclaimed \subseteq Recorded(v))'
    BY <1>1, <1>3, <1>8, <1>12, <2>1 DEF TagsInv, Recorded
  <2>4. class'.phase = "live" =>
          (\A l \in LbId : OurOwn(l) => /\ Active(l) => Unclaimed \subseteq lbs[l].tags
                                        /\ cache[l] # NoCopy => Unclaimed \subseteq cache[l].tags)'
    BY <1>1, <1>3, <1>8, <2>1 DEF TagsInv
  <2> QED BY <2>2, <2>3, <2>4 DEF TagsInv
<1> QED BY <1>7, <1>9, <1>13, <1>14, <1>15, <1>16, <1>17 DEF IInv, WorldInv

LEMMA DeleteClassKeeps == ASSUME IInv, DeleteClass PROVE IInv'
<1> DEFINE c == [class EXCEPT !.phase = IF class.finalizer THEN "deleting" ELSE "gone"]
<1>1. /\ class.phase = "live" /\ class' = c
      /\ listed' = [listed EXCEPT !.current = FALSE]
      /\ sync' = IF sync.at = "idle" THEN sync ELSE [sync EXCEPT !.current = FALSE]
      /\ shape' = shape /\ lbs' = lbs /\ token' = token /\ edits' = edits
      /\ cache' = cache /\ faults' = faults /\ firewalls' = firewalls /\ recent' = recent
      /\ claimed' = claimed /\ asked' = asked /\ bare' = ~class.protect /\ adrift' = adrift /\ panicked' = panicked
  BY DEF DeleteClass, serviceVars, firewallVars, boundVars, historyVars
<1>2. class \in Class
  BY DEF IInv, ValueInv
<1>3. /\ c \in Class /\ c.id = class.id /\ c.finalizer = class.finalizer /\ c.defaults = class.defaults
      /\ c.defined = class.defined /\ c.protect = class.protect
      /\ c.phase = IF class.finalizer THEN "deleting" ELSE "gone"
  BY <1>2 DEF Class
<1> HIDE DEF c
<1>4. /\ listed' \in [copy : Class, current : BOOLEAN]
      /\ listed'.copy = listed.copy /\ ~listed'.current
  BY <1>1 DEF IInv, ValueInv
<1>5. /\ sync' = Idle \/ sync' \in SyncRecord
      /\ sync.at = "idle" => sync' = sync
      /\ sync'.at = sync.at /\ sync'.class = sync.class /\ sync'.lb = sync.lb
      /\ sync'.made = sync.made /\ sync'.seen = sync.seen
      /\ sync'.at # "idle" => ~sync'.current
  BY <1>1, OutdatedSync
<1>6. ValueInv'
  BY <1>1, <1>3, <1>4, <1>5 DEF IInv, ValueInv, FirewallTypeOK, There
<1>7. /\ \A l : Active(l)' <=> Active(l)
      /\ \A l : OurOwn(l)' <=> OurOwn(l)
      /\ \A l : Users(l)' <=> Users(l)
      /\ \A l : Readable(l)' <=> Readable(l)
      /\ Unclaimed' = Unclaimed
  BY <1>1 DEF Active, OurOwn, Users, Readable, Unclaimed
<1>8. PlaceInv'
  BY <1>1, <1>3, <1>4, <1>5, <1>7, PlaceKept DEF IInv
<1>9. \A v \in Versions' : v = c \/ v \in Versions
  BY <1>1, <1>4, <1>5 DEF Versions
<1>10. class \in Versions /\ listed.copy.phase = "live"
  BY <1>1 DEF Versions, IInv, WorldInv, DeletingInv
<1>11. \A v \in Versions' : \E w \in Versions : v.id = w.id /\ v.defined = w.defined
  BY <1>3, <1>9, <1>10
<1>12. VersionInv' /\ FinalizerInv' /\ DeletingInv'
  BY <1>1, <1>3, <1>4, <1>5, <1>7, <1>10 DEF IInv, WorldInv, VersionInv, FinalizerInv, DeletingInv
<1>13. ProtectedStays'
  BY <1>1, <1>3 DEF IInv, WorldInv, ProtectedStays
<1>14. DeletionAsked'
  <2>1. ~class.finalizer => ~OurOwn(class.id)
    BY <1>1 DEF IInv, WorldInv, FinalizerInv
  <2>2. lbs \in [LbId -> LoadBalancer]
    BY DEF IInv, ValueInv
  <2> QED BY <1>1, <1>3, <2>1, <2>2 DEF DeletionAsked, OurOwn, Active, LoadBalancer
<1>15. BornInv' /\ KnownInv' /\ ImportedInv'
  BY <1>1, <1>3, <1>7, <1>11 DEF IInv, WorldInv, BornInv, KnownInv, ImportedInv
<1>16. TagsInv'
  BY <1>1, <1>3, <1>11 DEF IInv, WorldInv, TagsInv, Supplied
<1> QED BY <1>6, <1>8, <1>12, <1>13, <1>14, <1>15, <1>16 DEF IInv, WorldInv

\* What l becomes by others' hands, for the sync and for the copies.
LEMMA OthersKeep ==
  ASSUME IInv, NEW l \in LbId, NEW lb \in LoadBalancer, Others(l, lb), lb.owner = lbs[l].owner, lb.state # "none"
  PROVE  /\ class' = class /\ shape' = shape /\ listed' = listed /\ token' = token
         /\ asked' = asked /\ bare' = bare /\ adrift' = adrift /\ panicked' = panicked
         /\ lbs' \in [LbId -> LoadBalancer] /\ lbs'[l] = lb /\ lbs[l].state = "active"
         /\ \A k \in LbId : k # l => lbs'[k] = lbs[k]
         /\ cache' \in [LbId -> Copy \cup {NoCopy}]
         /\ \A k \in LbId : cache'[k] # NoCopy => cache[k] # NoCopy /\ cache'[k].tags = cache[k].tags
         /\ \A k : OurOwn(k)' <=> OurOwn(k)
         /\ \A k : Users(k)' <=> Users(k)
         /\ \A k : Active(k)' => Active(k)
         /\ \A k : Readable(k)' => Readable(k)
         /\ sync' = Idle \/ sync' \in SyncRecord
         /\ sync.at = "idle" => sync' = sync
         /\ sync'.at = sync.at /\ sync'.class = sync.class /\ sync'.lb = sync.lb
         /\ sync'.made = sync.made /\ sync'.current = sync.current
         /\ sync.seen \in Copy => sync'.seen \in Copy /\ sync'.seen.tags = sync.seen.tags
<1>1. /\ class' = class /\ shape' = shape /\ listed' = listed /\ token' = token
      /\ asked' = asked /\ bare' = bare /\ adrift' = adrift /\ panicked' = panicked
      /\ Active(l) /\ lbs' = [lbs EXCEPT ![l] = lb] /\ cache' = Outdated(l)
      /\ sync' = IF sync.at = "shape" /\ sync.lb = l THEN [sync EXCEPT !.seen.current = FALSE] ELSE sync
  BY DEF Others, apiVars
<1>2. lbs \in [LbId -> LoadBalancer] /\ lbs[l].state = "active"
  BY <1>1 DEF IInv, ValueInv, Active
<1>3. /\ lbs' \in [LbId -> LoadBalancer] /\ lbs'[l] = lb
      /\ \A k \in LbId : k # l => lbs'[k] = lbs[k]
  BY <1>1, <1>2
<1>4. /\ cache' \in [LbId -> Copy \cup {NoCopy}]
      /\ \A k \in LbId : cache'[k] # NoCopy => cache[k] # NoCopy /\ cache'[k].tags = cache[k].tags
  BY <1>1, OutdatedTyped DEF IInv
<1>5. /\ \A k : OurOwn(k)' <=> OurOwn(k)
      /\ \A k : Users(k)' <=> Users(k)
      /\ \A k : Active(k)' => Active(k)
      /\ \A k : Readable(k)' => Readable(k)
  BY <1>2, <1>3, <1>4 DEF OurOwn, Users, Active, Readable
<1>6. CASE sync.at = "shape" /\ sync.lb = l
  <2>1. sync \in SyncRecord /\ sync.seen \in Copy /\ sync.at # "idle"
    BY <1>6, SyncPlaces DEF IInv, PlaceInv
  <2> DEFINE old == [sync.seen EXCEPT !.current = FALSE]
  <2>2. old \in Copy /\ old.tags = sync.seen.tags
    BY <2>1 DEF Copy
  <2>3. sync' = [sync EXCEPT !.seen = old]
    BY <1>1, <1>6
  <2> HIDE DEF old
  <2>4. /\ sync' \in SyncRecord /\ sync'.at = sync.at /\ sync'.class = sync.class /\ sync'.lb = sync.lb
        /\ sync'.made = sync.made /\ sync'.current = sync.current
        /\ sync'.seen \in Copy /\ sync'.seen.tags = sync.seen.tags
    BY <2>1, <2>2, <2>3 DEF SyncRecord
  <2> QED BY <1>1, <1>2, <1>3, <1>4, <1>5, <2>1, <2>4
<1>7. CASE ~(sync.at = "shape" /\ sync.lb = l)
  <2>1. sync' = sync /\ (sync = Idle \/ sync \in SyncRecord)
    BY <1>1, <1>7 DEF IInv, ValueInv
  <2> QED BY <1>1, <1>2, <1>3, <1>4, <1>5, <2>1
<1> QED BY <1>6, <1>7

\* What a step by others leaves of the relations, besides those of the tags.
LEMMA OthersWorld ==
  ASSUME IInv, class' = class, listed' = listed, token' = token, asked' = asked, bare' = bare,
         \A l \in LbId : /\ lbs'[l].state = lbs[l].state \/ (lbs[l].state = "active" /\ lbs'[l].state = "lost")
                         /\ lbs'[l].owner = lbs[l].owner,
         \A k : OurOwn(k)' <=> OurOwn(k),
         \A k : Users(k)' <=> Users(k),
         \A k : Active(k)' => Active(k),
         \A k : Readable(k)' => Readable(k),
         Onward(sync'),
         \A k \in LbId : cache'[k] # NoCopy => cache[k] # NoCopy
  PROVE  /\ VersionInv' /\ FinalizerInv' /\ DeletingInv' /\ BornInv' /\ KnownInv' /\ ImportedInv'
         /\ ProtectedStays' /\ DeletionAsked' /\ Versions' \subseteq Versions
<1>1. Versions' \subseteq Versions /\ class \in Versions'
  BY DEF Versions, Onward
<1>2. VersionInv' /\ FinalizerInv' /\ DeletingInv'
  BY DEF IInv, WorldInv, VersionInv, FinalizerInv, DeletingInv, Onward
<1>3. BornInv' /\ KnownInv' /\ ImportedInv'
  BY <1>1 DEF IInv, WorldInv, BornInv, KnownInv, ImportedInv
<1>4. ProtectedStays' /\ DeletionAsked'
  <2>1. \A l \in LbId : lbs'[l].state = "deleted" => lbs[l].state = "deleted"
    OBVIOUS
  <2> QED BY <2>1 DEF IInv, WorldInv, ProtectedStays, DeletionAsked, Active
<1> QED BY <1>1, <1>2, <1>3, <1>4

\* Touch, RemoveTag and Lose: a tag that is taken off was not wanted any more.
LEMMA OthersTags ==
  ASSUME IInv, class' = class, \A k : OurOwn(k)' <=> OurOwn(k), \A k : Active(k)' => Active(k),
         Versions' \subseteq Versions, claimed \subseteq claimed',
         \A k \in LbId : lbs[k].tags \ claimed' \subseteq lbs'[k].tags,
         \A k \in LbId : cache'[k] # NoCopy => cache[k] # NoCopy /\ cache'[k].tags = cache[k].tags
  PROVE  TagsInv'
<1>1. TagsInv
  BY DEF IInv, WorldInv
<1>2. Unclaimed' \subseteq Unclaimed /\ Unclaimed' \cap claimed' = {}
  BY DEF Unclaimed
<1>3. (\A v \in Versions : Supplied(v) \subseteq claimed)'
  BY <1>1 DEF TagsInv, Supplied
<1>4. class'.phase = "live" => (\A v \in Versions : OurOwn(v.id) => Unclaimed \subseteq Recorded(v))'
  BY <1>1, <1>2 DEF TagsInv, Recorded
<1>5. class'.phase = "live" =>
        (\A l \in LbId : OurOwn(l) /\ Active(l) => Unclaimed \subseteq lbs[l].tags)'
  BY <1>1, <1>2 DEF TagsInv
<1>6. class'.phase = "live" =>
        (\A l \in LbId : OurOwn(l) /\ cache[l] # NoCopy => Unclaimed \subseteq cache[l].tags)'
  BY <1>1, <1>2 DEF TagsInv
<1> QED BY <1>3, <1>4, <1>5, <1>6 DEF TagsInv

LEMMA OthersKeeps == ASSUME IInv, NEW l \in LbId, Touch(l) \/ RemoveTag(l) \/ Lose(l) PROVE IInv'
<1>1. PICK lb \in LoadBalancer :
        /\ Others(l, lb) /\ lb.owner = lbs[l].owner
        /\ lb.state = "lost" \/ (lb.state = lbs[l].state /\ lbs[l].state = "active")
        /\ lbs[l].tags \ claimed' \subseteq lb.tags
        /\ claimed \subseteq claimed' /\ claimed' \subseteq Tag
  <2>1. lbs[l] \in LoadBalancer /\ claimed \subseteq Tag
    BY DEF IInv, ValueInv
  <2>2. CASE Touch(l)
    BY <2>1, <2>2 DEF Touch, Others, Active
  <2>3. CASE RemoveTag(l)
    <3>1. PICK t \in lbs[l].tags :
            Others(l, [lbs[l] EXCEPT !.tags = @ \ {t}]) /\ claimed' = claimed \cup {t}
      BY <2>3 DEF RemoveTag
    <3> DEFINE lb == [lbs[l] EXCEPT !.tags = @ \ {t}]
    <3>2. /\ lb \in LoadBalancer /\ lb.owner = lbs[l].owner /\ lb.state = lbs[l].state
          /\ lb.tags = lbs[l].tags \ {t} /\ t \in Tag
      BY <2>1 DEF LoadBalancer
    <3>3. Others(l, lb) /\ lbs[l].state = "active"
      BY <3>1 DEF Others, Active
    <3> HIDE DEF lb
    <3> QED BY <2>1, <3>1, <3>2, <3>3
  <2>4. CASE Lose(l)
    <3> DEFINE lb == [lbs[l] EXCEPT !.state = "lost"]
    <3>1. Others(l, lb) /\ claimed' = claimed
      BY <2>4 DEF Lose
    <3>2. lb \in LoadBalancer /\ lb.owner = lbs[l].owner /\ lb.state = "lost" /\ lb.tags = lbs[l].tags
      BY <2>1 DEF LoadBalancer
    <3> HIDE DEF lb
    <3> QED BY <2>1, <3>1, <3>2
  <2> QED BY <2>2, <2>3, <2>4
<1>2. lb.state # "none"
  BY <1>1
<1>3. /\ class' = class /\ shape' = shape /\ listed' = listed /\ token' = token
      /\ asked' = asked /\ bare' = bare /\ adrift' = adrift /\ panicked' = panicked
      /\ lbs' \in [LbId -> LoadBalancer] /\ lbs'[l] = lb /\ lbs[l].state = "active"
      /\ \A k \in LbId : k # l => lbs'[k] = lbs[k]
      /\ cache' \in [LbId -> Copy \cup {NoCopy}]
      /\ \A k \in LbId : cache'[k] # NoCopy => cache[k] # NoCopy /\ cache'[k].tags = cache[k].tags
      /\ \A k : OurOwn(k)' <=> OurOwn(k)
      /\ \A k : Users(k)' <=> Users(k)
      /\ \A k : Active(k)' => Active(k)
      /\ \A k : Readable(k)' => Readable(k)
      /\ sync' = Idle \/ sync' \in SyncRecord
      /\ sync.at = "idle" => sync' = sync
      /\ sync'.at = sync.at /\ sync'.class = sync.class /\ sync'.lb = sync.lb
      /\ sync'.made = sync.made /\ sync'.current = sync.current
      /\ sync.seen \in Copy => sync'.seen \in Copy /\ sync'.seen.tags = sync.seen.tags
  BY <1>1, <1>2, OthersKeep
<1>4. /\ edits' \in 0..MaxEdits /\ faults' \in 0..MaxFaults /\ FirewallTypeOK'
  <2>1. edits' = edits \/ (edits > 0 /\ edits' = edits - 1)
    BY DEF Touch, RemoveTag, Lose
  <2>2. faults' = faults \/ (faults > 0 /\ faults' = faults - 1)
    BY DEF Touch, RemoveTag, Lose
  <2>3. UNCHANGED firewallVars \/ RemoveWith(l)
    BY DEF Touch, RemoveTag, Lose
  <2> QED BY <2>1, <2>2, <2>3, FaultTyped, FirewallsTyped, LifecycleAssumption DEF IInv, ValueInv
<1>5. ValueInv'
  BY <1>1, <1>3, <1>4 DEF IInv, ValueInv
<1>6. \A k \in LbId : /\ lbs'[k].state = lbs[k].state \/ (lbs[k].state = "active" /\ lbs'[k].state = "lost")
                      /\ lbs'[k].owner = lbs[k].owner
                      /\ lbs[k].tags \ claimed' \subseteq lbs'[k].tags
  BY <1>1, <1>3
<1>7. Onward(sync')
  BY <1>3 DEF Onward
<1>8. /\ VersionInv' /\ FinalizerInv' /\ DeletingInv' /\ BornInv' /\ KnownInv' /\ ImportedInv'
      /\ ProtectedStays' /\ DeletionAsked' /\ Versions' \subseteq Versions
  BY <1>3, <1>6, <1>7, OthersWorld
<1>9. TagsInv'
  BY <1>1, <1>3, <1>6, <1>8, OthersTags
<1>10. PlaceInv'
  BY <1>1, <1>3, <1>6, PlaceKept DEF IInv
<1> QED BY <1>5, <1>8, <1>9, <1>10 DEF IInv, WorldInv

-----------------------------------------------------------------------------
(* The theorems.                                                             *)

\* Every step keeps the inductive invariant.
LEMMA StepKeeps == IInv /\ [Next]_vars => IInv'
<1> SUFFICES ASSUME IInv, [Next]_vars PROVE IInv'
  OBVIOUS
<1>1. CASE UNCHANGED vars
  <2>1. /\ UNCHANGED <<class, shape, listed, lbs, token, firewalls, recent, cache, sync, edits, faults>>
        /\ UNCHANGED <<claimed, asked, bare, adrift, panicked>>
    BY <1>1 DEF vars, apiVars, serviceVars, firewallVars, boundVars, historyVars
  <2>2. ValueInv'
    BY <2>1 DEF IInv, ValueInv, FirewallTypeOK, There
  <2>3. WorldInv'
    BY <2>1, WorldKept DEF IInv, WorldInv, TagsInv, Readable, Onward
  <2>4. PlaceInv'
    BY <2>1, PlaceKept DEF IInv, Readable, Active
  <2> QED BY <2>2, <2>3, <2>4 DEF IInv
<1>2. CASE Sync
  BY <1>2, TakeKeeps, EnsureFinalizerKeeps, EnsureKeeps, CreateKeeps, BackfillKeeps, AnnotateKeeps,
     CheckKeeps, UpdateTagsKeeps, UpdateDefaultsKeeps, RefreshKeeps, UpdateShapeKeeps,
     CheckNsgsKeeps, UpdateNsgsKeeps, SetupFirewallKeeps, MakeFirewallKeeps, FirewallPatchKeeps,
     DropFirewallKeeps, DeleteKeeps, ClearFirewallKeeps, ClearKeeps, DeleteLbKeeps, UnfinalizeKeeps
  DEF Sync
<1>3. CASE Fail \/ ClearFails \/ Crash \/ CatchUp \/ ExpireToken \/ EditClass \/ DeleteClass \/ EditShape
  BY <1>3, FailKeeps, CatchUpKeeps, ExpireTokenKeeps, EditClassKeeps, DeleteClassKeeps, EditShapeKeeps
<1>4. CASE \E l \in LbId : Expire(l) \/ Touch(l) \/ RemoveTag(l) \/ Lose(l)
  BY <1>4, ExpireKeeps, OthersKeeps
<1>5. CASE \E f \in FirewallId : PolicyGrowsOld(f)
  BY <1>5, PolicyGrowsOldKeeps
<1> QED BY <1>1, <1>2, <1>3, <1>4, <1>5 DEF Next

\* What the versions of the class, the load balancer, its copies and the place of
\* the sync have to do with each other holds in every state that can be reached.
THEOREM Invariance == Spec => []IInv
BY Initially, StepKeeps, PTL DEF Spec

\* Types; and the class is held while ensureLoadBalancer patches it by name.
THEOREM TypesOK == Spec => []TypeOK
<1>1. IInv => TypeOK
  <2> SUFFICES ASSUME IInv PROVE TypeOK
    OBVIOUS
  <2>1. /\ sync = Idle \/ (sync.class \in Class /\ sync.lb \in LbId \cup {NoLb}
                           /\ sync.seen \in Copy \cup {NoCopy}
                           /\ sync.made \in FirewallId \cup {NoFirewall})
    BY DEF IInv, ValueInv, SyncRecord
  <2>2. sync.at \in {"create", "backfill", "annotate", "defaults", "recordFirewall", "forgetFirewall"}
          => class.phase # "gone"
    BY DEF IInv, PlaceInv, EnsurePlaces, CreatePlaces, UpdatePlaces
  <2>3. listed.copy \in Class /\ listed.current \in BOOLEAN
    BY DEF IInv, ValueInv
  <2> QED BY <2>1, <2>2, <2>3 DEF IInv, ValueInv, TypeOK
<1> QED BY <1>1, Invariance, PTL

\* createLoadBalancer: whatever is lost between the request and the patch of the
\* annotation, a load balancer of the controller is named by the class or given
\* back by its retry token until the class is gone.
THEOREM NoLoadBalancerForgotten == Spec => []NoneForgotten
<1>1. IInv => NoneForgotten
  BY DEF IInv, WorldInv, KnownInv, NoneForgotten, Versions, OurOwn, Active
<1> QED BY <1>1, Invariance, PTL

\* getImplicitDefaultTags and the backfilled annotation: the default tags that no
\* user has claimed stay on the load balancer.
THEOREM TagsKept == Spec => []DefaultTagsKept
<1>1. IInv => DefaultTagsKept
  <2> SUFFICES ASSUME IInv, class.phase = "live", Active(class.id), lbs[class.id].owner = "controller"
               PROVE  DefaultTags \ claimed \subseteq lbs[class.id].tags
    BY DEF DefaultTagsKept
  <2>1. OurOwn(class.id) /\ class.id \in LbId
    BY DEF OurOwn, Active
  <2> QED BY <2>1 DEF IInv, WorldInv, TagsInv, Unclaimed
<1> QED BY <1>1, Invariance, PTL

\* deleteLoadBalancer: nothing is deleted for a class that is not being deleted, or
\* that has been protected ever since its deletion was asked for, however old the
\* copy that the sync works on.
THEOREM ProtectionHolds == Spec => []ProtectedStays
<1>1. IInv => ProtectedStays
  BY DEF IInv, WorldInv
<1> QED BY <1>1, Invariance, PTL

\* deleteFinalizer: the class goes after the deletion of its load balancer was asked.
THEOREM AskedBeforeGone == Spec => []DeletionAsked
<1>1. IInv => DeletionAsked
  BY DEF IInv, WorldInv
<1> QED BY <1>1, Invariance, PTL
=============================================================================
