--------------------------- MODULE WebAppFirewall ---------------------------
(***************************************************************************)
(* The firewalls of load balancers and the client that makes and deletes   *)
(* them (pkg/waf/waf.go). A load balancer has at most one firewall: the    *)
(* service refuses a second one. A firewall has the policy it was made     *)
(* with and goes with its load balancer.                                   *)
(***************************************************************************)
EXTENDS Naturals

CONSTANTS Policy, NoPolicy,
          MaxLbs, NoLb,              \* load balancers ever created
          MaxFirewalls, NoFirewall   \* firewalls ever made

LbId       == 1..MaxLbs
FirewallId == 1..MaxFirewalls

ASSUME FirewallAssumption ==
  /\ MaxLbs \in Nat \ {0} /\ NoLb \notin LbId
  /\ MaxFirewalls \in Nat /\ NoFirewall \notin FirewallId
  /\ NoPolicy \notin Policy

VARIABLES
  firewalls, \* per id: its load balancer, none once it is gone, and its policy
  recent     \* the ids whose policy the client has read in the last five minutes

firewallVars == <<firewalls, recent>>

FirewallInit ==
  /\ firewalls = [f \in FirewallId |-> [lb |-> NoLb, policy |-> NoPolicy]]
  /\ recent = {}

There(f)      == f \in FirewallId /\ firewalls[f].lb # NoLb
Protected(l)  == \E f \in FirewallId : firewalls[f].lb = l
NextFirewall(f) ==
  firewalls[f].policy = NoPolicy /\ \A g \in FirewallId : g < f => firewalls[g].policy # NoPolicy

\* GetWebAppFirewallWithId: the client may have read the policy of what is gone now.
FirewallReadable(f) == There(f) \/ f \in recent
ReadPolicy(f) == recent' = recent \cup {f}

\* A policy in the cache is more than five minutes old.
ExpirePolicy(f) == f \in recent /\ recent' = recent \ {f} /\ UNCHANGED firewalls

Make(f, l, p) ==
  /\ NextFirewall(f) /\ ~Protected(l)
  /\ firewalls' = [firewalls EXCEPT ![f] = [lb |-> l, policy |-> p]]
  /\ UNCHANGED recent

\* DeleteWebAppFirewallWithId, when it succeeds. (removeFromCache only reads.)
Remove(f) ==
  /\ firewalls' = IF There(f) THEN [firewalls EXCEPT ![f].lb = NoLb] ELSE firewalls
  /\ UNCHANGED recent

\* The load balancer goes.
RemoveWith(l) ==
  /\ firewalls' = [f \in FirewallId |->
       IF firewalls[f].lb = l THEN [firewalls[f] EXCEPT !.lb = NoLb] ELSE firewalls[f]]
  /\ UNCHANGED recent

FirewallTypeOK ==
  /\ firewalls \in [FirewallId -> [lb : LbId \cup {NoLb}, policy : Policy \cup {NoPolicy}]]
  /\ \A f, g \in FirewallId : There(f) /\ firewalls[f].lb = firewalls[g].lb => f = g
  /\ recent \subseteq FirewallId
=============================================================================
