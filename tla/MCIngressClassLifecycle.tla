----------------------- MODULE MCIngressClassLifecycle ----------------------
(***************************************************************************)
(* One tag that the service adds and one that users supply, two bandwidths,*)
(* one network security group, and two firewall policies.                  *)
(***************************************************************************)
EXTENDS IngressClassLifecycle

CONSTANTS dflt, own, g1, small, large, p1, p2

Start(defined, nsgs, policy) ==
  [imported : BOOLEAN, defined : defined, nsgs : {nsgs}, policy : {policy}]

\* No tags or the empty set of tags or one tag; a tag and a group; a firewall
\* policy. The class is new, or names a load balancer of its user's.
MCStarts ==
  Start(Annotation \ {{Tag}}, {}, NoPolicy) \cup Start({{{own}}}, {g1}, NoPolicy) \cup Start({{}}, {}, p1)
=============================================================================
