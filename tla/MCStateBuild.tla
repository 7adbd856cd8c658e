---------------------------- MODULE MCStateBuild -----------------------------
(***************************************************************************)
(* Instances of StateBuild for TLC: groups of three Ingresses out of a set *)
(* in which each departs from a plain Ingress in one setting or two.       *)
(***************************************************************************)
EXTENDS StateBuild

CONSTANTS l1, l2, b1, b2, s1, s2, c1, c2

Plain ==
  [paths                |-> <<[listener |-> l1, backendSet |-> b1, secret |-> Unset]>>,
   protocol             |-> "HTTP",
   idleTimeout          |-> Unset,
   healthChecker        |-> Unset,
   policy               |-> Unset,
   persistence          |-> Unset,
   backendTLS           |-> TRUE,
   certificates         |-> <<>>,
   listenerTLSPolicy    |-> Unset,
   bsTLSPolicy          |-> Unset,
   defaultBackend       |-> FALSE,
   defaultHealthChecker |-> Unset]

Certified == [Plain EXCEPT !.certificates = <<c1>>]
TLSPolicy(cipherSuite, protocols) == [cipherSuite |-> cipherSuite, protocols |-> protocols]

Ingresses ==
  {Plain, Certified,
   [Plain EXCEPT !.protocol = TCP], [Certified EXCEPT !.protocol = "HTTP2"],
   [Plain EXCEPT !.idleTimeout = 1], [Plain EXCEPT !.idleTimeout = 2],
   [Plain EXCEPT !.healthChecker = "http"], [Plain EXCEPT !.healthChecker = "https"],
   [Plain EXCEPT !.healthChecker = DefaultChecker],
   [Plain EXCEPT !.policy = "least_connections"],
   [Plain EXCEPT !.persistence = [kind |-> "lb", cookie |-> 1]],
   [Plain EXCEPT !.persistence = [kind |-> "lb", cookie |-> 2]],
   [Plain EXCEPT !.persistence = [kind |-> "app", cookie |-> 1]],
   [Plain EXCEPT !.persistence = [kind |-> "app", cookie |-> 2]],
   [Plain EXCEPT !.persistence = Invalid],
   [Plain EXCEPT !.defaultHealthChecker = "http", !.defaultBackend = TRUE],
   [Plain EXCEPT !.defaultHealthChecker = "http"],
   [Plain EXCEPT !.paths[1].secret = s1], [Plain EXCEPT !.paths[1].secret = s2],
   [Plain EXCEPT !.backendTLS = FALSE],
   [Certified EXCEPT !.backendTLS = FALSE],
   [Certified EXCEPT !.certificates = <<c2, c1>>],
   [Certified EXCEPT !.paths[1].secret = s1],
   [Certified EXCEPT !.protocol = TCP],
   [Certified EXCEPT !.listenerTLSPolicy = TLSPolicy(1, Unset), !.bsTLSPolicy = TLSPolicy(Unset, 1)],
   [Certified EXCEPT !.listenerTLSPolicy = TLSPolicy(1, 1), !.bsTLSPolicy = TLSPolicy(1, 1)],
   [Plain EXCEPT !.listenerTLSPolicy = TLSPolicy(Unset, 2), !.bsTLSPolicy = TLSPolicy(2, 2)],
   [Plain EXCEPT !.listenerTLSPolicy = Invalid]}

\* The other listener; and both backend sets.
Paths(i) == {i.paths,
             <<[i.paths[1] EXCEPT !.listener = l2]>>,
             <<i.paths[1], [i.paths[1] EXCEPT !.backendSet = b2, !.secret = Unset]>>}

Placed == UNION {{[i EXCEPT !.paths = p] : p \in Paths(i)} : i \in Ingresses}

\* The order of the names is the sequence's.
MCGroup == Ingresses \X Placed \X Ingresses
=============================================================================
