----------------------- MODULE MCCertificateLifecycle -----------------------
EXTENDS CertificateLifecycle

CONSTANTS i1, i2

\* One Ingress with a secret that is renewed, deleted and made again; and two
\* Ingresses that share a secret.
MCInstances ==
  {[ingresses |-> {i1}, uids |-> 2, events |-> 2],
   [ingresses |-> {i1, i2}, uids |-> 1, events |-> 1]}
=============================================================================
