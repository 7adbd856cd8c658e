------------------------- MODULE LoadBalancerStore --------------------------
(***************************************************************************)
(* The promise of LoadBalancerClient: one document, changed by one call at *)
(* a time, each call changing only what it is named for on the document as *)
(* it stands at that moment (UpdateBackends "while preserving sslConfig,   *)
(* policy, and healthChecker details", UpdateBackendSetDetails "while      *)
(* preserving existing backends"). The workers, the cache, the ETags and   *)
(* the work requests are how the client keeps it.                          *)
(***************************************************************************)
EXTENDS LoadBalancerDocument

VARIABLE document

StoreInit == document \in Document

Change(call) ==
  /\ Valid(call, document)
  /\ document' = Put(call, document, NewValue(call, document))

StoreNext == \E call \in Call : Change(call)

StoreSpec == StoreInit /\ [][StoreNext]_document
=============================================================================
