----------------------------- MODULE MCReconcile -----------------------------
(***************************************************************************)
(* Instances of Reconcile for TLC: two Ingresses that share a listener and *)
(* a backend set, or have their own.                                       *)
(***************************************************************************)
EXTENDS Reconcile, TLC

CONSTANTS i1, i2, w1, w2, l1, l2, b1, b2

Wants(l, b) == {[listener |-> l, backendSet |-> b]}

\* i2 asks for what i1 asks for, or for nothing; or each has its own.
Shared   == (i1 :> {Wants(l1, b1)}) @@ (i2 :> {Wants(l1, b1), {}})
Separate == (i1 :> {Wants(l1, b1)}) @@ (i2 :> {Wants(l2, b2)})

WorkerSymmetry == Permutations(Worker)
=============================================================================
