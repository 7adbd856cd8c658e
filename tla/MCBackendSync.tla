--------------------------- MODULE MCBackendSync ---------------------------
EXTENDS BackendSync, TLC

CONSTANTS i1, i2, s1, s2, p1, p2, p3, n1, n2

MCServiceOf  == i1 :> s1 @@ i2 :> s2
MCPodService == p1 :> s1 @@ p2 :> s1 @@ p3 :> s2
MCNodeOf     == p1 :> n1 @@ p2 :> n2 @@ p3 :> n2

\* A pod that is replaced under its name; two pods of one service; two Ingresses,
\* with pods and with nodes as backends.
MCInstances ==
  {[mode |-> "pods",  ingresses |-> {i1},     pods |-> {p1},     events |-> 3],
   [mode |-> "pods",  ingresses |-> {i1},     pods |-> {p1, p2}, events |-> 2],
   [mode |-> "pods",  ingresses |-> {i1, i2}, pods |-> {p1, p3}, events |-> 1],
   [mode |-> "nodes", ingresses |-> {i1, i2}, pods |-> {p1, p3}, events |-> 2]}

NodesInstances ==
  {[mode |-> "nodes", ingresses |-> {i1}, pods |-> {p1}, events |-> 1]}
=============================================================================
