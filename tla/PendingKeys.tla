----------------------------- MODULE PendingKeys -----------------------------
(***************************************************************************)
(* The promise of ControllerQueue: a key for which something is to be done *)
(* (an event of its object, a retry, a push) is pending until a worker     *)
(* takes it, and one worker at a time has it. That is all the controllers' *)
(* models know of the queue: its order, the set of dirty keys and the      *)
(* delaying queue are how it is kept.                                      *)
(***************************************************************************)
CONSTANTS Key, Worker,
          NoKey     \* what a worker between two keys has

VARIABLES pending,  \* the keys a worker has still to take
          item,     \* per worker: the key it has
          stopping  \* the queue is shutting down

QueueInit == pending = {} /\ item = [w \in Worker |-> NoKey] /\ stopping = FALSE

\* A key becomes pending at any time, also while a worker has it.
Due(k) == pending' = pending \cup {k} /\ UNCHANGED <<item, stopping>>

\* A key that is due twice, by a retry and by an event, may be taken twice.
Begin(w, k) ==
  /\ item[w] = NoKey
  /\ k \in pending /\ \A v \in Worker : item[v] # k
  /\ item' = [item EXCEPT ![w] = k]
  /\ pending' \in {pending \ {k}, pending}
  /\ UNCHANGED stopping

End(w) == item' = [item EXCEPT ![w] = NoKey] /\ UNCHANGED <<pending, stopping>>

Stop == stopping' = TRUE /\ UNCHANGED <<pending, item>>

\* Only a queue that is shutting down forgets keys.
Forget == stopping /\ pending' \in SUBSET pending /\ UNCHANGED <<item, stopping>>

QueueNext ==
  \/ \E k \in Key : Due(k) \/ \E w \in Worker : Begin(w, k)
  \/ \E w \in Worker : End(w)
  \/ Stop \/ Forget

QueueSpec == QueueInit /\ [][QueueNext]_<<pending, item, stopping>>
=============================================================================
