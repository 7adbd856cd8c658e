-------------------------- MODULE ControllerQueue ---------------------------
(***************************************************************************)
(* How a controller (ingress, ingress class, routing policy, backend, node *)
(* backend) turns changes of objects into syncs: the informer's event      *)
(* handlers and the pusher add keys to a client-go work queue, workers     *)
(* take them, sync, and handleErr decides what becomes of a failure.       *)
(*                                                                         *)
(*   queue       the keys to take, in order (queue.go: queue, dirty,       *)
(*               processing)                                               *)
(*   channel     waitingForAddCh, between AddAfter and the waiting loop    *)
(*   heap        the keys the waiting loop keeps until they are due        *)
(*   failures    the rate limiter's count per key (NumRequeues)            *)
(*                                                                         *)
(* A worker is at "take", "read" (the sync is about to read the object     *)
(* from the lister), "sync", "addAfter" (in AddAfter's send), "done" (the  *)
(* deferred Done) or "stopped".                                            *)
(***************************************************************************)
EXTENDS Naturals, Sequences

CONSTANTS Key,
          Worker,
          Watched,        \* keys with an event handler (ingress, ingress class)
          Pushed,         \* keys runPusher adds every 10 seconds (the others)
          NotReadyKeys,   \* keys whose sync may find the ingress class not ready
          NoKey,          \* what a worker between two keys has
          MaxRequeues,    \* 5 in every handleErr
          ChannelCapacity \* 1000 in newDelayingQueue

ASSUME QueueAssumption ==
  /\ Watched \subseteq Key /\ Pushed \subseteq Key /\ NotReadyKeys \subseteq Key /\ NoKey \notin Key
  /\ MaxRequeues \in Nat /\ ChannelCapacity \in Nat \ {0}

VARIABLES queue, dirty, processing, shuttingDown,
          channel, heap, failures,
          pc, item,  \* per worker
          events,    \* keys with an event on its way to the handler
          unseen,    \* history: changed in the lister and not read by a sync since
          owed       \* history: the last sync failed, and was promised a retry

queueVars   == <<queue, dirty, processing, shuttingDown>>
delayVars   == <<channel, heap, failures>>
workerVars  == <<pc, item>>
historyVars == <<unseen, owed>>
vars        == <<queueVars, delayVars, workerVars, events, historyVars>>

Init ==
  /\ queue = <<>> /\ dirty = {} /\ processing = {} /\ shuttingDown = FALSE
  /\ channel = <<>> /\ heap = {} /\ failures = [k \in Key |-> 0]
  /\ pc = [w \in Worker |-> "take"]
  /\ item = [w \in Worker |-> NoKey]
  /\ events = {} /\ unseen = {} /\ owed = {}

-----------------------------------------------------------------------------
(* The queue.                                                                *)

\* Mutants: a key in process is not marked dirty; it is queued at once.
AddForgets(k) ==
  /\ IF shuttingDown \/ k \in dirty \cup processing
       THEN UNCHANGED <<queue, dirty>>
       ELSE dirty' = dirty \cup {k} /\ queue' = Append(queue, k)
  /\ UNCHANGED <<processing, shuttingDown>>
AddTwice(k) ==
  /\ IF shuttingDown \/ k \in dirty
       THEN UNCHANGED <<queue, dirty>>
       ELSE dirty' = dirty \cup {k} /\ queue' = Append(queue, k)
  /\ UNCHANGED <<processing, shuttingDown>>

\* A key in process is only marked: Done queues it.
Add(k) ==
  /\ IF shuttingDown \/ k \in dirty
       THEN UNCHANGED <<queue, dirty>>
       ELSE /\ dirty' = dirty \cup {k}
            /\ queue' = IF k \in processing THEN queue ELSE Append(queue, k)
  /\ UNCHANGED <<processing, shuttingDown>>

-----------------------------------------------------------------------------
(* What adds keys.                                                           *)

\* An object changes: first in the lister, then the handler hears of it.
Change(k) ==
  /\ unseen' = unseen \cup {k}
  /\ events' = events \cup ({k} \cap Watched)
  /\ UNCHANGED <<queueVars, delayVars, workerVars, owed>>

Notify(k) ==
  /\ k \in events
  /\ events' = events \ {k}
  /\ Add(k)
  /\ UNCHANGED <<delayVars, workerVars, historyVars>>

Push(k) ==
  /\ k \in Pushed
  /\ Add(k)
  /\ UNCHANGED <<delayVars, workerVars, events, historyVars>>

\* The waiting loop takes a key from the channel: one already due (the loop was
\* late) is added, others go to the heap, which keeps one entry per key.
Receive(k) ==
  /\ ~shuttingDown
  /\ channel # <<>> /\ k = Head(channel)
  /\ channel' = Tail(channel)
  /\ \/ heap' = heap \cup {k} /\ UNCHANGED queueVars
     \/ Add(k) /\ UNCHANGED heap
  /\ UNCHANGED <<failures, workerVars, events, historyVars>>

\* Mutant: an entry that is due is only taken off the heap.
FireForgets(k) ==
  /\ ~shuttingDown
  /\ k \in heap
  /\ heap' = heap \ {k}
  /\ UNCHANGED <<queueVars, channel, failures, workerVars, events, historyVars>>

\* A key on the heap is due.
Fire(k) ==
  /\ ~shuttingDown
  /\ k \in heap
  /\ heap' = heap \ {k}
  /\ Add(k)
  /\ UNCHANGED <<channel, failures, workerVars, events, historyVars>>

\* Run's deferred ShutDown: what is queued is still taken, what waits is lost.
ShutDown ==
  /\ ~shuttingDown
  /\ shuttingDown' = TRUE
  /\ UNCHANGED <<queue, dirty, processing, delayVars, workerVars, events, historyVars>>

-----------------------------------------------------------------------------
(* A worker: processNextItem.                                                *)

Goto(w, place) == pc' = [pc EXCEPT ![w] = place]

Get(w) ==
  /\ pc[w] = "take"
  /\ queue # <<>>
  /\ item' = [item EXCEPT ![w] = Head(queue)]
  /\ queue' = Tail(queue)
  /\ processing' = processing \cup {Head(queue)}
  /\ dirty' = dirty \ {Head(queue)}
  /\ Goto(w, "read")
  /\ UNCHANGED <<shuttingDown, delayVars, events, historyVars>>

Quit(w) ==
  /\ pc[w] = "take"
  /\ queue = <<>> /\ shuttingDown
  /\ Goto(w, "stopped")
  /\ UNCHANGED <<queueVars, delayVars, item, events, historyVars>>

Read(w) ==
  /\ pc[w] = "read"
  /\ Goto(w, "sync")
  /\ unseen' = unseen \ {item[w]}
  /\ owed' = owed \ {item[w]}
  /\ UNCHANGED <<queueVars, delayVars, item, events>>

\* handleErr: nil.
Succeed(w) ==
  /\ pc[w] = "sync"
  /\ Goto(w, "done")
  /\ failures' = [failures EXCEPT ![item[w]] = 0]
  /\ UNCHANGED <<queueVars, channel, heap, item, events, unseen, owed>>

\* handleErr: errIngressClassNotReady, tried again in 10 seconds and not counted.
NotReady(w) ==
  /\ pc[w] = "sync"
  /\ item[w] \in NotReadyKeys
  /\ Goto(w, "addAfter")
  /\ owed' = owed \cup {item[w]}
  /\ UNCHANGED <<queueVars, delayVars, item, events, unseen>>

\* Mutant: one retry too many.
RetryOnceMore(w) ==
  /\ pc[w] = "sync"
  /\ failures[item[w]] <= MaxRequeues
  /\ Goto(w, "addAfter")
  /\ failures' = [failures EXCEPT ![item[w]] = @ + 1]
  /\ owed' = owed \cup {item[w]}
  /\ UNCHANGED <<queueVars, channel, heap, item, events, unseen>>

\* handleErr: AddRateLimited, whose When counts the failure.
Retry(w) ==
  /\ pc[w] = "sync"
  /\ failures[item[w]] < MaxRequeues
  /\ Goto(w, "addAfter")
  /\ failures' = [failures EXCEPT ![item[w]] = @ + 1]
  /\ owed' = owed \cup {item[w]}
  /\ UNCHANGED <<queueVars, channel, heap, item, events, unseen>>

\* handleErr: the key is dropped.
GiveUp(w) ==
  /\ pc[w] = "sync"
  /\ failures[item[w]] >= MaxRequeues
  /\ Goto(w, "done")
  /\ failures' = [failures EXCEPT ![item[w]] = 0]
  /\ UNCHANGED <<queueVars, channel, heap, item, events, unseen, owed>>

\* Mutant: a full channel drops the key instead.
AddAfterDrops(w) ==
  /\ pc[w] = "addAfter"
  /\ IF shuttingDown \/ Len(channel) = ChannelCapacity THEN UNCHANGED channel
     ELSE channel' = Append(channel, item[w])
  /\ Goto(w, "done")
  /\ UNCHANGED <<queueVars, heap, failures, item, events, historyVars>>

\* AddAfter's send blocks while the channel is full; shutting down drops it.
AddAfter(w) ==
  /\ pc[w] = "addAfter"
  /\ IF shuttingDown THEN UNCHANGED channel
     ELSE Len(channel) < ChannelCapacity /\ channel' = Append(channel, item[w])
  /\ Goto(w, "done")
  /\ UNCHANGED <<queueVars, heap, failures, item, events, historyVars>>

\* Mutant: a key marked meanwhile is left alone.
DoneForgets(w) ==
  /\ pc[w] = "done"
  /\ processing' = processing \ {item[w]}
  /\ Goto(w, "take") /\ item' = [item EXCEPT ![w] = NoKey]
  /\ UNCHANGED <<queue, dirty, shuttingDown, delayVars, events, historyVars>>

\* A key marked dirty while it was in process is queued now, shutting down or not.
Done(w) ==
  /\ pc[w] = "done"
  /\ processing' = processing \ {item[w]}
  /\ queue' = IF item[w] \in dirty THEN Append(queue, item[w]) ELSE queue
  /\ Goto(w, "take") /\ item' = [item EXCEPT ![w] = NoKey]
  /\ UNCHANGED <<dirty, shuttingDown, delayVars, events, historyVars>>

-----------------------------------------------------------------------------

Step(w) ==
  Get(w) \/ Quit(w) \/ Read(w) \/ Succeed(w) \/ NotReady(w) \/ Retry(w) \/ GiveUp(w)
    \/ AddAfter(w) \/ Done(w)

Next ==
  \/ \E k \in Key : Change(k) \/ Notify(k) \/ Push(k) \/ Receive(k) \/ Fire(k)
  \/ \E w \in Worker : Step(w)
  \/ ShutDown

Spec == Init /\ [][Next]_vars

\* Handlers, the pusher's ticker and the waiting loop run; a sync returns, since
\* every call of the load balancer client does. A Go channel serves the senders
\* blocked on it in order. Nothing is assumed of a sync's result.
FairSpec ==
  /\ Spec
  /\ \A k \in Key : WF_vars(Notify(k)) /\ WF_vars(Push(k)) /\ WF_vars(Receive(k)) /\ WF_vars(Fire(k))
  /\ \A w \in Worker : WF_vars(Step(w)) /\ SF_vars(AddAfter(w))

-----------------------------------------------------------------------------
(* Properties.                                                               *)

Place == {"take", "read", "sync", "addAfter", "done", "stopped"}
Holding == {"read", "sync", "addAfter", "done"}

\* Types, and the bound of handleErr: a key is requeued at most five times.
TypeOK ==
  /\ queue \in Seq(Key) /\ dirty \subseteq Key /\ processing \subseteq Key
  /\ shuttingDown \in BOOLEAN
  /\ channel \in Seq(Key) /\ Len(channel) <= ChannelCapacity /\ heap \subseteq Key
  /\ failures \in [Key -> 0..MaxRequeues]
  /\ pc \in [Worker -> Place] /\ item \in [Worker -> Key \cup {NoKey}]
  /\ \A w \in Worker : item[w] # NoKey <=> pc[w] \in Holding
  /\ events \subseteq Watched /\ unseen \subseteq Key /\ owed \subseteq Key

\* "Two pods with the same key are never processed in parallel"
\* (processNextItem): whatever handlers, pusher, retries and Done add, and when,
\* no two of a controller's workers hold one key.
OneWorkerPerKey ==
  \A v, w \in Worker :
    v # w /\ pc[v] \in Holding /\ pc[w] \in Holding => item[v] # item[w]

\* The keys that will be taken: on the queue, or in process and to be queued
\* again by Done.
WillBeTaken(k) ==
  \/ \E i \in DOMAIN queue : queue[i] = k
  \/ k \in dirty /\ \E w \in Worker : pc[w] \in Holding /\ item[w] = k

BeingRead(k) == \E w \in Worker : pc[w] = "read" /\ item[w] = k

\* A change that came while the key was queued, taken, in its sync or in its
\* error handling is followed by another read of the object: the one sync that
\* was under way never stands for it.
NoChangeForgotten ==
  \A k \in unseen \cap Watched :
    shuttingDown \/ k \in events \/ WillBeTaken(k) \/ BeingRead(k)

\* A failed sync that is to be retried is somewhere on the way back to the queue
\* (AddAfter's send, the channel, the heap, the queue), at every moment, also
\* when other adds of the same key come between.
NoRetryForgotten ==
  \A k \in owed :
    \/ shuttingDown \/ WillBeTaken(k) \/ BeingRead(k) \/ k \in heap
    \/ \E i \in DOMAIN channel : channel[i] = k
    \/ \E w \in Worker : pc[w] = "addAfter" /\ item[w] = k

\* Where a key is until a worker takes it: its event is on its way, it is on the
\* queue or marked to be, or it waits for its retry.
Pending ==
  dirty \cup events \cup heap \cup {channel[i] : i \in DOMAIN channel}
    \cup {item[w] : w \in {v \in Worker : pc[v] = "addAfter"}}

Abstract == INSTANCE PendingKeys WITH pending <- Pending, stopping <- shuttingDown

\* Through all these places a key that is due stays so until a worker takes it,
\* and no two workers have it: what the models of the controllers' syncs suppose.
ImplementsPendingKeys == Abstract!QueueSpec

\* Every change is read by a sync in the end, by way of its event or of the
\* pusher, even if every sync fails.
ChangesAreRead ==
  \A k \in Watched \cup Pushed : k \in unseen ~> k \notin unseen \/ shuttingDown
=============================================================================
