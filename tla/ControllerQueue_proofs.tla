----------------------- MODULE ControllerQueue_proofs -----------------------
(***************************************************************************)
(* Proofs about ControllerQueue, for any number of keys and workers and    *)
(* any capacity of the delaying queue's channel.                           *)
(*                                                                         *)
(* queue, dirty and processing are three views of one thing. QueueInv is   *)
(* the comment of queue.go ("every element of queue should be in the dirty *)
(* set and not in the processing set") with the two halves it leaves out:  *)
(* no element is there twice, and a dirty key that is not on the queue is  *)
(* in process, where Done will find it.                                    *)
(***************************************************************************)
EXTENDS ControllerQueue, TLAPS

QueueInv ==
  /\ \A i \in DOMAIN queue : queue[i] \in dirty \ processing
  /\ \A i, j \in DOMAIN queue : queue[i] = queue[j] => i = j
  /\ \A k \in dirty \ processing : \E i \in DOMAIN queue : queue[i] = k

\* The processing set is the keys the workers hold, each held once.
HoldingInv ==
  /\ \A k \in Key : k \in processing <=> \E w \in Worker : pc[w] \in Holding /\ item[w] = k
  /\ OneWorkerPerKey

ChangeInv ==
  \A k \in unseen \cap Watched :
    shuttingDown \/ k \in events \/ k \in dirty \/ BeingRead(k)

RetryInv ==
  \A k \in owed :
    \/ shuttingDown \/ k \in dirty \/ BeingRead(k) \/ k \in heap
    \/ \E i \in DOMAIN channel : channel[i] = k
    \/ \E w \in Worker : pc[w] = "addAfter" /\ item[w] = k

IInv == TypeOK /\ QueueInv /\ HoldingInv /\ ChangeInv /\ RetryInv

LEMMA Initially == Init => IInv
<1> SUFFICES ASSUME Init PROVE IInv
  OBVIOUS
<1> USE QueueAssumption DEF Init
<1>1. queue \in Seq(Key) /\ channel \in Seq(Key) /\ Len(channel) = 0
  OBVIOUS
<1>2. TypeOK
  <2>1. failures \in [Key -> 0..MaxRequeues] /\ Len(channel) <= ChannelCapacity
    BY <1>1
  <2>2. /\ pc \in [Worker -> Place] /\ item \in [Worker -> Key \cup {NoKey}]
        /\ \A w \in Worker : item[w] # NoKey <=> pc[w] \in Holding
    BY DEF Place, Holding
  <2> QED BY <1>1, <2>1, <2>2 DEF TypeOK
<1>3. QueueInv
  BY DEF QueueInv
<1>4. HoldingInv
  BY DEF HoldingInv, OneWorkerPerKey, Holding
<1>5. ChangeInv /\ RetryInv
  BY DEF ChangeInv, RetryInv
<1> QED BY <1>2, <1>3, <1>4, <1>5 DEF IInv

-----------------------------------------------------------------------------
(* The queue's operations.                                                   *)

\* Add leaves the key dirty, unless the queue is shutting down, and whatever
\* was marked stays marked.
LEMMA AddKeepsQueue ==
  ASSUME IInv, NEW k \in Key, Add(k)
  PROVE  /\ queue' \in Seq(Key) /\ dirty' \subseteq Key /\ QueueInv'
         /\ dirty \subseteq dirty' /\ (shuttingDown \/ k \in dirty')
         /\ processing' = processing /\ shuttingDown' = shuttingDown
<1> USE DEF IInv, TypeOK
<1>1. processing' = processing /\ shuttingDown' = shuttingDown
  BY DEF Add
<1>2. CASE shuttingDown \/ k \in dirty
  BY <1>1, <1>2 DEF Add, QueueInv
<1>3. CASE ~(shuttingDown \/ k \in dirty) /\ k \in processing
  BY SMTT(30), <1>1, <1>3 DEF Add, QueueInv
<1>4. CASE ~(shuttingDown \/ k \in dirty) /\ k \notin processing
  <2>1. dirty' = dirty \cup {k} /\ queue' = Append(queue, k)
    BY <1>4 DEF Add
  <2>2. /\ queue' \in Seq(Key) /\ DOMAIN queue' = DOMAIN queue \cup {Len(queue) + 1}
        /\ \A i \in DOMAIN queue : queue'[i] = queue[i] /\ i # Len(queue) + 1
        /\ queue'[Len(queue) + 1] = k
    BY <2>1
  <2>3. QueueInv'
    BY <1>1, <1>4, <2>1, <2>2 DEF QueueInv
  <2> QED BY <1>1, <1>4, <2>1, <2>2, <2>3
<1> QED BY <1>2, <1>3, <1>4

\* A step that only adds a key, and moves its duty to the dirty set.
LEMMA AddStep ==
  ASSUME IInv, NEW k \in Key, Add(k), UNCHANGED <<failures, workerVars, historyVars>>,
         events' \in SUBSET events, \A e \in events \ {k} : e \in events',
         heap' \in SUBSET Key, \A h \in heap \ {k} : h \in heap',
         channel' \in Seq(Key), Len(channel') <= ChannelCapacity,
         \A i \in DOMAIN channel : channel[i] = k \/ \E j \in DOMAIN channel' : channel'[j] = channel[i]
  PROVE  IInv'
<1> USE DEF workerVars, historyVars
<1>1. TypeOK'
  BY AddKeepsQueue DEF IInv, TypeOK
<1>2. HoldingInv'
  BY AddKeepsQueue DEF IInv, HoldingInv, OneWorkerPerKey
<1>3. ChangeInv'
  BY AddKeepsQueue DEF IInv, ChangeInv, BeingRead
<1>4. RetryInv'
  BY AddKeepsQueue DEF IInv, RetryInv, BeingRead
<1> QED BY <1>1, <1>2, <1>3, <1>4, AddKeepsQueue DEF IInv

LEMMA KeyStep ==
  ASSUME IInv, NEW k \in Key, Change(k) \/ Notify(k) \/ Push(k) \/ Receive(k) \/ Fire(k)
  PROVE  IInv'
<1> USE DEF IInv, TypeOK
<1>1. CASE Change(k)
  <2>1. /\ unseen' = unseen \cup {k} /\ events' = events \cup ({k} \cap Watched)
        /\ UNCHANGED <<queueVars, delayVars, workerVars, owed>>
    BY <1>1 DEF Change
  <2> USE <2>1 DEF queueVars, delayVars, workerVars
  <2>2. TypeOK'
    BY QueueAssumption
  <2>3. QueueInv' /\ HoldingInv' /\ RetryInv'
    BY DEF QueueInv, HoldingInv, OneWorkerPerKey, RetryInv, BeingRead
  <2>4. ChangeInv'
    BY DEF ChangeInv, BeingRead
  <2> QED BY <2>2, <2>3, <2>4
<1>2. CASE Notify(k)
  BY <1>2, AddStep DEF Notify, delayVars
<1>3. CASE Push(k)
  BY <1>3, AddStep DEF Push, delayVars
<1>4. CASE Receive(k)
  <2>1. /\ channel' \in Seq(Key) /\ Len(channel') <= ChannelCapacity
        /\ \A i \in DOMAIN channel :
             channel[i] = k \/ \E j \in DOMAIN channel' : channel'[j] = channel[i]
    <3>1. channel # <<>> /\ k = channel[1] /\ channel' = Tail(channel)
      BY <1>4 DEF Receive
    <3>2. ASSUME NEW i \in DOMAIN channel, i # 1
          PROVE  i - 1 \in DOMAIN channel' /\ channel'[i - 1] = channel[i]
      BY <3>1, <3>2
    <3>3. channel' \in Seq(Key) /\ Len(channel') = Len(channel) - 1
      BY <3>1
    <3>4. Len(channel') <= ChannelCapacity
      BY <3>3, QueueAssumption
    <3>5. \A i \in DOMAIN channel :
            channel[i] = k \/ \E j \in DOMAIN channel' : channel'[j] = channel[i]
      BY <3>1, <3>2
    <3> QED BY <3>3, <3>4, <3>5
  <2>2. CASE heap' = heap \cup {k} /\ UNCHANGED queueVars
    <3>1. UNCHANGED <<queueVars, failures, workerVars, events, historyVars>>
      BY <1>4, <2>2 DEF Receive
    <3> USE <2>1, <2>2, <3>1 DEF queueVars, workerVars, historyVars
    <3>2. TypeOK'
      OBVIOUS
    <3>3. QueueInv' /\ HoldingInv' /\ ChangeInv'
      BY DEF QueueInv, HoldingInv, OneWorkerPerKey, ChangeInv, BeingRead
    <3>4. RetryInv'
      <4>1. ASSUME NEW h \in owed
            PROVE  \/ shuttingDown \/ h \in dirty \/ BeingRead(h) \/ h \in heap'
                   \/ \E i \in DOMAIN channel' : channel'[i] = h
                   \/ \E w \in Worker : pc[w] = "addAfter" /\ item[w] = h
        <5>1. CASE \E i \in DOMAIN channel : channel[i] = h
          <6>1. PICK i \in DOMAIN channel : channel[i] = h
            BY <5>1
          <6> QED BY <6>1
        <5> QED BY <5>1 DEF RetryInv
      <4>2. UNCHANGED <<owed, shuttingDown, dirty, pc, item>>
        BY <3>1
      <4> HIDE <2>1, <2>2, <3>1 DEF IInv, TypeOK
      <4> QED BY <4>1, <4>2 DEF RetryInv, BeingRead
    <3> QED BY <3>2, <3>3, <3>4
  <2>3. CASE Add(k) /\ UNCHANGED heap
    BY <1>4, <2>1, <2>3, AddStep DEF Receive
  <2> QED BY <1>4, <2>2, <2>3 DEF Receive
<1>5. CASE Fire(k)
  BY <1>5, AddStep DEF Fire
<1> QED BY <1>1, <1>2, <1>3, <1>4, <1>5

LEMMA ShutDownStep == IInv /\ ShutDown => IInv'
BY DEF ShutDown, IInv, TypeOK, QueueInv, HoldingInv, OneWorkerPerKey, ChangeInv, RetryInv, BeingRead,
   delayVars, workerVars, historyVars

-----------------------------------------------------------------------------
(* The workers' steps.                                                       *)

LEMMA GetStep ==
  ASSUME IInv, NEW w \in Worker, Get(w)
  PROVE  IInv'
<1> USE DEF IInv, TypeOK
<1>0. PICK k \in Key : k = Head(queue)
  BY DEF Get
<1>1. /\ pc[w] = "take" /\ queue # <<>> /\ queue' = Tail(queue)
      /\ item' = [item EXCEPT ![w] = k] /\ pc' = [pc EXCEPT ![w] = "read"]
      /\ processing' = processing \cup {k} /\ dirty' = dirty \ {k}
      /\ UNCHANGED <<shuttingDown, delayVars, events, historyVars>>
  BY <1>0 DEF Get, Goto
<1>2. k = queue[1] /\ k \in Key /\ k \in dirty /\ k \notin processing
  BY <1>0, <1>1 DEF QueueInv
<1>3. /\ queue' \in Seq(Key)
      /\ \A i \in DOMAIN queue' : i + 1 \in DOMAIN queue /\ queue'[i] = queue[i + 1]
      /\ \A i \in DOMAIN queue : i # 1 => i - 1 \in DOMAIN queue' /\ queue'[i - 1] = queue[i]
  BY <1>1
<1>4. TypeOK'
  BY <1>1, <1>2, <1>3, QueueAssumption DEF Place, Holding, delayVars, historyVars
<1>5. QueueInv'
  <2>1. \A i \in DOMAIN queue' : queue'[i] \in dirty' \ processing'
    <3> SUFFICES ASSUME NEW i \in DOMAIN queue' PROVE queue'[i] \in dirty' \ processing'
      OBVIOUS
    <3>1. i + 1 # 1 /\ 1 \in DOMAIN queue
      BY <1>1, <1>3
    <3> QED BY <1>1, <1>2, <1>3, <3>1 DEF QueueInv
  <2>2. \A i, j \in DOMAIN queue' : queue'[i] = queue'[j] => i = j
    BY <1>3 DEF QueueInv
  <2>3. \A h \in dirty' \ processing' : \E i \in DOMAIN queue' : queue'[i] = h
    <3> SUFFICES ASSUME NEW h \in dirty' \ processing' PROVE \E i \in DOMAIN queue' : queue'[i] = h
      OBVIOUS
    <3>1. PICK i \in DOMAIN queue : queue[i] = h
      BY <1>1 DEF QueueInv
    <3>2. i # 1
      BY <1>1, <1>2, <3>1
    <3> QED BY <1>3, <3>1, <3>2
  <2> QED BY <2>1, <2>2, <2>3 DEF QueueInv
<1>6. HoldingInv'
  BY <1>1, <1>2 DEF HoldingInv, OneWorkerPerKey, Holding
<1>7. ChangeInv'
  BY <1>1, <1>2 DEF ChangeInv, BeingRead, historyVars
<1>8. \A h \in Key : h = k \/ BeingRead(h) => BeingRead(h)'
  BY <1>1 DEF BeingRead
<1>9. \A v \in Worker : pc[v] = "addAfter" => pc'[v] = "addAfter" /\ item'[v] = item[v]
  BY <1>1
<1>10. RetryInv'
  <2> SUFFICES ASSUME NEW h \in owed,
                      ~(shuttingDown \/ h \in dirty' \/ BeingRead(h)' \/ h \in heap),
                      ~\E i \in DOMAIN channel : channel[i] = h
               PROVE  \E v \in Worker : pc'[v] = "addAfter" /\ item'[v] = h
    BY <1>1 DEF RetryInv, delayVars, historyVars
  <2>1. h # k /\ ~BeingRead(h)
    BY <1>8
  <2>2. PICK v \in Worker : pc[v] = "addAfter" /\ item[v] = h
    BY <1>1, <2>1 DEF RetryInv
  <2> QED BY <1>9, <2>2
<1> QED BY <1>4, <1>5, <1>6, <1>7, <1>10

LEMMA QuitStep ==
  ASSUME IInv, NEW w \in Worker, Quit(w)
  PROVE  IInv'
<1>1. /\ pc[w] = "take" /\ pc' = [pc EXCEPT ![w] = "stopped"] /\ shuttingDown
      /\ UNCHANGED <<queueVars, delayVars, item, events, historyVars>>
  BY DEF Quit, Goto
<1> USE DEF IInv, queueVars, delayVars, historyVars
<1>2. TypeOK'
  BY <1>1 DEF TypeOK, Place, Holding
<1>3. QueueInv' /\ ChangeInv' /\ RetryInv'
  BY <1>1 DEF QueueInv, ChangeInv, RetryInv
<1>4. HoldingInv'
  BY <1>1 DEF TypeOK, HoldingInv, OneWorkerPerKey, Holding
<1> QED BY <1>2, <1>3, <1>4

\* A worker that goes on with its key, past the read of the object, disturbs
\* neither the queue nor what the others do.
LEMMA GoesOn ==
  ASSUME IInv, NEW w \in Worker, NEW place \in Holding, pc[w] \in Holding \ {"read"},
         Goto(w, place), UNCHANGED <<queueVars, item, events, unseen>>
  PROVE  /\ pc' \in [Worker -> Place] /\ QueueInv' /\ HoldingInv' /\ ChangeInv'
         /\ \A v \in Worker : item[v] # NoKey <=> pc'[v] \in Holding
         /\ item[w] \in Key
         /\ \A h \in Key : BeingRead(h) => BeingRead(h)'
<1> USE DEF IInv, TypeOK, queueVars
<1>1. pc' = [pc EXCEPT ![w] = place] /\ pc' \in [Worker -> Place]
  BY DEF Goto, Holding, Place
<1>2. QueueInv'
  BY DEF QueueInv
<1>3. \A v \in Worker : pc'[v] \in Holding <=> pc[v] \in Holding
  BY <1>1
<1>4. HoldingInv'
  BY <1>3 DEF HoldingInv, OneWorkerPerKey
<1>5. \A v \in Worker : pc[v] = "read" => pc'[v] = "read"
  BY <1>1
<1>6. \A h \in Key : BeingRead(h) => BeingRead(h)'
  BY <1>5 DEF BeingRead
<1>7. ChangeInv'
  BY <1>6 DEF ChangeInv
<1> QED BY <1>1, <1>2, <1>3, <1>4, <1>6, <1>7

LEMMA ReadStep ==
  ASSUME IInv, NEW w \in Worker, Read(w)
  PROVE  IInv'
<1> USE DEF IInv, TypeOK
<1>1. /\ pc[w] = "read" /\ pc' = [pc EXCEPT ![w] = "sync"]
      /\ unseen' = unseen \ {item[w]} /\ owed' = owed \ {item[w]}
      /\ UNCHANGED <<queueVars, delayVars, item, events>>
  BY DEF Read, Goto
<1>2. TypeOK'
  BY <1>1 DEF Place, Holding, queueVars, delayVars
<1>3. QueueInv'
  BY <1>1 DEF QueueInv, queueVars
<1>4. \A v \in Worker : pc'[v] \in Holding <=> pc[v] \in Holding
  BY <1>1 DEF Holding
<1>5. HoldingInv'
  BY <1>1, <1>4 DEF HoldingInv, OneWorkerPerKey, queueVars
<1>6. \A h \in Key \ {item[w]} : BeingRead(h) => BeingRead(h)'
  BY <1>1 DEF BeingRead
<1>7. ChangeInv'
  BY <1>1, <1>6 DEF ChangeInv, queueVars
<1>8. \A v \in Worker : pc[v] = "addAfter" => pc'[v] = "addAfter"
  BY <1>1
<1>9. RetryInv'
  <2> SUFFICES ASSUME NEW h \in owed', ~(shuttingDown \/ h \in dirty \/ h \in heap),
                      ~\E i \in DOMAIN channel : channel[i] = h, ~BeingRead(h)'
               PROVE  \E v \in Worker : pc'[v] = "addAfter" /\ item[v] = h
    BY <1>1 DEF RetryInv, queueVars, delayVars
  <2>1. h \in owed /\ ~BeingRead(h)
    BY <1>1, <1>6
  <2>2. PICK v \in Worker : pc[v] = "addAfter" /\ item[v] = h
    BY <2>1 DEF RetryInv
  <2> QED BY <1>8, <2>2
<1> QED BY <1>2, <1>3, <1>5, <1>7, <1>9

\* The four outcomes of a sync: nil, not ready, retried, dropped.
LEMMA OutcomeStep ==
  ASSUME IInv, NEW w \in Worker, Succeed(w) \/ NotReady(w) \/ Retry(w) \/ GiveUp(w)
  PROVE  IInv'
<1> USE DEF IInv, TypeOK
<1>1. /\ pc[w] = "sync" /\ (Goto(w, "done") \/ Goto(w, "addAfter"))
      /\ UNCHANGED <<queueVars, channel, heap, item, events, unseen>>
  BY DEF Succeed, NotReady, Retry, GiveUp, delayVars
<1>2. /\ pc' \in [Worker -> Place] /\ QueueInv' /\ HoldingInv' /\ ChangeInv'
      /\ \A v \in Worker : item[v] # NoKey <=> pc'[v] \in Holding
      /\ item[w] \in Key
      /\ \A h \in Key : BeingRead(h) => BeingRead(h)'
  BY <1>1, GoesOn DEF Holding
<1>3. failures' \in [Key -> 0..MaxRequeues] /\ owed' \subseteq Key
  <2>1. CASE Succeed(w)
    BY <1>2, <2>1, QueueAssumption DEF Succeed
  <2>2. CASE NotReady(w)
    BY <1>2, <2>2 DEF NotReady, delayVars
  <2>3. CASE Retry(w)
    BY <1>2, <2>3, QueueAssumption DEF Retry
  <2>4. CASE GiveUp(w)
    BY <1>2, <2>4, QueueAssumption DEF GiveUp
  <2> QED BY <2>1, <2>2, <2>3, <2>4
<1>4. TypeOK'
  BY <1>1, <1>2, <1>3 DEF queueVars
<1>5. \A h \in owed' : h \in owed \/ (h = item[w] /\ pc'[w] = "addAfter")
  BY DEF Succeed, NotReady, Retry, GiveUp, Goto
<1>6. \A v \in Worker : pc[v] = "addAfter" => pc'[v] = "addAfter"
  BY <1>1 DEF Goto
<1>7. RetryInv'
  <2> SUFFICES ASSUME NEW h \in owed', ~(shuttingDown \/ h \in dirty \/ h \in heap),
                      ~\E i \in DOMAIN channel : channel[i] = h, ~BeingRead(h)'
               PROVE  \E v \in Worker : pc'[v] = "addAfter" /\ item[v] = h
    BY <1>1 DEF RetryInv, queueVars
  <2>1. CASE h \in owed
    <3>1. PICK v \in Worker : pc[v] = "addAfter" /\ item[v] = h
      BY <1>2, <2>1 DEF RetryInv
    <3> QED BY <1>6, <3>1
  <2> QED BY <1>5, <2>1
<1> QED BY <1>2, <1>4, <1>7

LEMMA AddAfterStep ==
  ASSUME IInv, NEW w \in Worker, AddAfter(w)
  PROVE  IInv'
<1> USE DEF IInv, TypeOK
<1>1. /\ pc[w] = "addAfter" /\ Goto(w, "done")
      /\ UNCHANGED <<queueVars, heap, failures, item, events, historyVars>>
  BY DEF AddAfter
<1>2. /\ pc' \in [Worker -> Place] /\ QueueInv' /\ HoldingInv' /\ ChangeInv'
      /\ \A v \in Worker : item[v] # NoKey <=> pc'[v] \in Holding
      /\ item[w] \in Key
      /\ \A h \in Key : BeingRead(h) => BeingRead(h)'
  BY <1>1, GoesOn DEF Holding, historyVars
<1>3. /\ channel' \in Seq(Key) /\ Len(channel') <= ChannelCapacity
      /\ shuttingDown \/ \E i \in DOMAIN channel' : channel'[i] = item[w]
      /\ \A i \in DOMAIN channel : i \in DOMAIN channel' /\ channel'[i] = channel[i]
  <2>1. CASE shuttingDown
    BY <2>1 DEF AddAfter
  <2>2. CASE ~shuttingDown
    <3>1. Len(channel) < ChannelCapacity /\ channel' = Append(channel, item[w])
      BY <2>2 DEF AddAfter
    <3>2. item[w] \in Key /\ Len(channel') = Len(channel) + 1 /\ channel' \in Seq(Key)
      BY <1>2, <3>1
    <3>3. Len(channel) + 1 \in DOMAIN channel' /\ channel'[Len(channel) + 1] = item[w]
      BY <3>1, <3>2
    <3>4. \A i \in DOMAIN channel : i \in DOMAIN channel' /\ channel'[i] = channel[i]
      BY <3>1
    <3> QED BY <3>1, <3>2, <3>3, <3>4, QueueAssumption
  <2> QED BY <2>1, <2>2
<1>4. TypeOK'
  BY <1>1, <1>2, <1>3 DEF queueVars, historyVars
<1>5. \A v \in Worker \ {w} : pc[v] = "addAfter" => pc'[v] = "addAfter"
  BY <1>1 DEF Goto
<1>6. RetryInv'
  <2> SUFFICES ASSUME NEW h \in owed, ~(shuttingDown \/ h \in dirty \/ h \in heap),
                      ~\E i \in DOMAIN channel' : channel'[i] = h, ~BeingRead(h)'
               PROVE  \E v \in Worker : pc'[v] = "addAfter" /\ item[v] = h
    BY <1>1 DEF RetryInv, queueVars, historyVars
  <2>1. ~\E i \in DOMAIN channel : channel[i] = h
    BY <1>3
  <2>2. PICK v \in Worker : pc[v] = "addAfter" /\ item[v] = h
    BY <1>2, <2>1 DEF RetryInv
  <2>3. v # w
    BY <1>3, <2>2
  <2> QED BY <1>5, <2>2, <2>3
<1> QED BY <1>2, <1>4, <1>6

LEMMA DoneStep ==
  ASSUME IInv, NEW w \in Worker, Done(w)
  PROVE  IInv'
<1> USE DEF IInv, TypeOK
<1>0. PICK k \in Key : k = item[w]
  BY DEF Done, Holding
<1>1. /\ pc[w] = "done" /\ pc' = [pc EXCEPT ![w] = "take"] /\ processing' = processing \ {k}
      /\ item' = [item EXCEPT ![w] = NoKey]
      /\ queue' = IF k \in dirty THEN Append(queue, k) ELSE queue
      /\ UNCHANGED <<dirty, shuttingDown, delayVars, events, historyVars>>
  BY <1>0 DEF Done, Goto
<1>2. k \in processing
  BY <1>0, <1>1 DEF HoldingInv, Holding
<1>3. queue' \in Seq(Key) /\ QueueInv'
  <2>1. CASE k \notin dirty
    BY <1>1, <2>1 DEF QueueInv
  <2>2. CASE k \in dirty
    <3>1. queue' = Append(queue, k)
      BY <1>1, <2>2
    <3>2. /\ queue' \in Seq(Key) /\ DOMAIN queue' = DOMAIN queue \cup {Len(queue) + 1}
          /\ \A i \in DOMAIN queue : queue'[i] = queue[i] /\ i # Len(queue) + 1
          /\ queue'[Len(queue) + 1] = k
      BY <3>1
    <3>3. QueueInv'
      BY <1>1, <1>2, <2>2, <3>2 DEF QueueInv
    <3> QED BY <3>2, <3>3
  <2> QED BY <2>1, <2>2
<1>4. TypeOK'
  BY <1>1, <1>3 DEF Place, Holding, delayVars, historyVars
<1>5. HoldingInv'
  BY <1>0, <1>1 DEF HoldingInv, OneWorkerPerKey, Holding
<1>6. \A h \in Key : BeingRead(h) => BeingRead(h)'
  BY <1>1 DEF BeingRead
<1>7. ChangeInv'
  BY <1>1, <1>6 DEF ChangeInv, historyVars
<1>8. \A v \in Worker : pc[v] = "addAfter" => pc'[v] = "addAfter" /\ item'[v] = item[v]
  BY <1>1
<1>9. RetryInv'
  <2> SUFFICES ASSUME NEW h \in owed, ~(shuttingDown \/ h \in dirty \/ h \in heap),
                      ~\E i \in DOMAIN channel : channel[i] = h, ~BeingRead(h)'
               PROVE  \E v \in Worker : pc'[v] = "addAfter" /\ item'[v] = h
    BY <1>1 DEF RetryInv, delayVars, historyVars
  <2>1. PICK v \in Worker : pc[v] = "addAfter" /\ item[v] = h
    BY <1>6 DEF RetryInv
  <2> QED BY <1>8, <2>1
<1> QED BY <1>3, <1>4, <1>5, <1>7, <1>9

-----------------------------------------------------------------------------
(* The theorems.                                                             *)

LEMMA Inductive == IInv /\ [Next]_vars => IInv'
<1> SUFFICES ASSUME IInv, [Next]_vars PROVE IInv'
  OBVIOUS
<1>1. CASE \E k \in Key : Change(k) \/ Notify(k) \/ Push(k) \/ Receive(k) \/ Fire(k)
  BY <1>1, KeyStep
<1>2. CASE \E w \in Worker : Step(w)
  BY <1>2, GetStep, QuitStep, ReadStep, OutcomeStep, AddAfterStep, DoneStep DEF Step
<1>3. CASE ShutDown
  BY <1>3, ShutDownStep
<1>4. CASE UNCHANGED vars
  BY <1>4 DEF vars, queueVars, delayVars, workerVars, historyVars, IInv, TypeOK, QueueInv,
     HoldingInv, OneWorkerPerKey, ChangeInv, RetryInv, BeingRead
<1> QED BY <1>1, <1>2, <1>3, <1>4 DEF Next

LEMMA Invariant == Spec => []IInv
BY Initially, Inductive, PTL DEF Spec

\* Whatever the workers, the handlers, the pusher and the retries do, the state
\* keeps its types, and handleErr requeues a key at most MaxRequeues times.
THEOREM TypeCorrect == Spec => []TypeOK
<1>1. IInv => TypeOK
  BY DEF IInv
<1> QED BY <1>1, Invariant, PTL

\* "Two pods with the same key are never processed in parallel", with any number
\* of workers.
THEOREM NeverInParallel == Spec => []OneWorkerPerKey
<1>1. IInv => OneWorkerPerKey
  BY DEF IInv, HoldingInv
<1> QED BY <1>1, Invariant, PTL

\* A dirty key is on the queue, or held by a worker whose Done queues it.
LEMMA DirtyIsTaken ==
  ASSUME IInv, NEW k \in dirty
  PROVE  WillBeTaken(k)
BY DEF IInv, TypeOK, QueueInv, HoldingInv, WillBeTaken

\* No change of a watched object is lost between its event and a sync's read.
THEOREM ChangesKept == Spec => []NoChangeForgotten
<1>1. IInv => NoChangeForgotten
  BY DirtyIsTaken DEF IInv, ChangeInv, NoChangeForgotten
<1> QED BY <1>1, Invariant, PTL

\* No promised retry is lost on its way through the delaying queue.
THEOREM RetriesKept == Spec => []NoRetryForgotten
<1>1. IInv => NoRetryForgotten
  BY DirtyIsTaken DEF IInv, RetryInv, NoRetryForgotten
<1> QED BY <1>1, Invariant, PTL

-----------------------------------------------------------------------------
(* The queue implements PendingKeys.                                         *)

AbstractStep == [Abstract!QueueNext]_<<Pending, item, shuttingDown>>

Waits(k) == \E w \in Worker : pc[w] = "addAfter" /\ item[w] = k

LEMMA PendingIs ==
  ASSUME NEW k
  PROVE  k \in Pending <=> \/ k \in dirty \/ k \in events \/ k \in heap
                           \/ \E i \in DOMAIN channel : channel[i] = k
                           \/ Waits(k)
BY DEF Pending, Waits

LEMMA PendingWillBe ==
  ASSUME NEW k
  PROVE  k \in Pending' <=> \/ k \in dirty' \/ k \in events' \/ k \in heap'
                            \/ \E i \in DOMAIN channel' : channel'[i] = k
                            \/ \E w \in Worker : pc'[w] = "addAfter" /\ item'[w] = k
BY DEF Pending

\* A key goes from one place to another, or from none to one, or is forgotten by
\* a queue that is shutting down.
LEMMA Moves ==
  ASSUME UNCHANGED <<item, shuttingDown>>, NEW k \in Key,
         \A h : h \in Pending' => h \in Pending \/ h = k,
         \A h : h \in Pending => h \in Pending' \/ (h = k /\ shuttingDown)
  PROVE  AbstractStep
<1>1. CASE shuttingDown /\ k \notin Pending'
  <2>1. Pending' \in SUBSET Pending
    BY <1>1
  <2>2. Abstract!Forget
    BY <1>1, <2>1 DEF Abstract!Forget
  <2> QED BY <2>2 DEF AbstractStep, Abstract!QueueNext
<1>2. CASE k \in Pending'
  <2>1. Pending' = Pending \cup {k}
    BY <1>2
  <2>2. Abstract!Due(k)
    BY <2>1 DEF Abstract!Due
  <2> QED BY <2>2 DEF AbstractStep, Abstract!QueueNext
<1>3. CASE ~shuttingDown /\ k \notin Pending'
  <2>1. Pending' = Pending
    BY <1>3
  <2> QED BY <2>1 DEF AbstractStep
<1> QED BY <1>1, <1>2, <1>3

LEMMA AddMoves ==
  ASSUME IInv, NEW k \in Key, Add(k), UNCHANGED <<pc, item>>,
         events' \subseteq events, \A h \in events \ {k} : h \in events',
         heap' \subseteq heap, \A h \in heap \ {k} : h \in heap',
         \A i \in DOMAIN channel' : \E j \in DOMAIN channel : channel[j] = channel'[i],
         \A i \in DOMAIN channel : channel[i] = k \/ \E j \in DOMAIN channel' : channel'[j] = channel[i]
  PROVE  AbstractStep
<1>1. shuttingDown' = shuttingDown /\ dirty \subseteq dirty' /\ dirty' \subseteq dirty \cup {k}
      /\ (shuttingDown \/ k \in dirty')
  BY AddKeepsQueue DEF Add
<1>2. ASSUME NEW h, h \in Pending' PROVE h \in Pending \/ h = k
  BY <1>1, <1>2, PendingIs, PendingWillBe DEF Waits
<1>3. ASSUME NEW h, h \in Pending PROVE h \in Pending' \/ (h = k /\ shuttingDown)
  BY <1>1, <1>3, PendingIs, PendingWillBe DEF Waits
<1> QED BY <1>1, <1>2, <1>3, Moves

LEMMA KeyMoves ==
  ASSUME IInv, NEW k \in Key, Change(k) \/ Notify(k) \/ Push(k) \/ Receive(k) \/ Fire(k)
  PROVE  AbstractStep
<1> USE DEF delayVars, workerVars
<1>1. CASE Change(k)
  <2>1. UNCHANGED <<dirty, heap, channel, pc, item, shuttingDown>> /\ events' = events \cup ({k} \cap Watched)
    BY <1>1 DEF Change, queueVars
  <2>2. ASSUME NEW h, h \in Pending' PROVE h \in Pending \/ h = k
    BY <2>1, <2>2, PendingIs, PendingWillBe DEF Waits
  <2>3. ASSUME NEW h, h \in Pending PROVE h \in Pending'
    BY <2>1, <2>3, PendingIs, PendingWillBe DEF Waits
  <2> QED BY <2>1, <2>2, <2>3, Moves
<1>2. CASE Notify(k)
  BY <1>2, AddMoves DEF Notify
<1>3. CASE Push(k)
  BY <1>3, AddMoves DEF Push
<1>4. CASE Receive(k)
  <2>0. channel # <<>> /\ k = channel[1] /\ channel' = Tail(channel) /\ channel \in Seq(Key)
    BY <1>4 DEF Receive, IInv, TypeOK
  <2>1. ASSUME NEW i \in DOMAIN channel'
        PROVE  i + 1 \in DOMAIN channel /\ channel[i + 1] = channel'[i]
    BY <2>0, <2>1
  <2>2. ASSUME NEW i \in DOMAIN channel, channel[i] # k
        PROVE  i - 1 \in DOMAIN channel' /\ channel'[i - 1] = channel[i]
    BY <2>0, <2>2
  <2>3. /\ \A i \in DOMAIN channel' : \E j \in DOMAIN channel : channel[j] = channel'[i]
        /\ \A i \in DOMAIN channel : channel[i] = k \/ \E j \in DOMAIN channel' : channel'[j] = channel[i]
    BY <2>1, <2>2
  <2>4. CASE heap' = heap \cup {k} /\ UNCHANGED queueVars
    <3>1. UNCHANGED <<dirty, events, pc, item, shuttingDown>>
      BY <1>4, <2>4 DEF Receive, queueVars
    <3>2. ASSUME NEW h, h \in Pending' PROVE h \in Pending \/ h = k
      BY <2>3, <2>4, <3>1, <3>2, PendingIs, PendingWillBe DEF Waits
    <3>3. ASSUME NEW h, h \in Pending PROVE h \in Pending'
      BY <2>3, <2>4, <3>1, <3>3, PendingIs, PendingWillBe DEF Waits
    <3> QED BY <3>1, <3>2, <3>3, Moves
  <2>5. CASE Add(k) /\ UNCHANGED heap
    BY <1>4, <2>3, <2>5, AddMoves DEF Receive
  <2> QED BY <1>4, <2>4, <2>5 DEF Receive
<1>5. CASE Fire(k)
  BY <1>5, AddMoves DEF Fire
<1> QED BY <1>1, <1>2, <1>3, <1>4, <1>5

\* A worker takes the head of the queue, which no worker has; the key stays
\* pending if a retry of it waits.
LEMMA GetBegins ==
  ASSUME IInv, NEW w \in Worker, Get(w)
  PROVE  AbstractStep
<1>1. PICK k \in Key : k = Head(queue)
  BY DEF Get, IInv, TypeOK
<1>2. /\ pc[w] = "take" /\ item' = [item EXCEPT ![w] = k] /\ pc' = [pc EXCEPT ![w] = "read"]
      /\ dirty' = dirty \ {k} /\ UNCHANGED <<shuttingDown, channel, heap, events>>
  BY <1>1 DEF Get, Goto, delayVars
<1>3. k \in dirty /\ k \notin processing
  BY <1>1 DEF Get, IInv, TypeOK, QueueInv
<1>4. item[w] = NoKey /\ \A v \in Worker : item[v] # k
  BY <1>2, <1>3, QueueAssumption DEF IInv, TypeOK, HoldingInv, Holding
<1>5. \A h : Waits(h) <=> \E v \in Worker : pc'[v] = "addAfter" /\ item'[v] = h
  <2>1. \A v \in Worker : /\ pc'[v] = "addAfter" <=> pc[v] = "addAfter"
                          /\ pc[v] = "addAfter" => item'[v] = item[v]
    BY <1>2 DEF IInv, TypeOK
  <2> QED BY <2>1 DEF Waits
<1>6. ASSUME NEW h PROVE h \in Pending' => h \in Pending
  BY <1>2, <1>5, PendingIs, PendingWillBe
<1>7. ASSUME NEW h PROVE h \in Pending => h \in Pending' \/ h = k
  BY <1>2, <1>5, PendingIs, PendingWillBe
<1>8. Pending' \in {Pending \ {k}, Pending}
  <2>1. CASE k \in Pending'
    BY <1>6, <1>7, <2>1
  <2>2. CASE k \notin Pending'
    BY <1>6, <1>7, <2>2
  <2> QED BY <2>1, <2>2
<1>9. k \in Pending
  BY <1>3, PendingIs
<1>10. Abstract!Begin(w, k)
  BY <1>2, <1>4, <1>8, <1>9 DEF Abstract!Begin
<1> QED BY <1>10 DEF AbstractStep, Abstract!QueueNext

LEMMA WorkerMoves ==
  ASSUME IInv, NEW w \in Worker, Step(w)
  PROVE  AbstractStep
<1> USE DEF IInv, TypeOK
<1>1. CASE Get(w)
  BY <1>1, GetBegins
<1>2. CASE Quit(w) \/ Read(w) \/ Succeed(w) \/ GiveUp(w)
  <2>1. UNCHANGED <<dirty, events, heap, channel, item, shuttingDown>>
    BY <1>2 DEF Quit, Read, Succeed, GiveUp, queueVars, delayVars
  <2>2. \A v \in Worker : pc'[v] = "addAfter" <=> pc[v] = "addAfter"
    BY <1>2 DEF Quit, Read, Succeed, GiveUp, Goto
  <2>3. ASSUME NEW h PROVE h \in Pending' <=> h \in Pending
    BY <2>1, <2>2, PendingIs, PendingWillBe DEF Waits
  <2>4. Pending' = Pending
    BY <2>3
  <2> QED BY <2>1, <2>4 DEF AbstractStep
<1>3. CASE NotReady(w) \/ Retry(w)
  <2>1. /\ pc[w] = "sync" /\ pc' = [pc EXCEPT ![w] = "addAfter"]
        /\ UNCHANGED <<dirty, events, heap, channel, item, shuttingDown>>
    BY <1>3 DEF NotReady, Retry, Goto, queueVars, delayVars
  <2>2. PICK k \in Key : k = item[w]
    BY <2>1 DEF Holding
  <2>3. ASSUME NEW h, h \in Pending' PROVE h \in Pending \/ h = k
    BY <2>1, <2>2, <2>3, PendingIs, PendingWillBe DEF Waits
  <2>4. ASSUME NEW h, h \in Pending PROVE h \in Pending'
    BY <2>1, <2>4, PendingIs, PendingWillBe DEF Waits
  <2> QED BY <2>1, <2>3, <2>4, Moves
<1>4. CASE AddAfter(w)
  <2>1. /\ pc[w] = "addAfter" /\ pc' = [pc EXCEPT ![w] = "done"]
        /\ UNCHANGED <<dirty, events, heap, item, shuttingDown>>
    BY <1>4 DEF AddAfter, Goto, queueVars, historyVars
  <2>2. PICK k \in Key : k = item[w]
    BY <2>1 DEF Holding
  <2>3. \A h : Waits(h) <=> h = k \/ \E v \in Worker : pc'[v] = "addAfter" /\ item'[v] = h
    BY <2>1, <2>2 DEF Waits
  <2>4. CASE shuttingDown
    <3>1. channel' = channel
      BY <1>4, <2>4 DEF AddAfter
    <3>2. ASSUME NEW h, h \in Pending' PROVE h \in Pending
      BY <2>1, <2>3, <3>1, <3>2, PendingIs, PendingWillBe
    <3>3. ASSUME NEW h, h \in Pending PROVE h \in Pending' \/ h = k
      BY <2>1, <2>3, <3>1, <3>3, PendingIs, PendingWillBe
    <3> QED BY <2>1, <2>4, <3>2, <3>3, Moves
  <2>5. CASE ~shuttingDown
    <3>1. channel' = Append(channel, k)
      BY <1>4, <2>2, <2>5 DEF AddAfter
    <3>2. \A h : (\E i \in DOMAIN channel' : channel'[i] = h)
                   <=> h = k \/ \E i \in DOMAIN channel : channel[i] = h
      <4>1. DOMAIN channel' = DOMAIN channel \cup {Len(channel) + 1}
            /\ channel'[Len(channel) + 1] = k
            /\ \A i \in DOMAIN channel : channel'[i] = channel[i]
        BY <3>1
      <4> QED BY <4>1
    <3>3. ASSUME NEW h PROVE h \in Pending' <=> h \in Pending
      BY <2>1, <2>3, <3>2, PendingIs, PendingWillBe
    <3>4. Pending' = Pending
      BY <3>3
    <3> QED BY <2>1, <3>4 DEF AbstractStep
  <2> QED BY <2>4, <2>5
<1>5. CASE Done(w)
  <2>1. /\ pc[w] = "done" /\ pc' = [pc EXCEPT ![w] = "take"] /\ item' = [item EXCEPT ![w] = NoKey]
        /\ UNCHANGED <<dirty, events, heap, channel, shuttingDown>>
    BY <1>5 DEF Done, Goto, delayVars
  <2>2. \A v \in Worker : /\ pc'[v] = "addAfter" <=> pc[v] = "addAfter"
                          /\ pc[v] = "addAfter" => item'[v] = item[v]
    BY <2>1
  <2>3. ASSUME NEW h PROVE h \in Pending' <=> h \in Pending
    BY <2>1, <2>2, PendingIs, PendingWillBe DEF Waits
  <2>4. Pending' = Pending
    BY <2>3
  <2>5. Abstract!End(w)
    BY <2>1, <2>4 DEF Abstract!End
  <2> QED BY <2>5 DEF AbstractStep, Abstract!QueueNext
<1> QED BY <1>1, <1>2, <1>3, <1>4, <1>5 DEF Step

LEMMA StartsEmpty == Init => Abstract!QueueInit
<1> SUFFICES ASSUME Init PROVE Abstract!QueueInit
  OBVIOUS
<1>1. DOMAIN channel = {} /\ \A w \in Worker : pc[w] # "addAfter"
  BY DEF Init
<1>2. Pending = {}
  BY <1>1, PendingIs DEF Init, Waits
<1> QED BY <1>2 DEF Init, Abstract!QueueInit

\* The queue with its dirty and processing sets, the delaying queue with its
\* channel and heap, and handleErr implement a set of pending keys that workers
\* take, one worker a key: what the models of the controllers' syncs suppose.
THEOREM QueueImplementsPendingKeys == Spec => ImplementsPendingKeys
<1>1. IInv /\ [Next]_vars => AbstractStep
  <2> SUFFICES ASSUME IInv, [Next]_vars PROVE AbstractStep
    OBVIOUS
  <2>1. CASE \E k \in Key : Change(k) \/ Notify(k) \/ Push(k) \/ Receive(k) \/ Fire(k)
    BY <2>1, KeyMoves
  <2>2. CASE \E w \in Worker : Step(w)
    BY <2>2, WorkerMoves
  <2>3. CASE ShutDown
    <3>1. UNCHANGED <<dirty, events, heap, channel, pc, item>> /\ shuttingDown' = TRUE
      BY <2>3 DEF ShutDown, delayVars, workerVars
    <3>2. Pending' = Pending
      BY <3>1 DEF Pending
    <3>3. Abstract!Stop
      BY <3>1, <3>2 DEF Abstract!Stop
    <3> QED BY <3>3 DEF AbstractStep, Abstract!QueueNext
  <2>4. CASE UNCHANGED vars
    <3>1. UNCHANGED <<dirty, events, heap, channel, pc, item, shuttingDown>>
      BY <2>4 DEF vars, queueVars, delayVars, workerVars
    <3>2. Pending' = Pending
      BY <3>1 DEF Pending
    <3> QED BY <3>1, <3>2 DEF AbstractStep
  <2> QED BY <2>1, <2>2, <2>3, <2>4 DEF Next
<1>2. AbstractStep <=> [Abstract!QueueNext]_<<Pending, item, shuttingDown>>
  BY DEF AbstractStep
<1> QED BY <1>1, <1>2, StartsEmpty, Invariant, PTL
     DEF Spec, ImplementsPendingKeys, Abstract!QueueSpec
=============================================================================
