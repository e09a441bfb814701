----------------------- MODULE ThreadSafeQueueProofs -----------------------
(***************************************************************************)
(* Proofs about ThreadSafeQueue, for any finite sets of threads, any       *)
(* capacity (zero included) and any number of calls.                       *)
(***************************************************************************)
EXTENDS ThreadSafeQueue, FiniteSetTheorems, SequenceTheorems, TLAPS

(***************************************************************************)
(* The steps, with PushCall, PushResume and TryPush taken apart: what a    *)
(* producer does under the mutex is to enqueue, to discard or to wait.     *)
(***************************************************************************)
CanPush(p) == state[p] = "notified" \/ (state[p] = "idle" /\ sent[p] < MaxCalls)

\* Every step is one of these: storing an item, discarding one, waiting, taking
\* an item, returning without one, leaving a wait set by itself, shutting down.
LEMMA StepCases ==
  ASSUME Next
  PROVE  \/ \E p \in Producers : CanPush(p) /\ Enqueue(p)
         \/ \E p \in Producers :
              CanPush(p) /\ (state[p] = "idle" \/ shutdown) /\ Discard(p)
         \/ \E p \in Producers :
              CanPush(p) /\ Full /\ ~shutdown /\ Wait(p) /\ UNCHANGED timed
         \/ \E c \in Consumers : ConsumerStep(c)
         \/ \E t \in Threads : SpuriousWakeup(t)
         \/ Shutdown
  BY DEF Next, ProducerStep, PushCall, PushResume, TryPush, PushBody, CanPush

(***************************************************************************)
(* Typing.                                                                 *)
(***************************************************************************)
\* A new queue has the right types.
LEMMA TypeInit == Init => TypeOK
<1> SUFFICES ASSUME Init PROVE TypeOK
  OBVIOUS
<1>1. <<>> \in Seq(Items)
  BY EmptySeq
<1>2. 0 \in 0 .. MaxCalls
  BY QueueAssumption
<1> QED
  BY <1>1, <1>2 DEF Init, TypeOK, Threads, States

\* What a notify_one does to the threads: t is idle, at most one member of W
\* is notified, exactly one unless W is empty, and no other thread moves.
LEMMA NotifyEffect ==
  ASSUME TypeOK, NEW t \in Threads, NEW W \in SUBSET Threads, t \notin W,
         NotifyOneAndReturn(t, W)
  PROVE  /\ state' \in [Threads -> States]
         /\ state'[t] = "idle"
         /\ \/ W = {} /\ \A u \in Threads \ {t} : state'[u] = state[u]
            \/ \E w \in W : /\ state'[w] = "notified"
                            /\ \A u \in Threads \ {t, w} : state'[u] = state[u]
<1> USE DEF TypeOK, States
<1>1. CASE W = {} /\ state' = [state EXCEPT ![t] = "idle"]
  BY <1>1
<1>2. ASSUME NEW w \in W, state' = [state EXCEPT ![t] = "idle", ![w] = "notified"]
      PROVE  /\ state' \in [Threads -> States]
             /\ state'[t] = "idle"
             /\ state'[w] = "notified"
             /\ \A u \in Threads \ {t, w} : state'[u] = state[u]
  BY <1>2
<1> QED
  BY <1>1, <1>2 DEF NotifyOneAndReturn

\* Storing an item keeps the types and the capacity.
LEMMA EnqueueType ==
  ASSUME TypeOK, NEW p \in Producers, CanPush(p), Enqueue(p)
  PROVE  TypeOK'
<1> USE QueueAssumption
<1>1. sent[p] \in 0 .. MaxCalls /\ sent[p] < MaxCalls
  BY DEF CanPush, TypeOK
<1>2. Arg(p) \in Items
  BY <1>1 DEF Arg, Items
<1>3. queue' \in Seq(Items) /\ pushed' \in Seq(Items)
  BY <1>2 DEF Enqueue, TypeOK
<1>4. sent' \in [Producers -> 0 .. MaxCalls] /\ \A q \in Producers \ {p} : sent'[q] = sent[q]
  BY <1>1 DEF Enqueue, TypeOK
<1>5. state[p] # "waiting"
  BY DEF CanPush
<1>6. /\ state' \in [Threads -> States]
      /\ state'[p] = "idle"
      /\ \A q \in Producers \ {p} : state'[q] = state[q]
  <2>1. /\ p \in Threads /\ p \notin NotEmptyWaiters
        /\ NotEmptyWaiters \in SUBSET Threads
        /\ NotEmptyWaiters \cap Producers = {}
        /\ Producers \subseteq Threads
    BY <1>5 DEF NotEmptyWaiters, Threads
  <2>2. NotifyOneAndReturn(p, NotEmptyWaiters)
    BY DEF Enqueue
  <2> QED
    BY <2>1, <2>2, NotifyEffect
<1> QED
  BY <1>3, <1>4, <1>6 DEF TypeOK, Enqueue

\* So does taking one.
LEMMA DequeueType ==
  ASSUME TypeOK, NEW c \in Consumers, state[c] # "waiting",
         Dequeue(c), timed' \in [Consumers -> BOOLEAN]
  PROVE  TypeOK'
<1> USE QueueAssumption
<1>1. queue' \in Seq(Items) /\ popped' \in Seq(Items)
  BY HeadTailProperties DEF Dequeue, TypeOK
<1>2. /\ state' \in [Threads -> States]
      /\ state'[c] = "idle"
      /\ \A q \in Producers : state'[q] = state[q] \/ (state[q] = "waiting" /\ state'[q] = "notified")
  <2>1. /\ c \in Threads /\ c \notin NotFullWaiters
        /\ NotFullWaiters \in SUBSET Threads
        /\ \A q \in NotFullWaiters : state[q] = "waiting"
        /\ Producers \subseteq Threads \ {c}
    BY DEF NotFullWaiters, Threads
  <2>2. NotifyOneAndReturn(c, NotFullWaiters)
    BY DEF Dequeue
  <2> QED
    BY <2>1, <2>2, NotifyEffect
<1> QED
  BY <1>1, <1>2 DEF TypeOK, Dequeue

\* So does every step.
LEMMA TypeStep == TypeOK /\ [Next]_vars => TypeOK'
<1> SUFFICES ASSUME TypeOK, [Next]_vars PROVE TypeOK'
  OBVIOUS
<1> USE QueueAssumption
<1>1. CASE \E p \in Producers : CanPush(p) /\ Enqueue(p)
  BY <1>1, EnqueueType
<1>2. CASE \E p \in Producers :
              CanPush(p) /\ (state[p] = "idle" \/ shutdown) /\ Discard(p)
  BY <1>2 DEF TypeOK, Discard, CanPush, Threads, States
<1>3. CASE \E p \in Producers :
              CanPush(p) /\ Full /\ ~shutdown /\ Wait(p) /\ UNCHANGED timed
  BY <1>3 DEF TypeOK, Wait, CanPush, Threads, States
<1>4. ASSUME NEW c \in Consumers, ConsumerStep(c) PROVE TypeOK'
  <2>1. timed' \in [Consumers -> BOOLEAN]
    BY <1>4 DEF ConsumerStep, PopCall, PopResume, PopExpired, Timeout, TypeOK
  <2>2. CASE state[c] # "waiting" /\ Dequeue(c)
    BY <2>1, <2>2, DequeueType
  <2>3. CASE ReturnNothing(c)
    BY <2>1, <2>3 DEF TypeOK, ReturnNothing, Threads, States
  <2>4. CASE Wait(c)
    BY <2>1, <2>4 DEF TypeOK, Wait, Threads, States
  <2>5. CASE Timeout(c)
    BY <2>1, <2>5 DEF TypeOK, Timeout, Threads, States
  <2> QED
    BY <1>4, <2>2, <2>3, <2>4, <2>5 DEF ConsumerStep, PopCall, PopResume, PopExpired
<1>5. CASE \E t \in Threads : SpuriousWakeup(t)
  BY <1>5 DEF TypeOK, SpuriousWakeup, Threads, States
<1>6. CASE Shutdown
  BY <1>6 DEF TypeOK, Shutdown, Threads, States
<1>7. CASE UNCHANGED vars
  BY <1>7 DEF TypeOK, vars
<1> QED
  BY <1>1, <1>2, <1>3, <1>4, <1>5, <1>6, <1>7, StepCases

\* The variables have their types in every state of the queue.
THEOREM TypeCorrect == Spec => []TypeOK
<1> QED
  BY TypeInit, TypeStep, PTL DEF Spec
(***************************************************************************)
(* The history and the contents of the queue.                              *)
(***************************************************************************)
\* Every step keeps the history, the contents and the capacity in agreement.
LEMMA ConservationStep ==
  TypeOK /\ Conservation /\ [Next]_vars => Conservation'
<1> SUFFICES ASSUME TypeOK, Conservation, [Next]_vars PROVE Conservation'
  OBVIOUS
<1> USE QueueAssumption DEF Conservation
<1>1. ASSUME NEW p \in Producers, CanPush(p), Enqueue(p) PROVE Conservation'
  <2>1. Arg(p) \in Items
    BY <1>1 DEF CanPush, TypeOK, Arg, Items
  <2>2. pushed' = popped' \o queue'
    <3>1. queue \in Seq(Items) /\ popped \in Seq(Items)
      BY DEF TypeOK
    <3>2. ASSUME NEW x \in Items
          PROVE  Append(popped \o queue, x) = popped \o Append(queue, x)
      BY ONLY <3>1, <3>2
    <3> QED
      BY <1>1, <2>1, <3>2 DEF Enqueue
  <2>3. Len(queue') <= MaxSize
    BY <1>1, <2>1, LenProperties DEF Enqueue, Full, TypeOK
  <2> QED
    BY <2>2, <2>3
<1>2. ASSUME NEW c \in Consumers, Dequeue(c) PROVE Conservation'
  <2>1. pushed' = popped' \o queue'
    <3>1. queue \in Seq(Items) /\ popped \in Seq(Items) /\ queue # <<>>
      BY <1>2 DEF Dequeue, TypeOK
    <3>2. Append(popped, Head(queue)) \o Tail(queue) = popped \o queue
      BY <3>1
    <3> QED
      BY <1>2, <3>2 DEF Dequeue
  <2>2. Len(queue') <= MaxSize
    BY <1>2, HeadTailProperties DEF Dequeue, TypeOK
  <2> QED
    BY <2>1, <2>2
<1>3. CASE UNCHANGED <<queue, pushed, popped>>
  BY <1>3
<1> QED
  BY <1>1, <1>2, <1>3, StepCases
     DEF vars, Discard, Wait, ConsumerStep, PopCall, PopResume, PopExpired,
         ReturnNothing, Timeout, SpuriousWakeup, Shutdown

(***************************************************************************)
(* Wakeups.  Each lemma takes one kind of step; the counting is done on    *)
(* the sets of waiting and of woken threads of either kind.                *)
(***************************************************************************)
Wakeups == NoLostWakeup /\ NoWaiterAfterShutdown

\* The woken threads of either kind can be counted.
LEMMA FiniteWoken ==
  /\ IsFiniteSet(WokenProducers) /\ Cardinality(WokenProducers) \in Nat
  /\ IsFiniteSet(WokenConsumers) /\ Cardinality(WokenConsumers) \in Nat
  BY QueueAssumption, FS_Subset, FS_CardinalityType
     DEF WokenProducers, WokenConsumers


\* push and tryPush wake a consumer for the item they store, and a woken
\* producer that stores one gives up one free place only.
LEMMA EnqueueWakeups ==
  ASSUME TypeOK, Wakeups, NEW p \in Producers, CanPush(p), Enqueue(p)
  PROVE  Wakeups'
<1> USE QueueAssumption
<1>1. /\ p \in Threads /\ p \notin NotEmptyWaiters /\ p \notin Consumers
      /\ NotEmptyWaiters \in SUBSET Threads
      /\ Producers \subseteq Threads /\ Consumers \subseteq Threads
      /\ NotEmptyWaiters \cap Producers = {}
      /\ state[p] # "waiting"
  BY DEF CanPush, NotEmptyWaiters, Threads
<1>2. NotifyOneAndReturn(p, NotEmptyWaiters)
  BY DEF Enqueue
<1>3. /\ state' \in [Threads -> States]
      /\ state'[p] = "idle"
      /\ \A q \in Producers \ {p} : state'[q] = state[q]
  BY <1>1, <1>2, NotifyEffect
<1>4. Len(queue') = Len(queue) + 1 /\ Len(queue) \in Nat
  BY LenProperties DEF Enqueue, TypeOK
<1>5. NotFullWaiters' = NotFullWaiters
  BY <1>1, <1>3 DEF NotFullWaiters
<1>6. WokenProducers' = WokenProducers \ {p}
  BY <1>1, <1>3 DEF WokenProducers
<1>7. /\ Cardinality(WokenProducers)' \in Nat
      /\ Cardinality(WokenProducers)' >= Cardinality(WokenProducers) - 1
  <2>1. Cardinality(WokenProducers \ {p}) \in {Cardinality(WokenProducers), Cardinality(WokenProducers) - 1}
    BY FiniteWoken, FS_RemoveElement
  <2>2. Cardinality(WokenProducers \ {p}) \in Nat
    BY FiniteWoken, FS_RemoveElement, FS_CardinalityType
  <2> QED
    BY <1>6, <2>1, <2>2, FiniteWoken
<1>8. NotFullWaiters' # {} => MaxSize - Len(queue') <= Cardinality(WokenProducers')
  BY <1>4, <1>5, <1>7, FiniteWoken DEF Wakeups, NoLostWakeup
<1>9. CASE NotEmptyWaiters = {}
  <2>1. \A c \in Consumers : state'[c] = state[c]
    BY <1>1, <1>2, <1>9, NotifyEffect
  <2>2. NotEmptyWaiters' = {}
    BY <2>1, <1>9 DEF NotEmptyWaiters
  <2> QED
    BY <1>5, <1>8, <2>2 DEF Wakeups, NoLostWakeup, NoWaiterAfterShutdown, Enqueue
<1>10. CASE NotEmptyWaiters # {}
  <2>1. PICK w \in NotEmptyWaiters :
          state'[w] = "notified" /\ \A u \in Threads \ {p, w} : state'[u] = state[u]
    BY <1>1, <1>2, <1>10, NotifyEffect
  <2>2. w \in Consumers /\ state[w] = "waiting" /\ w \notin WokenConsumers
    BY DEF NotEmptyWaiters, WokenConsumers
  <2>3. WokenConsumers' = WokenConsumers \cup {w}
    BY <1>1, <2>1, <2>2 DEF WokenConsumers
  <2>4. Cardinality(WokenConsumers') = Cardinality(WokenConsumers) + 1
    BY <2>2, <2>3, FiniteWoken, FS_AddElement
  <2>5. Len(queue') <= Cardinality(WokenConsumers')
    BY <1>4, <1>10, <2>4, FiniteWoken DEF Wakeups, NoLostWakeup
  <2>6. ~shutdown'
    BY DEF Enqueue
  <2> QED
    BY <1>8, <2>5, <2>6 DEF Wakeups, NoLostWakeup, NoWaiterAfterShutdown
<1> QED
  BY <1>9, <1>10

\* pop and popWithTimeout wake a producer for the place they free, and a woken
\* consumer that takes an item leaves one item less.
LEMMA DequeueWakeups ==
  ASSUME TypeOK, Wakeups, NEW c \in Consumers, state[c] # "waiting", Dequeue(c)
  PROVE  Wakeups'
<1> USE QueueAssumption
<1>1. /\ c \in Threads /\ c \notin NotFullWaiters /\ c \notin Producers
      /\ NotFullWaiters \in SUBSET Threads
      /\ Producers \subseteq Threads /\ Consumers \subseteq Threads
      /\ NotFullWaiters \cap Consumers = {}
  BY DEF NotFullWaiters, Threads
<1>2. NotifyOneAndReturn(c, NotFullWaiters)
  BY DEF Dequeue
<1>3. /\ state' \in [Threads -> States]
      /\ state'[c] = "idle"
      /\ \A d \in Consumers \ {c} : state'[d] = state[d]
  BY <1>1, <1>2, NotifyEffect
<1>4. Len(queue') = Len(queue) - 1 /\ Len(queue) \in Nat
  BY LenProperties, HeadTailProperties DEF Dequeue, TypeOK
<1>5. NotEmptyWaiters' = NotEmptyWaiters
  BY <1>1, <1>3 DEF NotEmptyWaiters
<1>6. WokenConsumers' = WokenConsumers \ {c}
  BY <1>1, <1>3 DEF WokenConsumers
<1>7. /\ Cardinality(WokenConsumers)' \in Nat
      /\ Cardinality(WokenConsumers)' >= Cardinality(WokenConsumers) - 1
  <2>1. Cardinality(WokenConsumers \ {c}) \in {Cardinality(WokenConsumers), Cardinality(WokenConsumers) - 1}
    BY FiniteWoken, FS_RemoveElement
  <2>2. Cardinality(WokenConsumers \ {c}) \in Nat
    BY FiniteWoken, FS_RemoveElement, FS_CardinalityType
  <2> QED
    BY <1>6, <2>1, <2>2, FiniteWoken
<1>8. NotEmptyWaiters' # {} => Len(queue') <= Cardinality(WokenConsumers')
  BY <1>4, <1>5, <1>7, FiniteWoken DEF Wakeups, NoLostWakeup
<1>9. CASE NotFullWaiters = {}
  <2>1. \A p \in Producers : state'[p] = state[p]
    BY <1>1, <1>2, <1>9, NotifyEffect
  <2>2. NotFullWaiters' = {}
    BY <2>1, <1>9 DEF NotFullWaiters
  <2> QED
    BY <1>5, <1>8, <2>2 DEF Wakeups, NoLostWakeup, NoWaiterAfterShutdown, Dequeue
<1>10. CASE NotFullWaiters # {}
  <2>1. PICK w \in NotFullWaiters :
          state'[w] = "notified" /\ \A u \in Threads \ {c, w} : state'[u] = state[u]
    BY <1>1, <1>2, <1>10, NotifyEffect
  <2>2. w \in Producers /\ state[w] = "waiting" /\ w \notin WokenProducers
    BY DEF NotFullWaiters, WokenProducers
  <2>3. WokenProducers' = WokenProducers \cup {w}
    BY <1>1, <2>1, <2>2 DEF WokenProducers
  <2>4. Cardinality(WokenProducers') = Cardinality(WokenProducers) + 1
    BY <2>2, <2>3, FiniteWoken, FS_AddElement
  <2>5. MaxSize - Len(queue') <= Cardinality(WokenProducers')
    BY <1>4, <1>10, <2>4, FiniteWoken DEF Wakeups, NoLostWakeup
  <2>6. ~shutdown'
    BY <1>10 DEF Dequeue, Wakeups, NoWaiterAfterShutdown
  <2> QED
    BY <1>8, <2>5, <2>6 DEF Wakeups, NoLostWakeup, NoWaiterAfterShutdown
<1> QED
  BY <1>9, <1>10

\* A producer starts to wait only when the queue is full: no producer needs to be
\* on its way then.
LEMMA ProducerWaitWakeups ==
  ASSUME TypeOK, Wakeups, NEW p \in Producers, Full, ~shutdown, Wait(p)
  PROVE  Wakeups'
<1> USE QueueAssumption
<1>1. Len(queue) \in Nat /\ MaxSize - Len(queue') <= 0 /\ queue' = queue
  BY LenProperties DEF Full, Wait, TypeOK
<1>2. NotEmptyWaiters' = NotEmptyWaiters /\ WokenConsumers' = WokenConsumers
  BY DEF Wait, NotEmptyWaiters, WokenConsumers, TypeOK, Threads
<1>3. Cardinality(WokenProducers)' \in Nat
  BY FS_Subset, FS_CardinalityType DEF WokenProducers
<1> QED
  BY <1>1, <1>2, <1>3 DEF Wait, Wakeups, NoLostWakeup, NoWaiterAfterShutdown

\* A consumer starts to wait, or returns without an item, only when the queue is
\* empty: no consumer needs to be on its way then.
LEMMA ConsumerWaitWakeups ==
  ASSUME TypeOK, Wakeups, NEW c \in Consumers, queue = <<>>,
         \/ ~shutdown /\ Wait(c)
         \/ ReturnNothing(c)
  PROVE  Wakeups'
<1> USE QueueAssumption
<1>1. Len(queue') = 0 /\ queue' = queue /\ shutdown' = shutdown
  BY DEF Wait, ReturnNothing
<1>2. NotFullWaiters' = NotFullWaiters /\ WokenProducers' = WokenProducers
  BY DEF Wait, ReturnNothing, NotFullWaiters, WokenProducers, TypeOK, Threads
<1>3. Cardinality(WokenConsumers)' \in Nat
  BY FS_Subset, FS_CardinalityType DEF WokenConsumers
<1>4. shutdown => NotEmptyWaiters' = {}
  BY DEF ReturnNothing, NotEmptyWaiters, TypeOK, Threads, Wakeups, NoWaiterAfterShutdown
<1> QED
  BY <1>1, <1>2, <1>3, <1>4 DEF Wakeups, NoLostWakeup, NoWaiterAfterShutdown

\* A thread leaves a wait set and is woken by something else than a push or a
\* pop: its timeout, or nothing at all.
LEMMA LeaveWaitWakeups ==
  ASSUME TypeOK, Wakeups, NEW t \in Threads,
         (t \in Consumers /\ Timeout(t)) \/ SpuriousWakeup(t)
  PROVE  Wakeups'
<1> USE QueueAssumption
<1>1. UNCHANGED <<queue, shutdown>> /\ state[t] = "waiting"
  BY DEF Timeout, SpuriousWakeup
<1>2. NotFullWaiters' \subseteq NotFullWaiters /\ NotEmptyWaiters' \subseteq NotEmptyWaiters
  BY DEF Timeout, SpuriousWakeup, NotFullWaiters, NotEmptyWaiters, TypeOK, Threads
<1>3. WokenProducers \subseteq WokenProducers' /\ WokenConsumers \subseteq WokenConsumers'
  BY DEF Timeout, SpuriousWakeup, WokenProducers, WokenConsumers, TypeOK, Threads
<1>4. /\ IsFiniteSet(WokenProducers') /\ Cardinality(WokenProducers)' \in Nat
      /\ IsFiniteSet(WokenConsumers') /\ Cardinality(WokenConsumers)' \in Nat
  BY FS_Subset, FS_CardinalityType DEF WokenProducers, WokenConsumers
<1>5. /\ Cardinality(WokenProducers) <= Cardinality(WokenProducers)'
      /\ Cardinality(WokenConsumers) <= Cardinality(WokenConsumers)'
  BY <1>3, <1>4, FS_Subset
<1>6. Len(queue) \in Nat
  BY LenProperties DEF TypeOK
<1> QED
  BY <1>1, <1>2, <1>4, <1>5, <1>6, FiniteWoken DEF Wakeups, NoLostWakeup, NoWaiterAfterShutdown

\* No step leaves a thread asleep beside an item or a free place.
LEMMA WakeupsStep == TypeOK /\ Wakeups /\ [Next]_vars => Wakeups'
<1> SUFFICES ASSUME TypeOK, Wakeups, [Next]_vars PROVE Wakeups'
  OBVIOUS
<1>1. CASE \E p \in Producers : CanPush(p) /\ Enqueue(p)
  BY <1>1, EnqueueWakeups
<1>2. ASSUME NEW p \in Producers, CanPush(p), state[p] = "idle" \/ shutdown, Discard(p)
      PROVE  Wakeups'
  <2>1. UNCHANGED <<queue, shutdown>>
    BY <1>2 DEF Discard
  <2>2. /\ NotFullWaiters' = NotFullWaiters /\ NotEmptyWaiters' = NotEmptyWaiters
        /\ WokenConsumers' = WokenConsumers
    BY <1>2, QueueAssumption
       DEF Discard, CanPush, NotFullWaiters, NotEmptyWaiters, WokenConsumers, TypeOK, Threads
  <2>3. state[p] = "idle" => WokenProducers' = WokenProducers
    BY <1>2 DEF Discard, WokenProducers, TypeOK, Threads
  <2>4. CASE state[p] = "idle"
    BY <2>1, <2>2, <2>3, <2>4 DEF Wakeups, NoLostWakeup, NoWaiterAfterShutdown
  <2>5. CASE shutdown
    <3>1. NotFullWaiters' = {} /\ NotEmptyWaiters' = {}
      BY <2>2, <2>5 DEF Wakeups, NoWaiterAfterShutdown
    <3> QED
      BY <3>1 DEF Wakeups, NoLostWakeup, NoWaiterAfterShutdown
  <2> QED
    BY <1>2, <2>4, <2>5
<1>3. CASE \E p \in Producers :
              CanPush(p) /\ Full /\ ~shutdown /\ Wait(p) /\ UNCHANGED timed
  BY <1>3, ProducerWaitWakeups
<1>4. ASSUME NEW c \in Consumers, ConsumerStep(c) PROVE Wakeups'
  <2>1. CASE state[c] # "waiting" /\ Dequeue(c)
    BY <2>1, DequeueWakeups
  <2>2. CASE ReturnNothing(c)
    BY <2>2, ConsumerWaitWakeups DEF ReturnNothing
  <2>3. CASE queue = <<>> /\ ~shutdown /\ Wait(c)
    BY <2>3, ConsumerWaitWakeups
  <2>4. CASE Timeout(c)
    BY <2>4, LeaveWaitWakeups DEF Threads
  <2> QED
    BY <1>4, <2>1, <2>2, <2>3, <2>4 DEF ConsumerStep, PopCall, PopResume, PopExpired
<1>5. CASE \E t \in Threads : SpuriousWakeup(t)
  BY <1>5, LeaveWaitWakeups
<1>6. CASE Shutdown
  <2>1. NotFullWaiters' = {} /\ NotEmptyWaiters' = {}
    BY <1>6 DEF Shutdown, NotFullWaiters, NotEmptyWaiters, Threads
  <2> QED
    BY <2>1 DEF Wakeups, NoLostWakeup, NoWaiterAfterShutdown
<1>7. CASE UNCHANGED vars
  BY <1>7 DEF vars, Wakeups, NoLostWakeup, NoWaiterAfterShutdown, NotFullWaiters,
              NotEmptyWaiters, WokenProducers, WokenConsumers
<1> QED
  BY <1>1, <1>2, <1>3, <1>4, <1>5, <1>6, <1>7, StepCases

\* A new queue satisfies the invariant.
LEMMA InvInit == Init => Inv
<1> SUFFICES ASSUME Init PROVE Inv
  OBVIOUS
<1>1. TypeOK
  BY TypeInit
<1>2. Conservation
  BY EmptySeq, QueueAssumption DEF Init, Conservation
<1>3. NotFullWaiters = {} /\ NotEmptyWaiters = {}
  BY DEF Init, NotFullWaiters, NotEmptyWaiters, Threads
<1> QED
  BY <1>1, <1>2, <1>3 DEF Inv, NoLostWakeup, NoWaiterAfterShutdown

\* Every step keeps it.
LEMMA InvStep == Inv /\ [Next]_vars => Inv'
  BY TypeStep, ConservationStep, WakeupsStep DEF Inv, Wakeups

\* The conjunction of what follows is an inductive invariant of the queue.
LEMMA Invariance == Spec => []Inv
  BY InvInit, InvStep, PTL DEF Spec

\* Whatever the threads, timeouts and wakeups do, the queue holds exactly what
\* went in and has not come out, in that order, within its capacity.
THEOREM ItemsConserved == Spec => []Conservation
<1>1. Inv => Conservation
  BY DEF Inv
<1> QED
  BY <1>1, Invariance, PTL

\* push, tryPush, pop and popWithTimeout notify one thread each, and that is
\* enough: no thread is left waiting for a condition that holds unless as many
\* woken threads as the condition can serve are on their way.
THEOREM WakeupsSuffice == Spec => []NoLostWakeup
<1>1. Inv => NoLostWakeup
  BY DEF Inv
<1> QED
  BY <1>1, Invariance, PTL

\* A shutdown leaves nobody waiting, and nobody waits later.
THEOREM ShutdownEmptiesWaitSets == Spec => []NoWaiterAfterShutdown
<1>1. Inv => NoWaiterAfterShutdown
  BY DEF Inv
<1> QED
  BY <1>1, Invariance, PTL

(***************************************************************************)
(* Refinement.  push and tryPush implement Put or nothing, the pops Take   *)
(* or nothing, shutdown implements Close.                                  *)
(***************************************************************************)
\* A new queue is an empty abstract queue.
LEMMA RefinesInit == Init => BQ!Init
  BY DEF Init, BQ!Init

\* Every step is one Put, one Take or one Close of the abstract queue, or leaves
\* it as it is.
LEMMA RefinesStep == Inv /\ [Next]_vars => [BQ!Next]_(BQ!vars)
<1> SUFFICES ASSUME Inv, [Next]_vars PROVE [BQ!Next]_(BQ!vars)
  OBVIOUS
<1>0. /\ queue \in Seq(Items) /\ popped \in Seq(Items) /\ pushed = popped \o queue
  BY DEF Inv, TypeOK, Conservation
<1>1. ASSUME NEW p \in Producers, CanPush(p), Enqueue(p) PROVE BQ!Next
  <2>1. Arg(p) \in Items
    BY <1>1, QueueAssumption DEF CanPush, Inv, TypeOK, Arg, Items
  <2>2. Len(pushed) - Len(popped) < MaxSize
    BY <1>0, <1>1, QueueAssumption, LenProperties, ConcatProperties DEF Enqueue, Full
  <2>3. BQ!Put(Arg(p))
    BY <1>1, <2>2 DEF Enqueue, BQ!Put
  <2> QED
    BY <2>1, <2>3 DEF BQ!Next
<1>2. ASSUME NEW c \in Consumers, Dequeue(c) PROVE BQ!Next
  <2>1. Len(popped) < Len(pushed) /\ pushed[Len(popped) + 1] = Head(queue)
    BY <1>0, <1>2, LenProperties, ConcatProperties, EmptySeq DEF Dequeue
  <2> QED
    BY <1>2, <2>1 DEF Dequeue, BQ!Take, BQ!Next
<1>3. CASE Shutdown
  BY <1>3 DEF Shutdown, BQ!Close, BQ!Next
<1>4. CASE UNCHANGED <<shutdown, pushed, popped>>
  BY <1>4 DEF BQ!vars
<1> QED
  BY <1>1, <1>2, <1>3, <1>4, StepCases
     DEF vars, Discard, Wait, ConsumerStep, PopCall, PopResume, PopExpired,
         ReturnNothing, Timeout, SpuriousWakeup

\* The monitor implements the bounded FIFO queue with close.
THEOREM Refinement == Spec => ImplementsBoundedQueue
<1> QED
  BY RefinesInit, RefinesStep, Invariance, PTL DEF Spec, BQ!Spec, ImplementsBoundedQueue
=============================================================================
