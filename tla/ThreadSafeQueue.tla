-------------------------- MODULE ThreadSafeQueue --------------------------
(***************************************************************************)
(* The blocking queue of include/thread_safe_queue.h, at the level of its  *)
(* monitor.  Everything a method does while it holds mutex_ is one step;   *)
(* a wait on a condition variable ends the step and the thread's return    *)
(* from the wait, when it holds mutex_ again and re-evaluates the          *)
(* predicate, begins another.  A waiting thread leaves the wait when it is *)
(* notified, when it wakes spuriously, or, in popWithTimeout, when the     *)
(* time is up.                                                             *)
(*                                                                         *)
(* A producer's n-th call carries the item <<p, n>>.  pushed and popped    *)
(* record what went in and what came out; they are history and no action   *)
(* reads them.                                                             *)
(***************************************************************************)
EXTENDS Naturals, Sequences, FiniteSets

CONSTANTS Producers,  \* threads that call push and tryPush
          Consumers,  \* threads that call pop and popWithTimeout
          MaxSize,    \* max_size_
          MaxCalls    \* bound: how many calls each producer makes

ASSUME QueueAssumption ==
  /\ IsFiniteSet(Producers)
  /\ IsFiniteSet(Consumers)
  /\ Producers \cap Consumers = {}
  /\ MaxSize \in Nat
  /\ MaxCalls \in Nat

VARIABLES queue,     \* queue_
          shutdown,  \* shutdown_
          state,     \* where each thread is with respect to the monitor
          timed,     \* is the consumer inside popWithTimeout?
          sent,      \* how many calls of each producer have returned
          pushed,    \* history: the items that entered the queue
          popped     \* history: the items that left it

vars == <<queue, shutdown, state, timed, sent, pushed, popped>>

Threads == Producers \cup Consumers
Items   == Producers \X (1 .. MaxCalls)

\* "idle": outside; "waiting": on the wait set of its condition variable;
\* "notified": off the wait set, still to reacquire mutex_; "expired": the
\* same, because the timeout of popWithTimeout has elapsed.
States == {"idle", "waiting", "notified", "expired"}

\* A producer waits only on not_full_ and a consumer only on not_empty_.
NotFullWaiters  == {p \in Producers : state[p] = "waiting"}
NotEmptyWaiters == {c \in Consumers : state[c] = "waiting"}

\* Variant: room is looked for one item too late.
FullLate == Len(queue) > MaxSize
Full    == Len(queue) >= MaxSize
Arg(p)  == <<p, sent[p] + 1>>

Init == /\ queue = <<>>
        /\ shutdown = FALSE
        /\ state = [t \in Threads |-> "idle"]
        /\ timed = [c \in Consumers |-> FALSE]
        /\ sent = [p \in Producers |-> 0]
        /\ pushed = <<>>
        /\ popped = <<>>

(***************************************************************************)
(* notify_one() on the condition variable whose wait set is W, by a thread *)
(* t that then returns to its caller.                                      *)
(***************************************************************************)
\* Variant: the thread stays in the method instead of returning.
NotifyOneAndLoop(t, W) ==
  \/ /\ W = {}
     /\ state' = [state EXCEPT ![t] = "notified"]
  \/ \E w \in W : state' = [state EXCEPT ![t] = "notified", ![w] = "notified"]

NotifyOneAndReturn(t, W) ==
  \/ /\ W = {}
     /\ state' = [state EXCEPT ![t] = "idle"]
  \/ \E w \in W : state' = [state EXCEPT ![t] = "idle", ![w] = "notified"]

\* Variant: consumers are notified only when the queue has been empty.
EnqueueQuiet(p) ==
  /\ ~Full
  /\ ~shutdown
  /\ queue' = Append(queue, Arg(p))
  /\ pushed' = Append(pushed, Arg(p))
  /\ sent' = [sent EXCEPT ![p] = @ + 1]
  /\ NotifyOneAndReturn(p, IF queue = <<>> THEN NotEmptyWaiters ELSE {})
  /\ UNCHANGED <<shutdown, timed, popped>>

\* Variant: shutdown_ is not looked at again.
EnqueueAnyway(p) ==
  /\ ~Full
  /\ queue' = Append(queue, Arg(p))
  /\ pushed' = Append(pushed, Arg(p))
  /\ sent' = [sent EXCEPT ![p] = @ + 1]
  /\ NotifyOneAndReturn(p, NotEmptyWaiters)
  /\ UNCHANGED <<shutdown, timed, popped>>

Enqueue(p) ==
  /\ ~Full
  /\ ~shutdown
  /\ queue' = Append(queue, Arg(p))
  /\ pushed' = Append(pushed, Arg(p))
  /\ sent' = [sent EXCEPT ![p] = @ + 1]
  /\ NotifyOneAndReturn(p, NotEmptyWaiters)
  /\ UNCHANGED <<shutdown, timed, popped>>

\* The caller's item is discarded: push after a shutdown says nothing about
\* it, tryPush returns false.
Discard(p) ==
  /\ sent' = [sent EXCEPT ![p] = @ + 1]
  /\ state' = [state EXCEPT ![p] = "idle"]
  /\ UNCHANGED <<queue, shutdown, timed, pushed, popped>>

Wait(t) ==
  /\ state' = [state EXCEPT ![t] = "waiting"]
  /\ UNCHANGED <<queue, shutdown, sent, pushed, popped>>

\* The part of push from the evaluation of the wait predicate on.
PushBody(p) ==
  \/ shutdown /\ Discard(p)
  \/ Enqueue(p)
  \/ Full /\ ~shutdown /\ Wait(p) /\ UNCHANGED timed

PushCall(p) == /\ state[p] = "idle"
               /\ sent[p] < MaxCalls
               /\ PushBody(p)

PushResume(p) == state[p] = "notified" /\ PushBody(p)

TryPush(p) == /\ state[p] = "idle"
              /\ sent[p] < MaxCalls
              /\ \/ (Full \/ shutdown) /\ Discard(p)
                 \/ Enqueue(p)

\* Variant: no producer is notified.
DequeueQuiet(c) ==
  /\ queue # <<>>
  /\ queue' = Tail(queue)
  /\ popped' = Append(popped, Head(queue))
  /\ state' = [state EXCEPT ![c] = "idle"]
  /\ UNCHANGED <<shutdown, sent, pushed>>

Dequeue(c) ==
  /\ queue # <<>>
  /\ queue' = Tail(queue)
  /\ popped' = Append(popped, Head(queue))
  /\ NotifyOneAndReturn(c, NotFullWaiters)
  /\ UNCHANGED <<shutdown, sent, pushed>>

\* Variant: after a shutdown nothing is returned although there are items.
ReturnNothingEarly(c) ==
  /\ queue = <<>> \/ shutdown
  /\ state' = [state EXCEPT ![c] = "idle"]
  /\ UNCHANGED <<queue, shutdown, sent, pushed, popped>>

\* std::nullopt is returned.
ReturnNothing(c) ==
  /\ queue = <<>>
  /\ state' = [state EXCEPT ![c] = "idle"]
  /\ UNCHANGED <<queue, shutdown, sent, pushed, popped>>

\* pop (t = FALSE) and popWithTimeout (t = TRUE) differ in whether the wait
\* may expire.
PopCall(c, t) ==
  /\ state[c] = "idle"
  /\ timed' = [timed EXCEPT ![c] = t]
  /\ \/ Dequeue(c)
     \/ shutdown /\ ReturnNothing(c)
     \/ queue = <<>> /\ ~shutdown /\ Wait(c)

PopResume(c) ==
  /\ state[c] = "notified"
  /\ UNCHANGED timed
  /\ \/ Dequeue(c)
     \/ shutdown /\ ReturnNothing(c)
     \/ queue = <<>> /\ ~shutdown /\ Wait(c)

\* wait_for evaluates the predicate once more after the timeout.
PopExpired(c) ==
  /\ state[c] = "expired"
  /\ UNCHANGED timed
  /\ Dequeue(c) \/ ReturnNothing(c)

Timeout(c) ==
  /\ state[c] = "waiting"
  /\ timed[c]
  /\ state' = [state EXCEPT ![c] = "expired"]
  /\ UNCHANGED <<queue, shutdown, timed, sent, pushed, popped>>

SpuriousWakeup(t) ==
  /\ state[t] = "waiting"
  /\ state' = [state EXCEPT ![t] = "notified"]
  /\ UNCHANGED <<queue, shutdown, timed, sent, pushed, popped>>

\* Variant: only not_empty_ is notified.
ShutdownPops ==
  /\ shutdown' = TRUE
  /\ state' = [t \in Threads |-> IF t \in NotEmptyWaiters THEN "notified" ELSE state[t]]
  /\ UNCHANGED <<queue, timed, sent, pushed, popped>>

\* notify_all() on both condition variables.
Shutdown ==
  /\ shutdown' = TRUE
  /\ state' = [t \in Threads |->
                 IF state[t] = "waiting" THEN "notified" ELSE state[t]]
  /\ UNCHANGED <<queue, timed, sent, pushed, popped>>

ProducerStep(p) == PushCall(p) \/ PushResume(p) \/ TryPush(p)

ConsumerStep(c) == \/ \E t \in BOOLEAN : PopCall(c, t)
                   \/ PopResume(c)
                   \/ Timeout(c)
                   \/ PopExpired(c)

Next == \/ \E p \in Producers : ProducerStep(p)
        \/ \E c \in Consumers : ConsumerStep(c)
        \/ \E t \in Threads : SpuriousWakeup(t)
        \/ Shutdown

Spec == Init /\ [][Next]_vars

(***************************************************************************)
(* Fairness.  A thread that has left the wait gets the mutex some time,    *)
(* and a timer runs out; no call has to be made and no spurious wakeup has *)
(* to happen.                                                              *)
(***************************************************************************)
Progress == /\ \A p \in Producers : WF_vars(PushResume(p))
            /\ \A c \in Consumers : /\ WF_vars(PopResume(c))
                                    /\ WF_vars(Timeout(c))
                                    /\ WF_vars(PopExpired(c))

FairSpec == Spec /\ Progress

\* The pipeline's consumers call again and again.
ConsumersLoop == \A c \in Consumers : WF_vars(\E t \in BOOLEAN : PopCall(c, t))
-----------------------------------------------------------------------------
\* The variables have their types: what the later properties take for granted.
TypeOK == /\ queue \in Seq(Items)
          /\ shutdown \in BOOLEAN
          /\ state \in [Threads -> States]
          /\ timed \in [Consumers -> BOOLEAN]
          /\ sent \in [Producers -> 0 .. MaxCalls]
          /\ pushed \in Seq(Items)
          /\ popped \in Seq(Items)
          /\ \A p \in Producers : state[p] # "expired"
          /\ \A p \in Producers : state[p] # "idle" => sent[p] < MaxCalls

\* The queue holds what went in and has not come out, in that order, and
\* never more than MaxSize items: push, tryPush, pop and popWithTimeout lose,
\* duplicate and reorder nothing among themselves.
Conservation == pushed = popped \o queue /\ Len(queue) <= MaxSize

\* Threads that have been woken and have not yet run.
WokenProducers == {p \in Producers : state[p] = "notified"}
WokenConsumers == {c \in Consumers : state[c] \in {"notified", "expired"}}

\* No wakeup is lost although each push and pop notifies a single thread:
\* while consumers wait, there is a woken consumer for every item in the queue;
\* while producers wait, there is a woken producer for every free place.
NoLostWakeup ==
  /\ NotEmptyWaiters # {} => Len(queue) <= Cardinality(WokenConsumers)
  /\ NotFullWaiters # {} => MaxSize - Len(queue) <= Cardinality(WokenProducers)

\* Nobody waits after a shutdown, nor starts to.
NoWaiterAfterShutdown ==
  shutdown => NotEmptyWaiters \cup NotFullWaiters = {}

Inv == TypeOK /\ Conservation /\ NoLostWakeup /\ NoWaiterAfterShutdown

\* After a shutdown every call in progress returns.
ShutdownReleases == \A t \in Threads : shutdown ~> state[t] = "idle"

\* A blocked push returns as long as the consumers keep calling, whether or
\* not the queue is ever shut down.  Producers make MaxCalls calls each: more of
\* them could overtake a woken producer for ever, as condition variables allow.
PushReturns ==
  ConsumersLoop => \A p \in Producers : state[p] = "waiting" ~> state[p] = "idle"

\* An item that went in comes out as long as the consumers keep calling, even
\* when the queue is shut down in between.
Delivered ==
  ConsumersLoop =>
    \A i \in Items : (\E k \in 1 .. Len(pushed) : pushed[k] = i)
                       ~> (\E k \in 1 .. Len(popped) : popped[k] = i)

(***************************************************************************)
(* The monitor implements the bounded queue.                               *)
(***************************************************************************)
BQ == INSTANCE BoundedQueue WITH Item <- Items, Capacity <- MaxSize,
        accepted <- pushed, taken <- popped, closed <- shutdown

ImplementsBoundedQueue == BQ!Spec
=============================================================================
