------------------------------ MODULE QueueOps ------------------------------
(***************************************************************************)
(* The operations of the blocking queue (include/thread_safe_queue.h, and  *)
(* TSQueue in dpi_mt.cpp, which has the same body) as functions on a       *)
(* record, for the modules that compose threads through queues.  One       *)
(* operation is one step there: ThreadSafeQueueProofs shows that the       *)
(* monitor implements the atomic queue.                                    *)
(***************************************************************************)
EXTENDS Naturals, Sequences

NewQueue == [buf |-> <<>>, shut |-> FALSE]

\* Variant: push waits until the queue is over its capacity.
PushReturnsLate(q, cap) == Len(q.buf) <= cap \/ q.shut

\* The wait predicate of push, and what push does once it holds: on a queue
\* that is shut down the item is silently discarded.
PushReturns(q, cap) == Len(q.buf) < cap \/ q.shut
Push(q, x) == IF q.shut THEN q ELSE [q EXCEPT !.buf = Append(@, x)]

\* A pop with a timeout gives the front item or, when there is none, returns
\* std::nullopt: after the timeout, or at once on a queue that is shut down.
HasItem(q) == q.buf # <<>>
FrontItem(q) == Head(q.buf)
PopFront(q) == [q EXCEPT !.buf = Tail(@)]

Shut(q) == [q EXCEPT !.shut = TRUE]
=============================================================================
