---------------------------- MODULE BoundedQueue ----------------------------
(***************************************************************************)
(* What a ThreadSafeQueue<T> promises to the threads that share it, with   *)
(* no mention of mutexes, condition variables or timeouts: at most         *)
(* Capacity items wait in it, items come out in the order they went in,    *)
(* each of them once, and nothing goes in once it has been closed -- what  *)
(* went in before can still be taken out.                                  *)
(***************************************************************************)
EXTENDS Naturals, Sequences

CONSTANTS Item,      \* everything that may be put
          Capacity   \* how many items may wait

VARIABLES accepted,  \* all items ever put, in order
          taken,     \* all items ever taken, in order
          closed     \* has the queue been closed?

vars == <<accepted, taken, closed>>

Init == /\ accepted = <<>>
        /\ taken = <<>>
        /\ closed = FALSE

Put(i) == /\ ~closed
          /\ Len(accepted) - Len(taken) < Capacity
          /\ accepted' = Append(accepted, i)
          /\ UNCHANGED <<taken, closed>>

Take == /\ Len(taken) < Len(accepted)
        /\ taken' = Append(taken, accepted[Len(taken) + 1])
        /\ UNCHANGED <<accepted, closed>>

Close == /\ closed' = TRUE
         /\ UNCHANGED <<accepted, taken>>

Next == (\E i \in Item : Put(i)) \/ Take \/ Close

Spec == Init /\ [][Next]_vars
=============================================================================
