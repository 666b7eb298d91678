------------------------------ MODULE TaskQueue ------------------------------
(***************************************************************************)
(* What the users of the thread pool may rely on: a bounded queue of tasks *)
(* that are handed out in the order in which they were accepted, each one  *)
(* once, and a pool that once closed accepts nothing.  ThreadPool          *)
(* implements it with a ring of queue_size slots.                          *)
(***************************************************************************)
EXTENDS Naturals, Sequences

CONSTANTS
    Task,  \* the tasks
    Size   \* how many of them may wait

VARIABLES
    waiting,  \* the accepted tasks nobody has taken, oldest first
    closed    \* whether the pool still accepts tasks

vars == <<waiting, closed>>

Init ==
    /\ waiting = <<>>
    /\ closed = FALSE

Accept(t) ==
    /\ ~closed
    /\ Len(waiting) < Size
    /\ waiting' = Append(waiting, t)
    /\ UNCHANGED closed

Hand ==
    /\ waiting # <<>>
    /\ waiting' = Tail(waiting)
    /\ UNCHANGED closed

Close == closed' = TRUE /\ UNCHANGED waiting

Next == Close \/ Hand \/ \E t \in Task : Accept(t)

Spec == Init /\ [][Next]_vars
==============================================================================
