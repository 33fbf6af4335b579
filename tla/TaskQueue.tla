----------------------------- MODULE TaskQueue -----------------------------
(***************************************************************************)
(* What EventLoop promises to the callers of queueInLoop: an unbounded     *)
(* FIFO of tasks, served one at a time, each exactly once, in the order in *)
(* which they were submitted by all the threads together.                  *)
(***************************************************************************)
EXTENDS Sequences

CONSTANTS Task,     \* the functors that can be submitted
          NoTask    \* "no functor is running"

VARIABLES queue,    \* submitted and not yet begun
          cur       \* the functor that is running

vars == <<queue, cur>>

Init == queue = << >> /\ cur = NoTask

Submit(t) == /\ queue' = Append(queue, t)
             /\ UNCHANGED cur

Begin == /\ cur = NoTask
         /\ queue # << >>
         /\ cur' = Head(queue)
         /\ queue' = Tail(queue)

End == /\ cur # NoTask
       /\ cur' = NoTask
       /\ UNCHANGED queue

Next == \/ \E t \in Task : Submit(t)
        \/ Begin
        \/ End

Spec == Init /\ [][Next]_vars
=============================================================================
