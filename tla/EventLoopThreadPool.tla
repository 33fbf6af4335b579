------------------------ MODULE EventLoopThreadPool ------------------------
(***************************************************************************)
(* EventLoopThreadPool (src/src/EventLoopThreadPool.cpp): which loop gets  *)
(* the next connection.  Everything runs on the base loop's thread, and    *)
(* TcpServer starts the pool once.  Loop 0 is the base loop, loop i the    *)
(* loop of the i-th thread; a thread's start is module EventLoopThread.    *)
(* Module TcpServer extends this one and is what TLC runs.                 *)
(***************************************************************************)
EXTENDS Integers, Sequences

CONSTANT MaxThreads   \* most threads a user asks for

ASSUME BoundAssumption == MaxThreads \in Nat

VARIABLES numThreads_,
          loops_,
          next_,
          served        \* loop -> how often getNextLoop returned it (history)

vars == <<numThreads_, loops_, next_, served>>

LoopId == 0 .. MaxThreads

TypeOK == /\ numThreads_ \in 0 .. MaxThreads
          /\ loops_ \in Seq(LoopId)
          /\ next_ \in Nat
          /\ served \in [LoopId -> Nat]

Init == /\ numThreads_ = 0
        /\ loops_ = << >>
        /\ next_ = 0
        /\ served = [l \in LoopId |-> 0]

\* Only stored: it tells start how many threads to create.
setThreadNum(n) == /\ numThreads_' = n
                   /\ UNCHANGED <<loops_, next_, served>>

\* Defect: one thread too many.
startOneMore == /\ loops_ = << >>
                /\ loops_' = [i \in 1 .. numThreads_ + 2 |-> i - 1]
                /\ UNCHANGED <<numThreads_, next_, served>>

start == /\ loops_ = << >>
         /\ loops_' = [i \in 1 .. numThreads_ + 1 |-> i - 1]
         /\ UNCHANGED <<numThreads_, next_, served>>

\* The io loop to serve next; after the last one next_ has wrapped to 0.
turn == IF next_ = 0 THEN 1 ELSE next_

\* The base loop if there is no other, else the next of the others.
nextLoop == IF Len(loops_) = 1 THEN 0 ELSE loops_[turn + 1]

\* Defect: the position wraps at the number of threads, not of loops.
advanceShortWrap ==
  IF Len(loops_) = 1 THEN UNCHANGED next_ ELSE next_' = (turn + 1) % (Len(loops_) - 1)

advance == IF Len(loops_) = 1 THEN UNCHANGED next_ ELSE next_' = (turn + 1) % Len(loops_)

\* newConnection asks for a loop.  loops_ is never empty here: TcpServer listens after
\* start.
getNextLoop ==
  /\ loops_ # << >>
  /\ served' = [served EXCEPT ![nextLoop] = @ + 1]
  /\ advance
  /\ UNCHANGED <<numThreads_, loops_>>

Next == \/ \E n \in 0 .. MaxThreads : setThreadNum(n)
        \/ start
        \/ getNextLoop

Spec == Init /\ [][Next]_vars
-----------------------------------------------------------------------------
IoLoops == 1 .. Len(loops_) - 1

\* The position is always an index of loops_, also right after it wrapped.
PositionInRange == loops_ # << >> => next_ < Len(loops_)

\* No io loop is more than one connection ahead of another.
Balanced == \A i, j \in IoLoops : served[i] <= served[j] + 1

\* With io loops the base loop is given no connection, without them all of them.
BaseOnlyAccepts == /\ Len(loops_) > 1 => served[0] = 0
                   /\ \A l \in LoopId \ (IoLoops \cup {0}) : served[l] = 0

\* "If there are worker threads, poll" (getNextLoop): the vector, indexed unchecked, is
\* never left, the loop that accepts is passed over each time the position wraps, and in
\* no round an io loop is left out or served twice, also if setThreadNum is called late.
RoundRobin == PositionInRange /\ Balanced /\ BaseOnlyAccepts
=============================================================================
