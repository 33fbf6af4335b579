----------------------------- MODULE EventLoop -----------------------------
(***************************************************************************)
(* One EventLoop (src/src/EventLoop.cpp): the thread that owns it runs     *)
(* loop(), any other thread hands it functors (queueInLoop, and runInLoop, *)
(* which is queueInLoop off the loop thread) or asks it to stop (quit).    *)
(* The loop sleeps in epoll_wait; an eventfd wakes it up.                  *)
(*                                                                         *)
(* m_looping is not a variable: it is pc # "idle".  Channels other than    *)
(* the wakeup channel appear as the user code that runs in "handle".       *)
(***************************************************************************)
EXTENDS Integers, Sequences, SequencesExt

CONSTANTS Task,        \* functors
          NoTask,      \* "no functor is running"
          Poster,      \* the threads other than the loop thread
          MaxQueued,   \* bound on the functors waiting at one time
          EventFdMax   \* the eventfd counter's limit (2^64 - 2 on Linux)

ASSUME NoTaskAssumption == NoTask \notin Task
ASSUME EventFdAssumption == EventFdMax \in Nat \ {0}
ASSUME MaxQueuedAssumption == MaxQueued \in Nat

VARIABLES
  pc,                        \* where the loop thread is in loop()
  m_quit,
  m_callingPendingFunctors,
  m_pendingFunctors,
  funcs,                     \* local of doPendingFunctors: the swapped batch
  cur,                       \* the functor doPendingFunctors is running
  eventfd,                   \* counter behind m_wakeupFd
  woken,                     \* the wakeup channel waits in m_activeChannels
  posterPc                   \* where each other thread is in queueInLoop/quit

vars == <<pc, m_quit, m_callingPendingFunctors, m_pendingFunctors, funcs, cur,
          eventfd, woken, posterPc>>
queueVars == <<m_callingPendingFunctors, m_pendingFunctors, funcs, cur>>
wakeVars  == <<eventfd, woken>>

TypeOK ==
  /\ pc \in {"idle", "check", "poll", "handle", "run"}
  /\ m_quit \in BOOLEAN
  /\ m_callingPendingFunctors \in BOOLEAN
  /\ m_pendingFunctors \in Seq(Task)
  /\ funcs \in Seq(Task)
  /\ cur \in Task \cup {NoTask}
  /\ eventfd \in 0 .. EventFdMax
  /\ woken \in BOOLEAN
  /\ posterPc \in [Poster -> {"idle", "wakeup"}]

Init ==
  /\ pc = "idle"
  /\ m_quit = FALSE
  /\ m_callingPendingFunctors = FALSE
  /\ m_pendingFunctors = << >>
  /\ funcs = << >>
  /\ cur = NoTask
  /\ eventfd = 0
  /\ woken = FALSE
  /\ posterPc = [p \in Poster |-> "idle"]

\* Defect: the counter is written past its limit.
wakeupUnbounded == eventfd' = eventfd + 1

\* A non-blocking write of 1 to the eventfd; it fails, and only logs, at the limit.
wakeup == eventfd' = IF eventfd < EventFdMax THEN eventfd + 1 ELSE eventfd

enqueue(t) == /\ Len(funcs) + Len(m_pendingFunctors) < MaxQueued
              /\ m_pendingFunctors' = Append(m_pendingFunctors, t)
-----------------------------------------------------------------------------
\* The loop thread in loop().

loop == /\ pc = "idle"
        /\ pc' = "check" /\ m_quit' = FALSE
        /\ UNCHANGED <<queueVars, wakeVars, posterPc>>

testQuit == /\ pc = "check"
            /\ pc' = IF m_quit THEN "idle" ELSE "poll"
            /\ UNCHANGED <<m_quit, queueVars, wakeVars, posterPc>>

\* epoll_wait returns because the eventfd is readable.  The returned list may be
\* full of other channels, so the wakeup channel need not be in it.
pollWakeup == /\ pc = "poll" /\ eventfd > 0
              /\ pc' = "handle" /\ woken' \in BOOLEAN
              /\ UNCHANGED <<m_quit, queueVars, eventfd, posterPc>>

\* epoll_wait returns for another channel, for a signal, or after kPollTimeMs.
pollOther == /\ pc = "poll" /\ eventfd = 0
             /\ pc' = "handle"
             /\ UNCHANGED <<m_quit, queueVars, wakeVars, posterPc>>

\* The wakeup channel's callback: the read takes the whole counter.
handleRead == /\ pc = "handle" /\ woken
              /\ woken' = FALSE /\ eventfd' = 0
              /\ UNCHANGED <<pc, m_quit, queueVars, posterPc>>

\* Every active channel is handled: doPendingFunctors raises the flag and swaps
\* the queue with its local batch (under m_mutex).
swapFunctors == /\ pc = "handle" /\ ~woken
                /\ pc' = "run" /\ m_callingPendingFunctors' = TRUE
                /\ funcs' = m_pendingFunctors /\ m_pendingFunctors' = << >>
                /\ UNCHANGED <<m_quit, cur, wakeVars, posterPc>>

\* Defect: functors are taken from the live queue, not from the batch.
beginFunctorLive == /\ pc = "run" /\ cur = NoTask /\ funcs # << >>
                    /\ cur' = Head(funcs)
                    /\ funcs' = Tail(funcs) \o m_pendingFunctors
                    /\ m_pendingFunctors' = << >>
                    /\ UNCHANGED <<pc, m_quit, m_callingPendingFunctors, wakeVars, posterPc>>

\* Defect: the batch is run from its end.
beginFunctorLifo == /\ pc = "run" /\ cur = NoTask /\ funcs # << >>
                    /\ cur' = Last(funcs) /\ funcs' = Front(funcs)
                    /\ UNCHANGED <<pc, m_quit, m_callingPendingFunctors, m_pendingFunctors,
                                   wakeVars, posterPc>>

beginFunctor == /\ pc = "run" /\ cur = NoTask /\ funcs # << >>
                /\ cur' = Head(funcs) /\ funcs' = Tail(funcs)
                /\ UNCHANGED <<pc, m_quit, m_callingPendingFunctors, m_pendingFunctors,
                               wakeVars, posterPc>>

endFunctor == /\ cur # NoTask
              /\ cur' = NoTask
              /\ UNCHANGED <<pc, m_quit, m_callingPendingFunctors, m_pendingFunctors,
                             funcs, wakeVars, posterPc>>

endPending == /\ pc = "run" /\ cur = NoTask /\ funcs = << >>
              /\ pc' = "check" /\ m_callingPendingFunctors' = FALSE
              /\ UNCHANGED <<m_quit, m_pendingFunctors, funcs, cur, wakeVars, posterPc>>
-----------------------------------------------------------------------------
\* Calls made on the loop thread by channel callbacks and by functors.

InUserCode == pc = "handle" \/ cur # NoTask

\* queueInLoop on the loop thread.  Append and wakeup are one step: only the
\* loop thread itself reads the counter.
ownerEnqueue(t) == /\ enqueue(t)
                   /\ IF m_callingPendingFunctors THEN wakeup ELSE UNCHANGED eventfd
                   /\ UNCHANGED <<pc, m_quit, m_callingPendingFunctors, funcs, cur,
                                  woken, posterPc>>

\* Defect: m_callingPendingFunctors is not consulted.
ownerQueueInLoopNoWake(t) == /\ InUserCode /\ enqueue(t)
                             /\ UNCHANGED <<pc, m_quit, m_callingPendingFunctors, funcs,
                                            cur, wakeVars, posterPc>>

ownerQueueInLoop(t) == InUserCode /\ ownerEnqueue(t)

ownerQuit == /\ InUserCode
             /\ m_quit' = TRUE
             /\ UNCHANGED <<pc, queueVars, wakeVars, posterPc>>
-----------------------------------------------------------------------------
\* Calls made by the other threads: the write to the eventfd is a second step.

queueInLoop(p, t) == /\ posterPc[p] = "idle" /\ enqueue(t)
                     /\ posterPc' = [posterPc EXCEPT ![p] = "wakeup"]
                     /\ UNCHANGED <<pc, m_quit, m_callingPendingFunctors, funcs, cur,
                                    wakeVars>>

\* Defect: quit() does not wake the loop up.
quitNoWake(p) == /\ posterPc[p] = "idle"
                 /\ m_quit' = TRUE
                 /\ UNCHANGED <<pc, queueVars, wakeVars, posterPc>>

quit(p) == /\ posterPc[p] = "idle"
           /\ m_quit' = TRUE /\ posterPc' = [posterPc EXCEPT ![p] = "wakeup"]
           /\ UNCHANGED <<pc, queueVars, wakeVars>>

posterWakeup(p) == /\ posterPc[p] = "wakeup" /\ wakeup
                   /\ posterPc' = [posterPc EXCEPT ![p] = "idle"]
                   /\ UNCHANGED <<pc, m_quit, queueVars, woken>>
-----------------------------------------------------------------------------
LoopStep == \/ testQuit \/ pollWakeup \/ handleRead \/ swapFunctors
            \/ beginFunctor \/ endFunctor \/ endPending

Next == \/ loop
        \/ LoopStep
        \/ pollOther
        \/ ownerQuit
        \/ \E t \in Task : ownerQueueInLoop(t)
        \/ \E p \in Poster : quit(p) \/ posterWakeup(p)
        \/ \E p \in Poster, t \in Task : queueInLoop(p, t)

Spec == Init /\ [][Next]_vars

\* The loop thread and a thread inside queueInLoop or quit keep running, callbacks
\* return, and epoll_wait returns when the eventfd is readable.  Nothing is asked
\* of pollOther: no guarantee rests on the 10 s timeout or on other traffic.
Fairness == /\ WF_vars(LoopStep)
            /\ \A p \in Poster : WF_vars(posterWakeup(p))

FairSpec == Spec /\ Fairness

-----------------------------------------------------------------------------
\* Somebody will make the eventfd readable, or it is.
WakeupOnItsWay == eventfd > 0 \/ \E p \in Poster : posterPc[p] = "wakeup"

\* What outlives a round of loop(): a functor queued since the last swap has its
\* wakeup, until handleRead takes it on the way to the next swap.
WakeupKept ==
  /\ (pc # "handle" /\ m_pendingFunctors # << >>) => WakeupOnItsWay
  /\ (pc = "poll" /\ m_quit) => WakeupOnItsWay

waiting == funcs \o m_pendingFunctors

\* The flag that makes queueInLoop wake its own loop is up exactly while
\* doPendingFunctors runs a batch, and nothing of a batch is left outside it; the
\* wakeup channel is pending only while active channels are handled.
BatchShape == /\ m_callingPendingFunctors <=> pc = "run"
              /\ pc # "run" => funcs = << >> /\ cur = NoTask
              /\ woken => pc = "handle"

\* No lost wakeup: whenever the loop thread sleeps although a functor is queued
\* or quit() was called, its eventfd is readable or the thread that queued or quit
\* is about to write to it (queueInLoop and quit against loop and handleRead).
NoLostWakeup == (pc = "poll" /\ (m_pendingFunctors # << >> \/ m_quit)) => WakeupOnItsWay

\* The functors of all threads run one at a time, each once, in queueing order:
\* queueInLoop and doPendingFunctors implement the FIFO of TaskQueue.
Tasks == INSTANCE TaskQueue WITH queue <- waiting
FifoService == Tasks!Spec

\* A functor queued while the loop runs is begun, unless the loop is told to stop,
\* without the help of the poll timeout.
QueuedIsServed ==
  \A t \in Task : (t \in Range(waiting) /\ pc # "idle") ~> (cur = t \/ pc = "idle")

\* quit() called while loop() runs makes loop() return, whatever else is queued.
QuitStopsLoop == (m_quit /\ pc # "idle") ~> (pc = "idle")

\* A batch of functors ends even if each functor queues another one: channel
\* events are not starved by doPendingFunctors.
BatchEnds == (pc = "run") ~> (pc # "run")
=============================================================================
