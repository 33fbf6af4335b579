-------------------------- MODULE EventLoopThread --------------------------
(***************************************************************************)
(* EventLoopThread and Thread (src/src/EventLoopThread.cpp, Thread.cpp):   *)
(* one object, the thread that creates and destroys it, and the worker     *)
(* thread it starts, which runs an EventLoop on its stack.                 *)
(*                                                                         *)
(* The loop itself is module EventLoop.  Its users are the creator (in the *)
(* library the base loop's thread, which hands it connections) and the     *)
(* code the loop runs.  The creator may destroy the object as soon as      *)
(* startLoop has returned.                                                 *)
(*                                                                         *)
(* A call on a loop that is gone is undefined; here it changes nothing,    *)
(* and the other outcomes are not followed.                                *)
(***************************************************************************)
EXTENDS Integers, Sequences

CONSTANTS Task, NoTask, MaxQueued, EventFdMax,   \* of the EventLoop
          Creator                                \* its one user on another thread

\* What EventLoop assumes of its constants.
ASSUME LoopAssumption == /\ NoTask \notin Task
                         /\ EventFdMax \in Nat \ {0} /\ MaxQueued \in Nat

VARIABLES pc, m_quit, m_callingPendingFunctors, m_pendingFunctors, funcs, cur,
          eventfd, woken, posterPc,   \* the EventLoop
          alive,     \* is the EventLoop constructed and not yet destroyed?
          loop_,     \* does the object's pointer point to it?
          creator,   \* where the creator is in startLoop and the destructor
          worker,    \* where the worker is in threadFunc
          early,     \* the destructor's quit() came before loop() (history)
          userQuit   \* code other than the destructor has called quit() (history)

loopVars == <<pc, m_quit, m_callingPendingFunctors, m_pendingFunctors, funcs, cur,
              eventfd, woken, posterPc>>
vars == <<loopVars, alive, loop_, creator, worker, early, userQuit>>

Loop == INSTANCE EventLoop WITH Poster <- {Creator}

TypeOK ==
  /\ Loop!TypeOK
  /\ alive \in BOOLEAN /\ loop_ \in BOOLEAN /\ early \in BOOLEAN
  /\ userQuit \in BOOLEAN
  /\ creator \in {"new", "pid", "wait", "started", "quit", "wakeup", "join", "gone"}
  /\ worker \in {"none", "created", "construct", "init", "signal", "enter", "looping",
                 "destroy", "ended"}

Init == /\ Loop!Init
        /\ alive = FALSE /\ loop_ = FALSE /\ early = FALSE /\ userQuit = FALSE
        /\ creator = "new" /\ worker = "none"
-----------------------------------------------------------------------------
\* startLoop, on the creator.

start == /\ creator = "new"
         /\ creator' = "pid" /\ worker' = "created"
         /\ UNCHANGED <<loopVars, alive, loop_, early, userQuit>>

\* Defect: the thread id is announced by a notification, which nobody may hear.
getPidNotified == /\ creator = "pid" /\ worker = "construct"
                  /\ creator' = "wait"
                  /\ UNCHANGED <<loopVars, alive, loop_, worker, early, userQuit>>

\* Thread::start waits for the future of pidPromise.
getPid == /\ creator = "pid" /\ worker # "created"
          /\ creator' = "wait"
          /\ UNCHANGED <<loopVars, alive, loop_, worker, early, userQuit>>

\* Defect: startLoop does not wait for the loop.
startReturnsAtOnce == /\ creator = "wait"
                      /\ creator' = "started"
                      /\ UNCHANGED <<loopVars, alive, loop_, worker, early, userQuit>>

\* future.wait(): loop_created_promise_ has been set.
startReturns == /\ creator = "wait" /\ worker \notin {"construct", "init", "signal"}
                /\ creator' = "started"
                /\ UNCHANGED <<loopVars, alive, loop_, worker, early, userQuit>>
-----------------------------------------------------------------------------
\* The worker: Thread::start's lambda, then threadFunc.

setPid == /\ worker = "created"
          /\ worker' = "construct"
          /\ UNCHANGED <<loopVars, alive, loop_, creator, early, userQuit>>

construct == /\ worker = "construct"
             /\ alive' = TRUE /\ worker' = "init"
             /\ UNCHANGED <<loopVars, loop_, creator, early, userQuit>>

\* What threadInitCallback_ may do with the loop.
initCallback ==
  /\ worker = "init"
  /\ \/ (\E t \in Task : Loop!ownerEnqueue(t)) /\ UNCHANGED userQuit
     \/ /\ m_quit' = TRUE /\ userQuit' = TRUE
        /\ UNCHANGED <<pc, m_callingPendingFunctors, m_pendingFunctors, funcs, cur,
                       eventfd, woken, posterPc>>
  /\ UNCHANGED <<alive, loop_, creator, worker, early>>

publish == /\ worker = "init"
           /\ loop_' = TRUE /\ worker' = "signal"
           /\ UNCHANGED <<loopVars, alive, creator, early, userQuit>>

signal == /\ worker = "signal"
          /\ worker' = "enter"
          /\ UNCHANGED <<loopVars, alive, loop_, creator, early, userQuit>>

enter == /\ worker = "enter" /\ Loop!loop
         /\ worker' = "looping"
         /\ UNCHANGED <<alive, loop_, creator, early, userQuit>>

loopStep == /\ worker = "looping" /\ Loop!LoopStep
            /\ UNCHANGED <<alive, loop_, creator, worker, early, userQuit>>

\* Events of other channels, and calls made by the code that the loop runs.
loopUser == /\ worker = "looping"
            /\ \/ Loop!pollOther /\ UNCHANGED userQuit
               \/ (\E t \in Task : Loop!ownerQueueInLoop(t)) /\ UNCHANGED userQuit
               \/ Loop!ownerQuit /\ userQuit' = TRUE
            /\ UNCHANGED <<alive, loop_, creator, worker, early>>

\* loop() has returned; nobody else takes m_mutex.
clear == /\ worker = "looping" /\ pc = "idle"
         /\ loop_' = FALSE /\ worker' = "destroy"
         /\ UNCHANGED <<loopVars, alive, creator, early, userQuit>>

\* ~EventLoop drops what is still queued, and the thread ends.
destroyLoop == /\ worker = "destroy"
               /\ alive' = FALSE /\ m_pendingFunctors' = << >> /\ eventfd' = 0
               /\ worker' = "ended"
               /\ UNCHANGED <<pc, m_quit, m_callingPendingFunctors, funcs, cur, woken,
                              posterPc, loop_, creator, early, userQuit>>
-----------------------------------------------------------------------------
\* The creator uses the loop that startLoop returned.
useLoop == /\ creator = "started" /\ alive
           /\ \/ (\E t \in Task : Loop!queueInLoop(Creator, t)) /\ UNCHANGED userQuit
              \/ Loop!quit(Creator) /\ userQuit' = TRUE
           /\ UNCHANGED <<alive, loop_, creator, worker, early>>

Poster(at) == posterPc' = [posterPc EXCEPT ![Creator] = at]
loopVarsButPoster == <<pc, m_quit, m_callingPendingFunctors, m_pendingFunctors, funcs,
                       cur, eventfd, woken>>

\* Defect: the write to the eventfd is left out.
wakeupLoopNot == /\ posterPc[Creator] = "wakeup" /\ Poster("idle")
                 /\ UNCHANGED loopVarsButPoster

\* Defect: the eventfd counts past its limit.
wakeupLoopUnbounded == /\ posterPc[Creator] = "wakeup" /\ Poster("idle")
                       /\ eventfd' = eventfd + 1
                       /\ UNCHANGED <<pc, m_quit, m_callingPendingFunctors,
                                      m_pendingFunctors, funcs, cur, woken>>

\* The write at the end of queueInLoop and quit; the loop may be gone by then.
wakeupLoop == \/ alive /\ Loop!posterWakeup(Creator)
              \/ /\ ~alive /\ posterPc[Creator] = "wakeup"
                 /\ Poster("idle")
                 /\ UNCHANGED loopVarsButPoster

\* Defect: the loop is woken up and not told to stop.
quitLoopNot == Poster("wakeup") /\ UNCHANGED loopVarsButPoster

\* loop_->quit(), up to its write.
quitLoop == \/ alive /\ Loop!quit(Creator)
            \/ ~alive /\ Poster("wakeup") /\ UNCHANGED loopVarsButPoster

useWakeup == /\ creator = "started" /\ wakeupLoop
             /\ UNCHANGED <<alive, loop_, creator, worker, early, userQuit>>

\* ~EventLoopThread reads loop_ without the mutex.  If it is null, ~Thread detaches
\* a thread that was started and leaves it to itself.
destroy == /\ creator \in {"new", "started"} /\ posterPc[Creator] = "idle"
           /\ creator' = IF loop_ THEN "quit" ELSE "gone"
           /\ UNCHANGED <<loopVars, alive, loop_, worker, early, userQuit>>

destroyQuit == /\ creator = "quit" /\ quitLoop
               /\ creator' = "wakeup" /\ early' = (worker = "enter")
               /\ UNCHANGED <<alive, loop_, worker, userQuit>>

destroyWakeup == /\ creator = "wakeup" /\ wakeupLoop
                 /\ creator' = "join"
                 /\ UNCHANGED <<alive, loop_, worker, early, userQuit>>

\* Defect: the destructor does not wait for the thread.
joinReturnsAtOnce == /\ creator = "join"
                     /\ creator' = "gone"
                     /\ UNCHANGED <<loopVars, alive, loop_, worker, early, userQuit>>

joinReturns == /\ creator = "join" /\ worker = "ended"
               /\ creator' = "gone"
               /\ UNCHANGED <<loopVars, alive, loop_, worker, early, userQuit>>
-----------------------------------------------------------------------------
WorkerStep == \/ setPid \/ construct \/ publish \/ signal \/ enter \/ loopStep \/ clear
              \/ destroyLoop

CreatorStep == \/ getPid \/ startReturns \/ useWakeup
               \/ destroyQuit \/ destroyWakeup \/ joinReturns

Next == WorkerStep \/ CreatorStep \/ start \/ destroy \/ useLoop \/ initCallback \/ loopUser

Spec == Init /\ [][Next]_vars

\* Both threads are scheduled and the code the loop runs returns.  Nobody has to
\* start or destroy the object, to use the loop, or to send it other events.
FairSpec == Spec /\ WF_vars(WorkerStep) /\ WF_vars(CreatorStep)
-----------------------------------------------------------------------------
\* startLoop returns whichever thread is faster (two promises, Thread.cpp and
\* EventLoopThread.cpp), also if the loop has ended in between.
StartReturns == (creator = "pid") ~> (creator = "started")

\* "assert(loop_ != nullptr)" at the end of startLoop, and until the destructor.
StartLoopAssertion == (creator = "started" /\ ~userQuit) => loop_

\* The pointer that the destructor tests never outlives the loop on the worker's stack.
PointerValid == loop_ => alive

\* A call whose second half, the write of wakeup(), finds the loop gone.
CaughtByEnd == posterPc[Creator] = "wakeup" /\ ~alive

\* The loop that startLoop returned can be used until the destructor: it is there and
\* pointed to, and no call on it is overtaken by its end.  What breaks this is quit()
\* alone, which sets m_quit before it uses the loop again: user code's, or at last the
\* destructor's own (startLoop, threadFunc, queueInLoop, quit).
LoopUsable == /\ StartLoopAssertion /\ PointerValid
              /\ CaughtByEnd => userQuit \/ creator = "wakeup"

\* The destructor's join returns unless loop() has overwritten its quit().
JoinEnds == (creator = "join") ~> (creator = "gone" \/ ~m_quit)

\* quit() is overwritten only if loop() had not been reached when the destructor
\* called it ("m_quit = false", EventLoop::loop).
OnlyEarlyQuitLost == (creator = "join" /\ ~m_quit) => early

\* When the object is gone, so is the worker that uses its members, unless the user
\* ended the loop (then the destructor may find loop_ cleared and not join).
ThreadOutlived == (creator = "gone" /\ ~userQuit) => worker \in {"none", "ended"}

\* What a comment says of it: when the threads have been started, "each thread's loop
\* has begun to loop" (TcpServer::start).
LoopsWhenStarted == creator = "started" => worker \notin {"construct", "init", "signal", "enter"}
=============================================================================
