----------------------- MODULE EventLoopThread_proofs -----------------------
(***************************************************************************)
(* Proofs about EventLoopThread for every set of functors and bounds.      *)
(***************************************************************************)
EXTENDS EventLoopThread, SequenceTheorems, TLAPS

\* Where the worker is tells whether the loop exists and is pointed to.
LoopOnStack ==
  /\ alive <=> worker \in {"init", "signal", "enter", "looping", "destroy"}
  /\ loop_ <=> worker \in {"signal", "enter", "looping"}
  /\ pc # "idle" => worker = "looping"

\* The creator passes startLoop behind the worker's signal, and only quit() ends
\* loop().
Handshake ==
  /\ creator \in {"new", "pid", "wait", "started", "quit", "wakeup", "join", "gone"}
  /\ worker \in {"none", "created", "construct", "init", "signal", "enter", "looping",
                 "destroy", "ended"}
  /\ worker = "none" => creator \in {"new", "gone"}
  /\ worker = "created" => creator = "pid"
  /\ creator = "new" => worker = "none"
  /\ creator \in {"started", "quit", "wakeup", "join"} =>
       worker \in {"enter", "looping", "destroy", "ended"}
  /\ worker \in {"destroy", "ended"} => m_quit
  /\ worker = "looping" /\ pc = "idle" => m_quit
  /\ creator \in {"wakeup", "join"} /\ (worker = "enter" \/ ~m_quit) => early

\* Without a quit() of the user's the loop lives until the destructor's.
QuitByDestructor ==
  ~userQuit => /\ m_quit => creator \in {"wakeup", "join", "gone"}
               /\ creator = "gone" => worker \in {"none", "ended"}

\* A call between its two halves is the user's or the destructor's.
CallPending ==
  /\ posterPc \in [{Creator} -> {"idle", "wakeup"}]
  /\ posterPc[Creator] = "wakeup" => creator \in {"started", "wakeup"}

IInv == LoopOnStack /\ Handshake /\ QuitByDestructor /\ CallPending

\* A round of loop() leaves everything but the loop alone, and leaves loop() only
\* when it was told to quit.
LEMMA LoopStepKeeps ==
  ASSUME IInv, loopStep
  PROVE  IInv'
<1>1. /\ worker = "looping"
      /\ UNCHANGED <<alive, loop_, creator, worker, early, userQuit>>
      /\ Loop!LoopStep
  BY DEF loopStep
<1>2. m_quit' = m_quit /\ posterPc' = posterPc /\ (pc' = "idle" => m_quit)
  <2>1. CASE Loop!testQuit
    BY <2>1 DEF Loop!testQuit
  <2>2. CASE Loop!pollWakeup
    BY <2>2 DEF Loop!pollWakeup
  <2>3. CASE Loop!handleRead
    BY <2>3 DEF Loop!handleRead
  <2>4. CASE Loop!swapFunctors
    BY <2>4 DEF Loop!swapFunctors
  <2>5. CASE Loop!beginFunctor
    BY <2>5 DEF Loop!beginFunctor
  <2>6. CASE Loop!endFunctor
    BY <1>1, <2>6 DEF Loop!endFunctor, IInv, Handshake
  <2>7. CASE Loop!endPending
    BY <2>7 DEF Loop!endPending
  <2>. QED
    BY <1>1, <2>1, <2>2, <2>3, <2>4, <2>5, <2>6, <2>7 DEF Loop!LoopStep
<1>. QED  BY <1>1, <1>2 DEF IInv, LoopOnStack, Handshake, QuitByDestructor, CallPending

\* The steps of the worker outside loop().
LEMMA WorkerKeeps ==
  ASSUME IInv, WorkerStep
  PROVE  IInv'
<1> USE DEF IInv, LoopOnStack, Handshake, QuitByDestructor, CallPending, loopVars
<1>1. CASE setPid
  BY <1>1 DEF setPid
<1>2. CASE construct
  BY <1>2 DEF construct
<1>3. CASE publish
  BY <1>3 DEF publish
<1>4. CASE signal
  BY <1>4 DEF signal
<1>5. CASE enter
  BY <1>5 DEF enter, Loop!loop
<1>6. CASE clear
  BY <1>6 DEF clear
<1>7. CASE destroyLoop
  BY <1>7 DEF destroyLoop
<1>. QED
  BY <1>1, <1>2, <1>3, <1>4, <1>5, <1>6, <1>7, LoopStepKeeps DEF WorkerStep

\* The write to the eventfd changes nothing that the invariant speaks of.
LEMMA WakeupKeeps ==
  ASSUME wakeupLoop
  PROVE  pc' = pc /\ m_quit' = m_quit /\ posterPc' = [posterPc EXCEPT ![Creator] = "idle"]
BY DEF wakeupLoop, Poster, loopVarsButPoster, Loop!posterWakeup, Loop!queueVars

\* The steps of the creator: startLoop, its use of the loop, the destructor.
LEMMA CreatorKeeps ==
  ASSUME IInv, CreatorStep \/ start \/ destroy \/ useLoop
  PROVE  IInv'
<1> USE DEF IInv, LoopOnStack, Handshake, QuitByDestructor, CallPending, loopVars
<1>1. CASE getPid
  BY <1>1 DEF getPid
<1>2. CASE startReturns
  BY <1>2 DEF startReturns
<1>3. CASE useWakeup
  BY <1>3, WakeupKeeps DEF useWakeup
<1>4. CASE destroyQuit
  <2>1. CASE alive /\ Loop!quit(Creator)
    BY <1>4, <2>1 DEF destroyQuit, Loop!quit
  <2>2. CASE ~alive /\ Poster("wakeup") /\ UNCHANGED loopVarsButPoster
    BY <1>4, <2>2 DEF destroyQuit, Poster, loopVarsButPoster
  <2>. QED  BY <1>4, <2>1, <2>2 DEF destroyQuit, quitLoop
<1>5. CASE destroyWakeup
  BY <1>5, WakeupKeeps DEF destroyWakeup
<1>6. CASE joinReturns
  BY <1>6 DEF joinReturns
<1>7. CASE start
  BY <1>7 DEF start
<1>8. CASE destroy
  BY <1>8 DEF destroy
<1>9. CASE useLoop
  <2>1. CASE \E t \in Task : Loop!queueInLoop(Creator, t)
    BY <1>9, <2>1 DEF useLoop, Loop!queueInLoop
  <2>2. CASE Loop!quit(Creator) /\ userQuit' = TRUE
    BY <1>9, <2>2 DEF useLoop, Loop!quit
  <2>. QED  BY <1>9, <2>1, <2>2 DEF useLoop
<1>. QED
  BY <1>1, <1>2, <1>3, <1>4, <1>5, <1>6, <1>7, <1>8, <1>9 DEF CreatorStep

\* What the user's code does on the loop's thread.
LEMMA UserKeeps ==
  ASSUME IInv, initCallback \/ loopUser
  PROVE  IInv'
<1> USE DEF IInv, LoopOnStack, Handshake, QuitByDestructor, CallPending
<1>1. CASE initCallback
  <2>1. CASE \E t \in Task : Loop!ownerEnqueue(t)
    BY <1>1, <2>1 DEF initCallback, Loop!ownerEnqueue
  <2>2. CASE m_quit' = TRUE /\ userQuit' = TRUE /\ UNCHANGED <<pc, posterPc>>
    BY <1>1, <2>2 DEF initCallback
  <2>. QED  BY <1>1, <2>1, <2>2 DEF initCallback
<1>2. CASE loopUser
  <2>1. CASE Loop!pollOther
    BY <1>2, <2>1 DEF loopUser, Loop!pollOther
  <2>2. CASE \E t \in Task : Loop!ownerQueueInLoop(t)
    BY <1>2, <2>2 DEF loopUser, Loop!ownerQueueInLoop, Loop!ownerEnqueue
  <2>3. CASE Loop!ownerQuit /\ userQuit' = TRUE
    BY <1>2, <2>3 DEF loopUser, Loop!ownerQuit
  <2>. QED  BY <1>2, <2>1, <2>2, <2>3 DEF loopUser
<1>. QED  BY <1>1, <1>2

\* The invariant behind the results below.
THEOREM Inductive == Spec => []IInv
<1>1. Init => IInv
  BY DEF Init, Loop!Init, IInv, LoopOnStack, Handshake, QuitByDestructor, CallPending
<1>2. IInv /\ [Next]_vars => IInv'
  <2>1. CASE UNCHANGED vars
    BY <2>1 DEF vars, loopVars, IInv, LoopOnStack, Handshake, QuitByDestructor, CallPending
  <2>. QED  BY <2>1, WorkerKeeps, CreatorKeeps, UserKeeps DEF Next
<1>. QED  BY <1>1, <1>2, PTL DEF Spec

\* The destructor's quit() is lost only in the window before loop().
THEOREM OnlyEarlyQuitLostHolds == Spec => []OnlyEarlyQuitLost
<1>1. IInv => OnlyEarlyQuitLost
  BY DEF IInv, Handshake, OnlyEarlyQuitLost
<1>. QED  BY <1>1, Inductive, PTL

\* startLoop's assertion holds, the destructor's pointer is never stale and only a quit()
\* can be caught by the end of the loop it is called on.
THEOREM LoopUsableHolds == Spec => []LoopUsable
<1>1. IInv => LoopUsable
  BY DEF IInv, LoopOnStack, Handshake, QuitByDestructor, CallPending, LoopUsable,
         StartLoopAssertion, PointerValid, CaughtByEnd
<1>. QED  BY <1>1, Inductive, PTL

\* Unless the user ends the loop, the worker does not outlive the object.
THEOREM ThreadOutlivedHolds == Spec => []ThreadOutlived
<1>1. IInv => ThreadOutlived
  BY DEF IInv, QuitByDestructor, ThreadOutlived
<1>. QED  BY <1>1, Inductive, PTL-----------------------------------------------------------------------------
\* A cleared counter is a legal one.
LEMMA ZeroCounter == 0 \in 0 .. EventFdMax
BY LoopAssumption

\* The steps of the loop's own thread keep the loop's variables typed.
LEMMA LoopStepTypes ==
  ASSUME TypeOK, Loop!LoopStep \/ Loop!loop \/ Loop!pollOther \/ Loop!ownerQuit
  PROVE  Loop!TypeOK'
<1> USE DEF TypeOK, Loop!TypeOK, Loop!queueVars, Loop!wakeVars
<1>1. CASE Loop!testQuit
  BY <1>1 DEF Loop!testQuit
<1>2. CASE Loop!pollWakeup
  BY <1>2 DEF Loop!pollWakeup
<1>3. CASE Loop!handleRead
  BY <1>3, ZeroCounter DEF Loop!handleRead
<1>4. CASE Loop!swapFunctors
  BY <1>4, EmptySeq DEF Loop!swapFunctors
<1>5. CASE Loop!beginFunctor
  BY <1>5, HeadTailProperties DEF Loop!beginFunctor
<1>6. CASE Loop!endFunctor
  BY <1>6 DEF Loop!endFunctor
<1>7. CASE Loop!endPending
  BY <1>7 DEF Loop!endPending
<1>8. CASE Loop!loop
  BY <1>8 DEF Loop!loop
<1>9. CASE Loop!pollOther
  BY <1>9 DEF Loop!pollOther
<1>10. CASE Loop!ownerQuit
  BY <1>10 DEF Loop!ownerQuit
<1>. QED
  BY <1>1, <1>2, <1>3, <1>4, <1>5, <1>6, <1>7, <1>8, <1>9, <1>10 DEF Loop!LoopStep

\* So do queueInLoop and quit, on the loop's thread and on the creator's.
LEMMA CallTypes ==
  ASSUME TypeOK, \/ \E t \in Task : Loop!ownerEnqueue(t) \/ Loop!queueInLoop(Creator, t)
                 \/ Loop!quit(Creator) \/ Loop!posterWakeup(Creator)
  PROVE  Loop!TypeOK'
<1> USE DEF TypeOK, Loop!TypeOK, Loop!queueVars, Loop!wakeVars
<1>1. Loop!wakeup => eventfd' \in 0 .. EventFdMax
  BY LoopAssumption DEF Loop!wakeup
<1>2. ASSUME NEW t \in Task, Loop!enqueue(t) PROVE m_pendingFunctors' \in Seq(Task)
  BY <1>2, AppendProperties DEF Loop!enqueue
<1>3. ASSUME NEW t \in Task, Loop!ownerEnqueue(t) PROVE Loop!TypeOK'
  BY <1>1, <1>2, <1>3 DEF Loop!ownerEnqueue
<1>4. ASSUME NEW t \in Task, Loop!queueInLoop(Creator, t) PROVE Loop!TypeOK'
  BY <1>2, <1>4 DEF Loop!queueInLoop
<1>5. CASE Loop!quit(Creator)
  BY <1>5 DEF Loop!quit
<1>6. CASE Loop!posterWakeup(Creator)
  BY <1>1, <1>6 DEF Loop!posterWakeup
<1>. QED  BY <1>3, <1>4, <1>5, <1>6

\* And a call on a loop that is gone.
LEMMA GoneTypes ==
  ASSUME TypeOK, wakeupLoop \/ quitLoop
  PROVE  Loop!TypeOK'
<1>1. CASE alive
  BY <1>1, CallTypes DEF wakeupLoop, quitLoop
<1>2. CASE ~alive
  BY <1>2 DEF wakeupLoop, quitLoop, Poster, loopVarsButPoster, TypeOK, Loop!TypeOK
<1>. QED  BY <1>1, <1>2

\* The variables that are not the loop's.
OwnTypes ==
  /\ alive \in BOOLEAN /\ loop_ \in BOOLEAN /\ early \in BOOLEAN /\ userQuit \in BOOLEAN
  /\ creator \in {"new", "pid", "wait", "started", "quit", "wakeup", "join", "gone"}
  /\ worker \in {"none", "created", "construct", "init", "signal", "enter", "looping",
                 "destroy", "ended"}

\* The flags and places of the two threads.
LEMMA OwnKept ==
  ASSUME OwnTypes, [Next]_vars
  PROVE  OwnTypes'
<1> USE DEF OwnTypes
<1>1. CASE UNCHANGED vars
  BY <1>1 DEF vars
<1>2. CASE WorkerStep
  <2>1. CASE setPid
    BY <2>1 DEF setPid
  <2>2. CASE construct
    BY <2>2 DEF construct
  <2>3. CASE publish
    BY <2>3 DEF publish
  <2>4. CASE signal
    BY <2>4 DEF signal
  <2>5. CASE enter
    BY <2>5 DEF enter
  <2>6. CASE loopStep
    BY <2>6 DEF loopStep
  <2>7. CASE clear
    BY <2>7 DEF clear
  <2>8. CASE destroyLoop
    BY <2>8 DEF destroyLoop
  <2>. QED
    BY <1>2, <2>1, <2>2, <2>3, <2>4, <2>5, <2>6, <2>7, <2>8, Zenon DEF WorkerStep
<1>3. CASE CreatorStep
  <2>1. CASE getPid
    BY <2>1 DEF getPid
  <2>2. CASE startReturns
    BY <2>2 DEF startReturns
  <2>3. CASE useWakeup
    BY <2>3 DEF useWakeup
  <2>4. CASE destroyQuit
    BY <2>4 DEF destroyQuit
  <2>5. CASE destroyWakeup
    BY <2>5 DEF destroyWakeup
  <2>6. CASE joinReturns
    BY <2>6 DEF joinReturns
  <2>. QED  BY <1>3, <2>1, <2>2, <2>3, <2>4, <2>5, <2>6, Zenon DEF CreatorStep
<1>4. CASE start
  BY <1>4 DEF start
<1>5. CASE destroy
  BY <1>5 DEF destroy
<1>6. CASE useLoop
  BY <1>6 DEF useLoop
<1>7. CASE initCallback
  BY <1>7 DEF initCallback
<1>8. CASE loopUser
  BY <1>8 DEF loopUser
<1>. QED  BY <1>1, <1>2, <1>3, <1>4, <1>5, <1>6, <1>7, <1>8, Zenon DEF Next

\* The loop's variables, whoever takes the step.
LEMMA LoopKept ==
  ASSUME TypeOK, [Next]_vars
  PROVE  Loop!TypeOK'
<1>1. Loop!TypeOK
  BY DEF TypeOK
<1>2. ASSUME UNCHANGED loopVars PROVE Loop!TypeOK'
  BY <1>1, <1>2 DEF loopVars, Loop!TypeOK
<1>3. CASE \/ UNCHANGED vars \/ start \/ destroy \/ getPid \/ startReturns \/ joinReturns
           \/ setPid \/ construct \/ publish \/ signal \/ clear
  <2>1. UNCHANGED loopVars
    BY <1>3 DEF vars, start, destroy, getPid, startReturns, joinReturns, setPid, construct,
                publish, signal, clear
  <2>. QED  BY <1>2, <2>1
<1>4. CASE enter \/ loopStep
  BY <1>4, LoopStepTypes DEF enter, loopStep
<1>5. CASE loopUser
  <2>1. CASE Loop!pollOther \/ Loop!ownerQuit
    BY <2>1, LoopStepTypes
  <2>2. CASE \E t \in Task : Loop!ownerQueueInLoop(t)
    BY <2>2, CallTypes DEF Loop!ownerQueueInLoop
  <2>. QED  BY <1>5, <2>1, <2>2 DEF loopUser
<1>6. CASE useLoop
  BY <1>6, CallTypes DEF useLoop
<1>7. CASE useWakeup \/ destroyQuit \/ destroyWakeup
  BY <1>7, GoneTypes DEF useWakeup, destroyQuit, destroyWakeup
<1>8. CASE initCallback
  <2>1. CASE \E t \in Task : Loop!ownerEnqueue(t)
    BY <2>1, CallTypes
  <2>2. CASE m_quit' = TRUE /\ userQuit' = TRUE
             /\ UNCHANGED <<pc, m_callingPendingFunctors, m_pendingFunctors, funcs, cur,
                            eventfd, woken, posterPc>>
    BY <1>1, <2>2 DEF Loop!TypeOK
  <2>. QED  BY <1>8, <2>1, <2>2 DEF initCallback
<1>9. CASE destroyLoop
  <2>1. m_pendingFunctors' \in Seq(Task)
    BY <1>9, EmptySeq DEF destroyLoop
  <2>2. eventfd' \in 0 .. EventFdMax
    BY <1>9, ZeroCounter DEF destroyLoop
  <2>3. UNCHANGED <<pc, m_quit, m_callingPendingFunctors, funcs, cur, woken, posterPc>>
    BY <1>9 DEF destroyLoop
  <2>. QED  BY <1>1, <2>1, <2>2, <2>3 DEF Loop!TypeOK
<1>. QED
  BY <1>3, <1>4, <1>5, <1>6, <1>7, <1>8, <1>9, Zenon DEF Next, WorkerStep, CreatorStep

\* Every variable of the two threads and of the loop keeps its type.
THEOREM TypeCorrect == Spec => []TypeOK
<1>1. Init => TypeOK
  BY EmptySeq, ZeroCounter DEF Init, TypeOK, Loop!Init, Loop!TypeOK
<1>2. TypeOK /\ [Next]_vars => TypeOK'
  <2>1. TypeOK <=> Loop!TypeOK /\ OwnTypes
    BY Zenon DEF TypeOK, OwnTypes
  <2>2. TypeOK' <=> Loop!TypeOK' /\ OwnTypes'
    BY Zenon DEF TypeOK, OwnTypes
  <2>. QED  BY <2>1, <2>2, OwnKept, LoopKept
<1>. QED  BY <1>1, <1>2, PTL DEF Spec
=============================================================================
