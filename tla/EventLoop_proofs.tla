-------------------------- MODULE EventLoop_proofs --------------------------
(***************************************************************************)
(* Proofs about EventLoop for every set of functors and threads.           *)
(***************************************************************************)
EXTENDS EventLoop, SequenceTheorems, TLAPS

\* enqueue and wakeup keep their variables typed (queueInLoop, wakeup).
LEMMA HelperTypes ==
  ASSUME TypeOK
  PROVE  /\ \A t \in Task : enqueue(t) => /\ m_pendingFunctors' \in Seq(Task)
                                          /\ m_pendingFunctors' # << >>
         /\ wakeup => eventfd' \in 0 .. EventFdMax /\ eventfd' > 0
<1>1. \A t \in Task : enqueue(t) => /\ m_pendingFunctors' \in Seq(Task)
                                    /\ m_pendingFunctors' # << >>
  BY AppendProperties DEF TypeOK, enqueue
<1>2. wakeup => eventfd' \in 0 .. EventFdMax /\ eventfd' > 0
  BY EventFdAssumption DEF TypeOK, wakeup
<1>. QED  BY <1>1, <1>2

\* A cleared counter is a legal one (handleRead).
LEMMA ZeroCounter == 0 \in 0 .. EventFdMax
BY EventFdAssumption

\* Every variable of the loop keeps its type, the eventfd counter its limit.
THEOREM TypeCorrect == Spec => []TypeOK
<1>1. Init => TypeOK
  BY ZeroCounter, EmptySeq DEF Init, TypeOK
<1>2. TypeOK /\ [Next]_vars => TypeOK'
  <2> SUFFICES ASSUME TypeOK, [Next]_vars
               PROVE  TypeOK'
    OBVIOUS
  <2>1. CASE loop
    BY <2>1 DEF TypeOK, loop, queueVars, wakeVars
  <2>2. CASE testQuit
    BY <2>2 DEF TypeOK, testQuit, queueVars, wakeVars
  <2>3. CASE pollWakeup
    BY <2>3 DEF TypeOK, pollWakeup, queueVars
  <2>4. CASE pollOther
    BY <2>4 DEF TypeOK, pollOther, queueVars, wakeVars
  <2>5. CASE handleRead
    BY <2>5, ZeroCounter DEF TypeOK, handleRead, queueVars
  <2>6. CASE swapFunctors
    BY <2>6, EmptySeq DEF TypeOK, swapFunctors, wakeVars
  <2>7. CASE beginFunctor
    BY <2>7, HeadTailProperties DEF TypeOK, beginFunctor, wakeVars
  <2>8. CASE endFunctor
    BY <2>8 DEF TypeOK, endFunctor, wakeVars
  <2>9. CASE endPending
    BY <2>9 DEF TypeOK, endPending, wakeVars
  <2>10. CASE ownerQuit
    BY <2>10 DEF TypeOK, ownerQuit, queueVars, wakeVars
  <2>11. ASSUME NEW t \in Task, ownerQueueInLoop(t)
         PROVE  TypeOK'
    BY <2>11, HelperTypes DEF TypeOK, ownerQueueInLoop, ownerEnqueue
  <2>12. ASSUME NEW p \in Poster, quit(p)
         PROVE  TypeOK'
    BY <2>12 DEF TypeOK, quit, queueVars, wakeVars
  <2>13. ASSUME NEW p \in Poster, posterWakeup(p)
         PROVE  TypeOK'
    BY <2>13, HelperTypes DEF TypeOK, posterWakeup, queueVars
  <2>14. ASSUME NEW p \in Poster, NEW t \in Task, queueInLoop(p, t)
         PROVE  TypeOK'
    BY <2>14, HelperTypes DEF TypeOK, queueInLoop, wakeVars
  <2>15. CASE UNCHANGED vars
    BY <2>15 DEF TypeOK, vars
  <2>. QED
    BY <2>1, <2>2, <2>3, <2>4, <2>5, <2>6, <2>7, <2>8, <2>9, <2>10, <2>11, <2>12,
       <2>13, <2>14, <2>15 DEF Next, LoopStep
<1>. QED  BY <1>1, <1>2, PTL DEF Spec
-----------------------------------------------------------------------------
\* m_callingPendingFunctors is raised exactly while a batch is run.
THEOREM BatchShapeHolds == Spec => []BatchShape
<1>1. Init => BatchShape
  BY DEF Init, BatchShape
<1>2. TypeOK /\ BatchShape /\ [Next]_vars => BatchShape'
  <2> SUFFICES ASSUME TypeOK, BatchShape, [Next]_vars
               PROVE  BatchShape'
    OBVIOUS
  <2> USE DEF TypeOK, BatchShape
  <2>1. CASE loop
    BY <2>1 DEF loop, queueVars, wakeVars
  <2>2. CASE testQuit
    BY <2>2 DEF testQuit, queueVars, wakeVars
  <2>3. CASE pollWakeup
    BY <2>3 DEF pollWakeup, queueVars
  <2>4. CASE pollOther
    BY <2>4 DEF pollOther, queueVars, wakeVars
  <2>5. CASE handleRead
    BY <2>5 DEF handleRead, queueVars
  <2>6. CASE swapFunctors
    BY <2>6 DEF swapFunctors, wakeVars
  <2>7. CASE beginFunctor
    BY <2>7 DEF beginFunctor, wakeVars
  <2>8. CASE endFunctor
    BY <2>8 DEF endFunctor, wakeVars
  <2>9. CASE endPending
    BY <2>9 DEF endPending, wakeVars
  <2>10. CASE ownerQuit
    BY <2>10 DEF ownerQuit, queueVars, wakeVars
  <2>11. ASSUME NEW t \in Task, ownerQueueInLoop(t)
         PROVE  BatchShape'
    BY <2>11 DEF ownerQueueInLoop, ownerEnqueue
  <2>12. ASSUME NEW p \in Poster, quit(p)
         PROVE  BatchShape'
    BY <2>12 DEF quit, queueVars, wakeVars
  <2>13. ASSUME NEW p \in Poster, posterWakeup(p)
         PROVE  BatchShape'
    BY <2>13 DEF posterWakeup, queueVars
  <2>14. ASSUME NEW p \in Poster, NEW t \in Task, queueInLoop(p, t)
         PROVE  BatchShape'
    BY <2>14 DEF queueInLoop, wakeVars
  <2>15. CASE UNCHANGED vars
    BY <2>15 DEF vars
  <2>. QED
    BY <2>1, <2>2, <2>3, <2>4, <2>5, <2>6, <2>7, <2>8, <2>9, <2>10, <2>11, <2>12,
       <2>13, <2>14, <2>15 DEF Next, LoopStep
<1>. QED  BY <1>1, <1>2, TypeCorrect, PTL DEF Spec
-----------------------------------------------------------------------------
\* WakeupKept: a functor queued by any thread, and a quit() seen by a sleeping
\* loop, has its wakeup; handleRead may take it only because the swap follows.
THEOREM WakeupKeptHolds == Spec => []WakeupKept
<1>1. Init => WakeupKept
  BY DEF Init, WakeupKept
<1>2. TypeOK /\ BatchShape /\ WakeupKept /\ [Next]_vars => WakeupKept'
  <2> SUFFICES ASSUME TypeOK, BatchShape, WakeupKept, [Next]_vars
               PROVE  WakeupKept'
    OBVIOUS
  <2> USE DEF WakeupKept, WakeupOnItsWay
  <2>1. CASE loop
    BY <2>1 DEF loop, queueVars, wakeVars
  <2>2. CASE testQuit
    BY <2>2 DEF testQuit, queueVars, wakeVars
  <2>3. CASE pollWakeup
    BY <2>3 DEF pollWakeup, queueVars
  <2>4. CASE pollOther
    BY <2>4 DEF pollOther, queueVars, wakeVars
  <2>5. CASE handleRead
    BY <2>5 DEF handleRead, queueVars
  <2>6. CASE swapFunctors
    BY <2>6 DEF swapFunctors, wakeVars
  <2>7. CASE beginFunctor
    BY <2>7 DEF beginFunctor, wakeVars
  <2>8. CASE endFunctor
    BY <2>8 DEF endFunctor, wakeVars
  <2>9. CASE endPending
    BY <2>9 DEF endPending, wakeVars
  <2>10. CASE ownerQuit
    <3>1. pc # "poll"
      BY <2>10 DEF ownerQuit, InUserCode, BatchShape
    <3>. QED  BY <2>10, <3>1 DEF ownerQuit, queueVars, wakeVars
  <2>11. ASSUME NEW t \in Task, ownerQueueInLoop(t)
         PROVE  WakeupKept'
    <3>1. CASE pc = "handle"
      BY <2>11, <3>1 DEF ownerQueueInLoop, ownerEnqueue
    <3>2. CASE cur # NoTask
      <4>1. pc = "run" /\ m_callingPendingFunctors
        BY <3>2 DEF BatchShape
      <4>2. eventfd' > 0
        BY <2>11, <4>1, HelperTypes DEF ownerQueueInLoop, ownerEnqueue
      <4>. QED  BY <4>2
    <3>. QED  BY <2>11, <3>1, <3>2 DEF ownerQueueInLoop, InUserCode
  <2>12. ASSUME NEW p \in Poster, quit(p)
         PROVE  WakeupKept'
    <3>1. posterPc'[p] = "wakeup"
      BY <2>12 DEF quit, TypeOK
    <3>. QED  BY <3>1
  <2>13. ASSUME NEW p \in Poster, posterWakeup(p)
         PROVE  WakeupKept'
    <3>1. eventfd' > 0
      BY <2>13, HelperTypes DEF posterWakeup
    <3>. QED  BY <3>1
  <2>14. ASSUME NEW p \in Poster, NEW t \in Task, queueInLoop(p, t)
         PROVE  WakeupKept'
    <3>1. posterPc'[p] = "wakeup"
      BY <2>14 DEF queueInLoop, TypeOK
    <3>. QED  BY <3>1
  <2>15. CASE UNCHANGED vars
    BY <2>15 DEF vars
  <2>. QED
    BY <2>1, <2>2, <2>3, <2>4, <2>5, <2>6, <2>7, <2>8, <2>9, <2>10, <2>11, <2>12,
       <2>13, <2>14, <2>15 DEF Next, LoopStep
<1>. QED  BY <1>1, <1>2, TypeCorrect, BatchShapeHolds, PTL DEF Spec

\* No thread of any number of threads can leave the loop asleep on a queued
\* functor or on a quit() (queueInLoop, quit, loop, handleRead).
THEOREM NoLostWakeupHolds == Spec => []NoLostWakeup
<1>1. WakeupKept => NoLostWakeup
  BY DEF WakeupKept, NoLostWakeup
<1>. QED  BY <1>1, WakeupKeptHolds, PTL
-----------------------------------------------------------------------------
\* Queueing behind a batch, and taking from its front, seen from outside.
LEMMA WaitingQueue ==
  ASSUME NEW f \in Seq(Task), NEW q \in Seq(Task), NEW t \in Task
  PROVE  /\ f \o Append(q, t) = Append(f \o q, t)
         /\ << >> \o q = q \o << >>
         /\ f # << >> => /\ f \o q # << >>
                         /\ Head(f \o q) = Head(f)
                         /\ Tail(f \o q) = Tail(f) \o q
<1>1. f \o Append(q, t) = Append(f \o q, t)
  BY AppendIsConcat, ConcatAssociative, ConcatProperties
<1>2. << >> \o q = q \o << >>
  BY ConcatEmptySeq
<1>3. ASSUME f # << >>
      PROVE  /\ f \o q # << >>
             /\ Head(f \o q) = Head(f)
             /\ Tail(f \o q) = Tail(f) \o q
  <2>1. /\ Len(f) \in Nat \ {0}
        /\ Len(q) \in Nat
        /\ f \o q \in Seq(Task)
        /\ Len(f \o q) = Len(f) + Len(q)
        /\ \A i \in 1 .. Len(f) + Len(q) :
             (f \o q)[i] = IF i <= Len(f) THEN f[i] ELSE q[i - Len(f)]
    BY <1>3, EmptySeq, ConcatProperties
  <2>2. f \o q # << >>
    BY <2>1
  <2>3. Head(f \o q) = Head(f)
    BY <2>1, <2>2
  <2>4. /\ Tail(f) \in Seq(Task)
        /\ Len(Tail(f)) = Len(f) - 1
        /\ \A i \in 1 .. Len(Tail(f)) : Tail(f)[i] = f[i + 1]
    BY <1>3, HeadTailProperties
  <2>5. /\ Tail(f \o q) \in Seq(Task)
        /\ Len(Tail(f \o q)) = Len(f \o q) - 1
        /\ \A i \in 1 .. Len(Tail(f \o q)) : Tail(f \o q)[i] = (f \o q)[i + 1]
    BY <2>1, <2>2, HeadTailProperties
  <2>6. /\ Tail(f) \o q \in Seq(Task)
        /\ Len(Tail(f) \o q) = Len(Tail(f)) + Len(q)
        /\ \A i \in 1 .. Len(Tail(f)) + Len(q) :
             (Tail(f) \o q)[i] = IF i <= Len(Tail(f)) THEN Tail(f)[i]
                                                      ELSE q[i - Len(Tail(f))]
    BY <2>4, ConcatProperties
  <2>7. Len(Tail(f \o q)) = Len(Tail(f) \o q)
    BY <2>1, <2>4, <2>5, <2>6
  <2>8. ASSUME NEW i \in 1 .. Len(Tail(f \o q))
        PROVE  Tail(f \o q)[i] = (Tail(f) \o q)[i]
    BY <2>1, <2>4, <2>5, <2>6
  <2>9. Tail(f \o q) = Tail(f) \o q
    BY <2>5, <2>6, <2>7, <2>8, SeqEqual
  <2>. QED  BY <2>2, <2>3, <2>9
<1>. QED  BY <1>1, <1>2, <1>3

\* EventLoop implements TaskQueue: every step that touches the queue, the batch or
\* the running functor is a Submit, Begin or End of the FIFO; the swap is invisible.
THEOREM ImplementsTaskQueue == Spec => FifoService
<1>1. Init => Tasks!Init
  BY ConcatEmptySeq, EmptySeq DEF Init, Tasks!Init, waiting
<1>2. TypeOK /\ BatchShape /\ [Next]_vars => [Tasks!Next]_(Tasks!vars)
  <2> SUFFICES ASSUME TypeOK, BatchShape, [Next]_vars
               PROVE  [Tasks!Next]_(Tasks!vars)
    OBVIOUS
  <2>1. ASSUME UNCHANGED queueVars
        PROVE  UNCHANGED Tasks!vars
    BY <2>1 DEF queueVars, Tasks!vars, waiting
  <2>2. CASE loop \/ testQuit \/ pollWakeup \/ pollOther \/ handleRead \/ ownerQuit
    BY <2>1, <2>2 DEF loop, testQuit, pollWakeup, pollOther, handleRead, ownerQuit
  <2>3. CASE swapFunctors
    <3>1. funcs = << >> /\ m_pendingFunctors \in Seq(Task)
      BY <2>3 DEF TypeOK, BatchShape, swapFunctors
    <3>2. waiting' = waiting
      BY <2>3, <3>1, ConcatEmptySeq DEF swapFunctors, waiting
    <3>. QED  BY <2>3, <3>2 DEF swapFunctors, Tasks!vars
  <2>4. CASE beginFunctor
    <3>1. funcs \in Seq(Task) /\ m_pendingFunctors \in Seq(Task) /\ funcs # << >>
      BY <2>4 DEF TypeOK, beginFunctor
    <3>2. Head(funcs) \in Task
      BY <3>1, HeadTailProperties
    <3>3. /\ waiting # << >>
          /\ Head(waiting) = Head(funcs)
          /\ Tail(waiting) = Tail(funcs) \o m_pendingFunctors
      BY <3>1, <3>2, WaitingQueue DEF waiting
    <3>4. Tasks!Begin
      BY <2>4, <3>3 DEF beginFunctor, Tasks!Begin, waiting
    <3>. QED  BY <3>4 DEF Tasks!Next
  <2>5. CASE endFunctor
    <3>1. Tasks!End
      BY <2>5 DEF endFunctor, Tasks!End, waiting
    <3>. QED  BY <3>1 DEF Tasks!Next
  <2>6. CASE endPending
    BY <2>6 DEF endPending, Tasks!vars, waiting
  <2>7. ASSUME NEW t \in Task, enqueue(t), UNCHANGED <<funcs, cur>>
        PROVE  Tasks!Next
    <3>1. funcs \in Seq(Task) /\ m_pendingFunctors \in Seq(Task)
      BY DEF TypeOK
    <3>2. waiting' = Append(waiting, t)
      BY <2>7, <3>1, WaitingQueue DEF enqueue, waiting
    <3>3. Tasks!Submit(t)
      BY <2>7, <3>2 DEF Tasks!Submit
    <3>. QED  BY <3>3 DEF Tasks!Next
  <2>8. ASSUME NEW t \in Task, ownerQueueInLoop(t)
        PROVE  Tasks!Next
    BY <2>7, <2>8 DEF ownerQueueInLoop, ownerEnqueue
  <2>9. ASSUME NEW p \in Poster, quit(p) \/ posterWakeup(p)
        PROVE  UNCHANGED Tasks!vars
    BY <2>1, <2>9 DEF quit, posterWakeup
  <2>10. ASSUME NEW p \in Poster, NEW t \in Task, queueInLoop(p, t)
         PROVE  Tasks!Next
    BY <2>7, <2>10 DEF queueInLoop
  <2>11. CASE UNCHANGED vars
    BY <2>1, <2>11 DEF vars, queueVars
  <2>. QED
    BY <2>2, <2>3, <2>4, <2>5, <2>6, <2>8, <2>9, <2>10, <2>11 DEF Next, LoopStep
<1>. QED
  BY <1>1, <1>2, TypeCorrect, BatchShapeHolds, PTL DEF Spec, FifoService, Tasks!Spec
=============================================================================
