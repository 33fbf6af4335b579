--------------------- MODULE EventLoopThreadPool_proofs ---------------------
(***************************************************************************)
(* Proofs about EventLoopThreadPool for every number of threads.           *)
(***************************************************************************)
EXTENDS EventLoopThreadPool, SequenceTheorems, TLAPS

\* After start loops_ lists the base loop and the io loops in their order.
Started == /\ loops_ = [i \in 1 .. Len(loops_) |-> i - 1]
           /\ Len(loops_) \in 1 .. MaxThreads + 1

\* Each io loop before the one whose turn it is has been served once more than the
\* others; the loops that do not exist, and the base loop beside others, never.
Rounds == /\ \E q \in Nat : \A i \in IoLoops : served[i] = IF i < turn THEN q + 1 ELSE q
          /\ BaseOnlyAccepts

IInv == /\ TypeOK
        /\ PositionInRange
        /\ IF loops_ = << >> THEN next_ = 0 /\ served = [l \in LoopId |-> 0]
                             ELSE Started /\ Rounds

\* The remainder of a number by one that is not smaller, as the wrap uses it.
LEMMA Wrap ==
  ASSUME NEW m \in Nat, NEW n \in Nat \ {0}, m <= n
  PROVE  m % n = IF m = n THEN 0 ELSE m
OBVIOUS

\* What start makes of loops_: base loop first, then the threads' loops.
LEMMA StartKeeps ==
  ASSUME IInv, start
  PROVE  IInv'
<1> DEFINE n == numThreads_ + 1
<1>1. /\ loops_ = << >> /\ next_ = 0 /\ served = [l \in LoopId |-> 0]
      /\ n \in 1 .. MaxThreads + 1 /\ MaxThreads \in Nat
      /\ \A i \in 1 .. n : i - 1 \in LoopId
  BY BoundAssumption DEF IInv, TypeOK, start, LoopId
<1>2. /\ loops_' \in Seq(LoopId) /\ Len(loops_') = n
      /\ loops_' = [i \in 1 .. Len(loops_') |-> i - 1]
  BY <1>1 DEF start
<1>3. next_' = 0 /\ served' = [l \in LoopId |-> 0] /\ numThreads_' = numThreads_
  BY <1>1 DEF start
<1>4. loops_' # << >> /\ Started'
  BY <1>1, <1>2, EmptySeq DEF Started
<1>5. 0 \in LoopId /\ \A i \in IoLoops' : i \in LoopId
  BY <1>1, <1>2 DEF LoopId, IoLoops
<1>6. BaseOnlyAccepts'
  BY <1>3, <1>5 DEF BaseOnlyAccepts
<1>7. turn' = 1
  BY <1>3 DEF turn
<1>8. \A i \in IoLoops' : served'[i] = IF i < turn' THEN 0 + 1 ELSE 0
  BY <1>2, <1>3, <1>5, <1>7 DEF IoLoops
<1>9. Rounds'
  BY <1>6, <1>8 DEF Rounds
<1>10. TypeOK' /\ PositionInRange'
  BY <1>1, <1>2, <1>3 DEF IInv, TypeOK, PositionInRange
<1>. QED  BY <1>4, <1>9, <1>10 DEF IInv

\* getNextLoop moves the turn on by one and begins a round after the last loop.
LEMMA GetNextLoopKeeps ==
  ASSUME IInv, getNextLoop
  PROVE  IInv'
<1>1. /\ loops_ # << >> /\ loops_' = loops_ /\ numThreads_' = numThreads_
      /\ Started /\ Rounds /\ TypeOK /\ PositionInRange
  BY DEF IInv, getNextLoop
<1>2. PICK N \in 0 .. MaxThreads : Len(loops_) = N + 1
  <2>1. Len(loops_) - 1 \in 0 .. MaxThreads /\ Len(loops_) = (Len(loops_) - 1) + 1
    BY <1>1, BoundAssumption DEF Started
  <2>. QED  BY <2>1
<1>3. Started' /\ loops_' # << >> /\ N \in Nat /\ next_ \in 0 .. N
  BY <1>1, <1>2, BoundAssumption DEF Started, TypeOK, PositionInRange
<1>4. IoLoops = 1 .. N /\ IoLoops' = IoLoops
  BY <1>1, <1>2, <1>3 DEF IoLoops
<1>5. 0 \in LoopId /\ served \in [LoopId -> Nat] /\ IoLoops \subseteq LoopId
  BY <1>1, <1>2, <1>3, <1>4, BoundAssumption DEF LoopId, TypeOK
<1>6. CASE N = 0
  <2>1. next_ = 0 /\ Len(loops_) = 1
    BY <1>2, <1>3, <1>6
  <2>2. served' = [served EXCEPT ![0] = @ + 1] /\ next_' = next_
    BY <2>1 DEF getNextLoop, nextLoop, advance
  <2>3. TypeOK' /\ PositionInRange'
    BY <1>1, <1>5, <2>1, <2>2 DEF TypeOK, PositionInRange
  <2>4. \A i : i \notin IoLoops
    BY <1>4, <1>6
  <2>5. BaseOnlyAccepts'
    BY <1>1, <1>4, <1>5, <2>1, <2>2, <2>4 DEF Rounds, BaseOnlyAccepts
  <2>6. Rounds'
    BY <1>4, <2>4, <2>5 DEF Rounds
  <2>. QED  BY <1>3, <2>3, <2>6 DEF IInv
<1>7. CASE N # 0
  <2>1. turn \in 1 .. N
    BY <1>3, <1>7 DEF turn
  <2>2. /\ next_' = (turn + 1) % (N + 1)
        /\ served' = [served EXCEPT ![loops_[turn + 1]] = @ + 1]
    <3>1. Len(loops_) # 1
      BY <1>2, <1>3, <1>7
    <3>. QED  BY <1>2, <3>1 DEF getNextLoop, nextLoop, advance
  <2>3. served' = [served EXCEPT ![turn] = @ + 1]
    <3>1. turn + 1 \in 1 .. Len(loops_)
      BY <1>2, <1>3, <2>1
    <3>2. loops_[turn + 1] = (turn + 1) - 1
      BY <1>1, <3>1 DEF Started
    <3>3. loops_[turn + 1] = turn
      BY <1>3, <2>1, <3>2
    <3>. QED  BY <2>2, <3>3
  <2>4. next_' = IF turn = N THEN 0 ELSE turn + 1
    <3>1. /\ turn + 1 \in Nat /\ N + 1 \in Nat \ {0} /\ turn + 1 <= N + 1
          /\ turn + 1 = N + 1 <=> turn = N
      BY <1>3, <2>1
    <3>. QED  BY <2>2, <3>1, Wrap
  <2>5. TypeOK' /\ PositionInRange'
    <3>1. next_' \in 0 .. N
      BY <1>3, <2>1, <2>4
    <3>2. served' \in [LoopId -> Nat]
      BY <1>4, <1>5, <2>1, <2>3
    <3>. QED  BY <1>1, <1>2, <1>3, <3>1, <3>2 DEF TypeOK, PositionInRange
  <2>6. BaseOnlyAccepts'
    BY <1>1, <1>3, <1>4, <1>5, <2>1, <2>3 DEF Rounds, BaseOnlyAccepts
  <2>7. PICK q \in Nat : \A i \in IoLoops : served[i] = IF i < turn THEN q + 1 ELSE q
    BY <1>1 DEF Rounds
  <2>8. CASE turn = N
    <3>1. turn' = 1
      BY <2>4, <2>8 DEF turn
    <3>2. \A i \in IoLoops' : served'[i] = IF i < turn' THEN (q + 1) + 1 ELSE q + 1
      BY <1>3, <1>4, <1>5, <2>3, <2>7, <2>8, <3>1
    <3>. QED  BY <1>3, <2>5, <2>6, <3>2 DEF IInv, Rounds
  <2>9. CASE turn # N
    <3>1. turn' = turn + 1
      <4>1. next_' = turn + 1 /\ turn + 1 # 0
        BY <1>3, <2>1, <2>4, <2>9
      <4>. QED  BY <4>1 DEF turn
    <3>2. \A i \in IoLoops' : served'[i] = IF i < turn' THEN q + 1 ELSE q
      BY <1>3, <1>4, <1>5, <2>1, <2>3, <2>7, <3>1
    <3>. QED  BY <1>3, <2>5, <2>6, <3>2 DEF IInv, Rounds
  <2>. QED  BY <2>8, <2>9
<1>. QED  BY <1>6, <1>7

\* Steps that leave loops_, next_ and served alone.
LEMMA PoolUnchanged == ASSUME IInv, UNCHANGED vars PROVE IInv'
BY DEF vars, IInv, TypeOK, PositionInRange, Started, Rounds, BaseOnlyAccepts, IoLoops, turn

\* setThreadNum at any time.
LEMMA SetThreadNumKeeps ==
  ASSUME IInv, NEW n \in 0 .. MaxThreads, setThreadNum(n)
  PROVE  IInv'
BY DEF setThreadNum, IInv, TypeOK, PositionInRange, Started, Rounds, BaseOnlyAccepts, IoLoops, turn

\* A pool that was just built.
LEMMA PoolInit == Init => IInv
BY BoundAssumption, EmptySeq DEF Init, IInv, TypeOK, PositionInRange, LoopId

\* The invariant behind the result below.
THEOREM Inductive == Spec => []IInv
<1>1. IInv /\ [Next]_vars => IInv'
  BY StartKeeps, GetNextLoopKeeps, SetThreadNumKeeps, PoolUnchanged DEF Next
<1>. QED  BY <1>1, PoolInit, PTL DEF Spec

\* The invariant says that connections are dealt out evenly.
LEMMA RoundRobinOf == IInv => RoundRobin
<1>1. IInv => Balanced
  <2> SUFFICES ASSUME IInv, loops_ # << >>, NEW i \in IoLoops, NEW j \in IoLoops
               PROVE  served[i] <= served[j] + 1
    BY EmptySeq DEF Balanced, IoLoops
  <2>1. PICK q \in Nat : \A k \in IoLoops : served[k] = IF k < turn THEN q + 1 ELSE q
    BY DEF IInv, Rounds
  <2>. QED  BY <2>1
<1>2. IInv => BaseOnlyAccepts
  BY EmptySeq, BoundAssumption DEF IInv, Rounds, BaseOnlyAccepts, LoopId, IoLoops
<1>. QED  BY <1>1, <1>2 DEF IInv, RoundRobin

\* getNextLoop deals connections out evenly over any number of io loops, never leaves
\* loops_, and gives none to the base loop of a pool with threads.
THEOREM RoundRobinHolds == Spec => []RoundRobin
BY RoundRobinOf, Inductive, PTL
=============================================================================
