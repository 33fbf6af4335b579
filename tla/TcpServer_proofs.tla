-------------------------- MODULE TcpServer_proofs --------------------------
(***************************************************************************)
(* Proofs about TcpServer for any number of loops, connections, clients    *)
(* and sends: the chain of owners.  The pool's part of the state is proved *)
(* in EventLoopThreadPool_proofs, whose lemmas are used here.              *)
(***************************************************************************)
EXTENDS TcpServer, EventLoopThreadPool_proofs

\* The functors of a queue.
Elems(q) == {q[i] : i \in 1 .. Len(q)}

\* A push adds its functor.
LEMMA ElemsAppend ==
  ASSUME NEW q \in Seq(Functor), NEW e \in Functor
  PROVE  Append(q, e) \in Seq(Functor) /\ Elems(Append(q, e)) = Elems(q) \cup {e}
<1> DEFINE a == Append(q, e)
<1>1. /\ a \in Seq(Functor) /\ Len(a) = Len(q) + 1 /\ Len(q) \in Nat
      /\ a[Len(q) + 1] = e /\ \A i \in 1 .. Len(q) : a[i] = q[i]
  OBVIOUS
<1>2. 1 .. Len(a) = 1 .. Len(q) \cup {Len(q) + 1}
  BY <1>1
<1>. QED  BY <1>1, <1>2 DEF Elems

\* A pop takes away the first.
LEMMA ElemsTail ==
  ASSUME NEW q \in Seq(Functor), q # << >>
  PROVE  /\ Head(q) \in Functor /\ Tail(q) \in Seq(Functor)
         /\ Elems(q) = {Head(q)} \cup Elems(Tail(q))
<1> DEFINE t == Tail(q)
<1>1. /\ t \in Seq(Functor) /\ Len(t) = Len(q) - 1 /\ Len(q) \in Nat /\ Len(q) # 0
      /\ Head(q) = q[1] /\ Head(q) \in Functor
      /\ \A i \in 1 .. Len(t) : t[i] = q[i + 1]
  OBVIOUS
<1>2. \A i \in 2 .. Len(q) : i - 1 \in 1 .. Len(t) /\ t[i - 1] = q[i]
  BY <1>1
<1>3. \A x \in Elems(q) : x = Head(q) \/ x \in Elems(t)
  <2> TAKE x \in Elems(q)
  <2>1. PICK i \in 1 .. Len(q) : x = q[i]
    BY DEF Elems
  <2>2. i = 1 \/ i \in 2 .. Len(q)
    BY <1>1
  <2>. QED  BY <1>1, <1>2, <2>1, <2>2 DEF Elems
<1>4. \A x \in Elems(t) : x \in Elems(q)
  <2> TAKE x \in Elems(t)
  <2>1. PICK i \in 1 .. Len(t) : x = t[i]
    BY DEF Elems
  <2>2. i + 1 \in 1 .. Len(q) /\ x = q[i + 1]
    BY <1>1, <2>1
  <2>. QED  BY <2>2 DEF Elems
<1>5. Head(q) \in Elems(q)
  BY <1>1 DEF Elems
<1>. QED  BY <1>1, <1>3, <1>4, <1>5

\* An empty queue has none.
LEMMA ElemsEmpty == Elems(<< >>) = {} /\ << >> \in Seq(Functor)
BY DEF Elems

\* Functors are what their type says.
LEMMA ElemsIn == \A q \in Seq(Functor) : Elems(q) \subseteq Functor
BY DEF Elems
-----------------------------------------------------------------------------
\* In a queue connectEstablished comes before everything else about its connection.
EstFirst(q) == \A i, j \in 1 .. Len(q) :
                 (i < j /\ q[j].run = "connectEstablished") => q[i].conn # q[j].conn

\* A push keeps the order if connectEstablished is pushed before all else.
LEMMA EstFirstAppend ==
  ASSUME NEW q \in Seq(Functor), NEW e \in Functor, EstFirst(q),
         e.run = "connectEstablished" => \A x \in Elems(q) : x.conn # e.conn
  PROVE  EstFirst(Append(q, e))
<1> DEFINE a == Append(q, e)
<1>1. /\ Len(a) = Len(q) + 1 /\ Len(q) \in Nat
      /\ a[Len(q) + 1] = e /\ \A i \in 1 .. Len(q) : a[i] = q[i]
  OBVIOUS
<1> SUFFICES ASSUME NEW i \in 1 .. Len(a), NEW j \in 1 .. Len(a), i < j,
                    a[j].run = "connectEstablished"
             PROVE  a[i].conn # a[j].conn
  BY DEF EstFirst
<1>2. i \in 1 .. Len(q) /\ a[i] = q[i]
  BY <1>1
<1>3. CASE j = Len(q) + 1
  BY <1>1, <1>2, <1>3 DEF Elems
<1>4. CASE j # Len(q) + 1
  <2>1. j \in 1 .. Len(q) /\ a[j] = q[j]
    BY <1>1, <1>4
  <2>. QED  BY <1>2, <2>1 DEF EstFirst
<1>. QED  BY <1>3, <1>4

\* After a pop no connectEstablished of the same connection is left.
LEMMA EstFirstTail ==
  ASSUME NEW q \in Seq(Functor), q # << >>, EstFirst(q)
  PROVE  /\ EstFirst(Tail(q))
         /\ \A x \in Elems(Tail(q)) : x.run = "connectEstablished" => x.conn # Head(q).conn
<1> DEFINE t == Tail(q)
<1>1. /\ Len(t) = Len(q) - 1 /\ Len(q) \in Nat /\ Len(q) # 0 /\ Head(q) = q[1]
      /\ \A i \in 1 .. Len(t) : t[i] = q[i + 1]
  OBVIOUS
<1>2. \A i \in 1 .. Len(t) : i + 1 \in 1 .. Len(q) /\ 1 \in 1 .. Len(q) /\ 1 < i + 1
  BY <1>1
<1>3. EstFirst(t)
  <2> SUFFICES ASSUME NEW i \in 1 .. Len(t), NEW j \in 1 .. Len(t), i < j,
                      t[j].run = "connectEstablished"
               PROVE  t[i].conn # t[j].conn
    BY DEF EstFirst
  <2>1. i + 1 < j + 1
    OBVIOUS
  <2>. QED  BY <1>1, <1>2, <2>1 DEF EstFirst
<1>4. ASSUME NEW x \in Elems(t), x.run = "connectEstablished"
      PROVE  x.conn # Head(q).conn
  <2>1. PICK i \in 1 .. Len(t) : x = t[i]
    BY DEF Elems
  <2>. QED  BY <1>1, <1>2, <1>4, <2>1 DEF EstFirst
<1>. QED  BY <1>3, <1>4
-----------------------------------------------------------------------------
\* Behind each early send or shutdown of c waits c's destruction, which holds c until then.
Covered(q, c) ==
  \A i \in 1 .. Len(q) :
    (q[i].run \in Bare /\ q[i].conn = c /\ q[i].early) =>
      \E j \in 1 .. Len(q) : i < j /\ q[j] = Call("connectDestoryed", c)

\* A push leaves early ones covered unless it is one itself.
LEMMA CoveredAppend ==
  ASSUME NEW q \in Seq(Functor), NEW e \in Functor, NEW c \in Conn,
         \/ e = Call("connectDestoryed", c)
         \/ Covered(q, c) /\ (e.run \notin Bare \/ e.conn # c \/ ~e.early)
  PROVE  Covered(Append(q, e), c)
<1> DEFINE a == Append(q, e)
<1>1. /\ Len(a) = Len(q) + 1 /\ Len(q) \in Nat
      /\ a[Len(q) + 1] = e /\ \A i \in 1 .. Len(q) : a[i] = q[i]
  OBVIOUS
<1>2. Call("connectDestoryed", c).run \notin Bare
  BY DEF Call, Bare
<1> SUFFICES ASSUME NEW i \in 1 .. Len(a),
                    a[i].run \in Bare /\ a[i].conn = c /\ a[i].early
             PROVE  \E j \in 1 .. Len(a) : i < j /\ a[j] = Call("connectDestoryed", c)
  BY DEF Covered
<1>3. i \in 1 .. Len(q) /\ a[i] = q[i]
  BY <1>1, <1>2
<1>4. CASE e = Call("connectDestoryed", c)
  <2>1. Len(q) + 1 \in 1 .. Len(a) /\ i < Len(q) + 1
    BY <1>1, <1>3
  <2>. QED  BY <1>1, <1>4, <2>1
<1>5. CASE Covered(q, c)
  <2>1. PICK j \in 1 .. Len(q) : i < j /\ q[j] = Call("connectDestoryed", c)
    BY <1>3, <1>5 DEF Covered
  <2>2. j \in 1 .. Len(a) /\ a[j] = q[j]
    BY <1>1
  <2>. QED  BY <2>1, <2>2
<1>. QED  BY <1>4, <1>5

\* A pop takes one away before the destruction.
LEMMA CoveredTail ==
  ASSUME NEW q \in Seq(Functor), q # << >>, NEW c \in Conn, Covered(q, c)
  PROVE  Covered(Tail(q), c)
<1> DEFINE t == Tail(q)
<1>1. /\ Len(t) = Len(q) - 1 /\ Len(q) \in Nat /\ Len(q) # 0
      /\ \A i \in 1 .. Len(t) : t[i] = q[i + 1]
  OBVIOUS
<1> SUFFICES ASSUME NEW i \in 1 .. Len(t),
                    t[i].run \in Bare /\ t[i].conn = c /\ t[i].early
             PROVE  \E j \in 1 .. Len(t) : i < j /\ t[j] = Call("connectDestoryed", c)
  BY DEF Covered
<1>2. i + 1 \in 1 .. Len(q) /\ t[i] = q[i + 1]
  BY <1>1
<1>3. PICK k \in 1 .. Len(q) : i + 1 < k /\ q[k] = Call("connectDestoryed", c)
  BY <1>2 DEF Covered
<1>4. k - 1 \in 1 .. Len(t) /\ i < k - 1 /\ t[k - 1] = q[k]
  BY <1>1, <1>3
<1>. QED  BY <1>3, <1>4

\* An empty queue covers nothing.
LEMMA CoveredEmpty == \A c \in Conn : Covered(<< >>, c)
BY DEF Covered

\* A queue without bare functors of c needs no destruction behind them.
LEMMA CoveredIdle ==
  ASSUME NEW q \in Seq(Functor), NEW c \in Conn,
         \A x \in Elems(q) : x.run \notin Bare \/ x.conn # c
  PROVE  Covered(q, c)
BY DEF Covered, Elems
-----------------------------------------------------------------------------
\* connectEstablished of c has not run; what connects c to the rest of the system
\* before its destruction is queued; and that it is.
Young(c) == state[c] \in {"none", "kConnecting"}
HeldUp(c) == \/ c \in connections_
             \/ closing[loopOf[c]] = c
             \/ Call("removeConnectionInLoop", c) \in Elems(queue[0])
Doomed(c) == Call("connectDestoryed", c) \in Elems(queue[loopOf[c]])

Fresh == \A c \in Conn : /\ state[c] = "none" <=> c >= nextConnId_
                         /\ state[c] = "none" => c \notin connections_

Youth == \A c \in Conn : Young(c) => /\ index[c] = "new" /\ c \notin revived /\ c \notin held
                                    /\ calling # c /\ shutting # c

\* A thread inside shutdown has a pointer, and stores before it queues.
Inside == (shutting # 0 => shutting \in held) /\ (stored => shutting # 0)

\* The loops that connections are given to have been started.
Alive == /\ \A l \in LoopId : (l # 0 /\ l < Len(loops_)) => life[l] # "none"
         /\ \A c \in Conn : state[c] # "none" => life[loopOf[c]] # "none"

Closing == \A l \in LoopId : closing[l] # 0 =>
             /\ loopOf[closing[l]] = l
             /\ state[closing[l]] = "kDisconnected" \/ closing[l] \in revived

\* What a functor in the queue of loop l says of its connection.
Fits(l, f) ==
  /\ state[f.conn] # "none"
  /\ l = IF f.run = "removeConnectionInLoop" THEN 0 ELSE loopOf[f.conn]
  /\ f.run = "connectEstablished" => state[f.conn] = "kConnecting"
  /\ \/ f.run = "removeConnectionInLoop"
     \/ f.run = "connectDestoryed" /\ dtor = "no"
     => state[f.conn] = "kDisconnected" \/ f.conn \in revived
  /\ IF f.run \in Bare THEN ~Young(f.conn) /\ life[l] # "gone" ELSE f.early

QueueFits == \A l \in LoopId : \A f \in Elems(queue[l]) : Fits(l, f)

EstOrder == \A l \in LoopId : EstFirst(queue[l])

\* A connection that is registered, or will be, is on its way to its destruction.
Chain == \A c \in Conn :
  (/\ life[loopOf[c]] # "gone"
   /\ \/ index[c] \in {"added", "deleted"}
      \/ Call("connectEstablished", c) \in Elems(queue[loopOf[c]])) => HeldUp(c) \/ Doomed(c)

SendsHeld == \A c \in Conn : HeldUp(c) \/ Covered(queue[loopOf[c]], c)

Removed == \A c \in Conn :
  /\ index[c] = "again" => dtor # "no" \/ c \in revived
  /\ dtor = "no" /\ index[c] = "new" => Young(c) \/ state[c] = "kDisconnected" \/ c \in revived
  /\ state[c] = "kConnected" => index[c] = "added" /\ c \notin revived
  /\ c \notin revived => /\ (index[c] = "deleted" => state[c] = "kDisconnected")
                        /\ (index[c] \in {"added", "again"} => state[c] # "kDisconnected")

\* Until it is revived a connection has been told what its state says.
Reports == \A c \in Conn : c \notin revived =>
  told[c] = IF Young(c) THEN << >>
            ELSE IF state[c] = "kDisconnected" THEN Append(<<"up">>, "down") ELSE <<"up">>

Phases == /\ life[0] \in {"running", "returned", "gone"}
          /\ dtor # "no" => life[0] # "running"
          /\ dtor = "no" => \A l \in LoopId : life[l] \notin {"quit", "gone"}
          /\ dtor = "done" => \A l \in LoopId \ {0} : life[l] \in {"none", "gone"}
          /\ life[0] = "gone" => dtor = "done"
          /\ listening_ => started_
          /\ ~started_ => nextConnId_ = 1

SInv == /\ IInv /\ ServerTypeOK
        /\ Fresh /\ Youth /\ Inside /\ Alive /\ Closing
        /\ QueueFits /\ EstOrder /\ Chain /\ SendsHeld
        /\ Removed /\ Reports /\ Phases
-----------------------------------------------------------------------------
\* The base loop is a loop, and 0 is no connection.
LEMMA Ids == /\ 0 \in LoopId /\ LoopId \subseteq Nat /\ Conn \subseteq Nat /\ 0 \notin Conn
BY BoundAssumption, ServerAssumption DEF LoopId, Conn

\* What Call builds.
LEMMA Calls == \A c \in Conn :
  \A r \in {"connectEstablished", "removeConnectionInLoop", "connectDestoryed"} :
    /\ Call(r, c) \in Functor /\ r \notin Bare
    /\ Call(r, c).run = r /\ Call(r, c).conn = c /\ Call(r, c).early = TRUE
BY DEF Call, Functor, Bare

\* What the callbacks have said so far.
LEMMA Telling == /\ << >> \in Seq({"up", "down"})
                 /\ \A t \in Seq({"up", "down"}) : \A r \in {"up", "down"} :
                      Append(t, r) \in Seq({"up", "down"})
                 /\ Append(<< >>, "up") = <<"up">>
<1>1. << >> \in Seq({"up", "down"})
  OBVIOUS
<1>2. \A t \in Seq({"up", "down"}) : \A r \in {"up", "down"} : Append(t, r) \in Seq({"up", "down"})
  OBVIOUS
<1>3. Append(<< >>, "up") = <<"up">>
  OBVIOUS
<1>. QED  BY <1>1, <1>2, <1>3

\* A queued functor is one of the program's.
LEMMA QueuedTyped ==
  ASSUME SInv, NEW l \in LoopId, NEW f \in Elems(queue[l])
  PROVE  f \in Functor /\ f.conn \in Conn
<1>1. queue[l] \in Seq(Functor)
  BY DEF SInv, ServerTypeOK
<1>2. f \in Functor
  BY <1>1, ElemsIn
<1>. QED  BY <1>2 DEF Functor

\* Steps that change nothing but user code's pointers and its threads' places.
LEMMA UserKeeps ==
  ASSUME SInv, NEW c \in Conn, keep(c) \/ release(c) \/ threadSend(c) \/ threadShutdown(c)
  PROVE  SInv'
<1>1. /\ UNCHANGED <<acceptVars, connVars, loopVars, stored, dtor>>
      /\ held' \in SUBSET Conn
      /\ \A d \in held' : d \in held \/ (d = c /\ state[c] = "kConnected")
      /\ calling' = calling \/ (calling' = c /\ state[c] = "kConnected")
      /\ shutting' = shutting \/ (shutting' = c /\ state[c] = "kConnected")
      /\ Inside'
  <2>1. CASE keep(c)
    BY <2>1 DEF SInv, ServerTypeOK, Inside, keep, threadVars
  <2>2. CASE release(c)
    BY <2>2 DEF SInv, ServerTypeOK, Inside, release, threadVars
  <2>3. CASE threadSend(c)
    BY <2>3 DEF SInv, ServerTypeOK, Inside, threadSend
  <2>4. CASE threadShutdown(c)
    BY <2>4, Ids DEF SInv, ServerTypeOK, Inside, threadShutdown
  <2>. QED  BY <2>1, <2>2, <2>3, <2>4
<1>2. IInv'
  BY <1>1, PoolUnchanged DEF SInv, acceptVars
<1>3. ServerTypeOK'
  BY <1>1, <1>2 DEF SInv, IInv, ServerTypeOK, acceptVars, connVars, loopVars
<1>4. Fresh' /\ Closing' /\ Removed' /\ Reports' /\ Phases'
  BY <1>1 DEF SInv, Fresh, Closing, Removed, Reports, Phases, Young, acceptVars, connVars, loopVars
<1>5. Youth' /\ Alive'
  BY <1>1 DEF SInv, Youth, Alive, Young, vars, acceptVars, connVars, loopVars
<1>6. QueueFits' /\ EstOrder'
  BY <1>1 DEF SInv, QueueFits, Fits, EstOrder, Young, acceptVars, connVars, loopVars
<1>7. Chain' /\ SendsHeld'
  BY <1>1 DEF SInv, Chain, SendsHeld, HeldUp, Doomed, acceptVars, connVars, loopVars
<1>. QED  BY <1>1, <1>2, <1>3, <1>4, <1>5, <1>6, <1>7 DEF SInv

\* handleClose: from registered to the guard.
LEMMA HandleCloseKeeps ==
  ASSUME SInv, NEW c \in Conn, handleClose(c)
  PROVE  SInv'
<1>1. /\ UNCHANGED <<acceptVars, connections_, revived, queue, life, userVars>>
      /\ life[loopOf[c]] \notin {"none", "gone"} /\ closing[loopOf[c]] = 0
      /\ index[c] \in {"added", "again"} /\ loopOf[c] \in LoopId
      /\ state' = [state EXCEPT ![c] = "kDisconnected"]
      /\ index' = [index EXCEPT ![c] = "deleted"]
      /\ told' = [told EXCEPT ![c] = Append(@, "down")]
      /\ closing' = [closing EXCEPT ![loopOf[c]] = c]
  BY DEF SInv, ServerTypeOK, handleClose, Tell, Free, Looping
<1>2. IInv'
  BY <1>1, PoolUnchanged DEF SInv, acceptVars
<1>3. ServerTypeOK'
  <2>1. told' \in [Conn -> Seq({"up", "down"})]
    BY <1>1, Telling DEF SInv, ServerTypeOK
  <2>. QED  BY <1>1, <1>2, <2>1 DEF SInv, IInv, ServerTypeOK, acceptVars, userVars, States
<1>4. ~Young(c)
  BY <1>1 DEF SInv, Youth
<1>5. Fresh' /\ Youth' /\ Inside' /\ Alive' /\ Phases'
  BY <1>1, <1>4, Ids DEF SInv, ServerTypeOK, Fresh, Youth, Inside, Alive, Phases, Young, vars, acceptVars, userVars
<1>6. Closing'
  BY <1>1, <1>4, Ids DEF SInv, ServerTypeOK, Closing, acceptVars, userVars
<1>7. QueueFits' /\ EstOrder'
  BY <1>1, <1>4, Ids, ElemsIn DEF SInv, ServerTypeOK, QueueFits, Fits, EstOrder, Young, acceptVars, userVars, Functor
<1>8. \A d \in Conn : HeldUp(d) => HeldUp(d)'
  BY <1>1, Ids DEF SInv, ServerTypeOK, HeldUp, acceptVars
<1>9. Chain'
  BY <1>1, <1>8, Ids DEF SInv, ServerTypeOK, Chain, Doomed, HeldUp, acceptVars
<1>10. SendsHeld'
  BY <1>1, <1>8 DEF SInv, SendsHeld, acceptVars
<1>11. Removed'
  BY <1>1 DEF SInv, ServerTypeOK, Removed, Young, userVars
<1>12. Reports'
  <2>1. c \notin revived => told[c] = <<"up">>
    BY <1>1, <1>4 DEF SInv, Reports, Removed
  <2>. QED  BY <1>1, <1>4, <2>1, Telling DEF SInv, ServerTypeOK, Reports, Young
<1>. QED  BY <1>2, <1>3, <1>5, <1>6, <1>7, <1>9, <1>10, <1>11, <1>12 DEF SInv

\* Steps of the loops' lives and of the destructor that touch no connection.
LEMMA LifeKeeps ==
  ASSUME SInv,
         \/ \E l \in LoopId : enterLoop(l) \/ quitLoop(l)
         \/ baseReturns \/ destroyServer \/ connectionsDone \/ Client
  PROVE  SInv'
<1>1. /\ UNCHANGED <<vars, started_, listening_, nextConnId_, loopOf, connVars, queue, closing,
                     held, threadVars>>
      /\ waiting' \in 0 .. MaxWaiting
      /\ life' \in [LoopId -> Lives] /\ dtor' \in {"no", "connections", "pool", "done"}
      /\ \A l \in LoopId : /\ life'[l] = "none" <=> life[l] = "none"
                           /\ life'[l] = "gone" <=> life[l] = "gone"
      /\ dtor' = "no" => dtor = "no"
      /\ Phases'
  <2>1. CASE \E l \in LoopId : enterLoop(l)
    BY <2>1 DEF SInv, ServerTypeOK, Phases, enterLoop, Lives, acceptVars, userVars, threadVars
  <2>2. CASE \E l \in LoopId : quitLoop(l)
    BY <2>2 DEF SInv, ServerTypeOK, Phases, quitLoop, quit, Lives, acceptVars, userVars, threadVars
  <2>3. CASE baseReturns
    BY <2>3, Ids DEF SInv, ServerTypeOK, Phases, baseReturns, Lives, acceptVars, userVars, threadVars
  <2>4. CASE destroyServer \/ connectionsDone
    BY <2>4 DEF SInv, ServerTypeOK, Phases, destroyServer, connectionsDone, acceptVars, loopVars, threadVars
  <2>5. CASE Client
    BY <2>5, ServerAssumption DEF SInv, ServerTypeOK, Phases, Client, clientConnects, clientGivesUp, loopVars, userVars, threadVars
  <2>. QED  BY <2>1, <2>2, <2>3, <2>4, <2>5
<1>2. IInv'
  BY <1>1, PoolUnchanged DEF SInv
<1>3. ServerTypeOK'
  BY <1>1, <1>2 DEF SInv, IInv, ServerTypeOK, connVars, threadVars
<1>4. Fresh' /\ Closing' /\ Removed' /\ Reports'
  BY <1>1 DEF SInv, Fresh, Closing, Removed, Reports, Young, connVars
<1>5. Youth' /\ Inside' /\ Alive'
  BY <1>1 DEF SInv, ServerTypeOK, Youth, Inside, Alive, Young, vars, connVars, threadVars
<1>6. QueueFits' /\ EstOrder'
  BY <1>1 DEF SInv, ServerTypeOK, QueueFits, Fits, EstOrder, Young, connVars
<1>7. Chain' /\ SendsHeld'
  BY <1>1 DEF SInv, ServerTypeOK, Chain, SendsHeld, HeldUp, Doomed, connVars
<1>. QED  BY <1>1, <1>2, <1>3, <1>4, <1>5, <1>6, <1>7 DEF SInv

\* shutdown leaves a connection where it is, on whatever thread.  If it comes late it
\* undoes handleClose's kDisconnected.
LEMMA ShutdownKeeps ==
  ASSUME SInv, NEW c \in Conn, shutdown(c) \/ (threadSetState /\ c = shutting)
  PROVE  SInv'
<1>1. /\ UNCHANGED <<acceptVars, connections_, index, told, loopVars, held, calling, shutting, dtor>>
      /\ ~Young(c) /\ Inside' /\ stored' \in BOOLEAN
      /\ state' = [state EXCEPT ![c] = "kDisconnecting"]
      /\ revived' = revived \cup (IF state[c] = "kDisconnected" THEN {c} ELSE {})
  <2>1. CASE shutdown(c)
    BY <2>1 DEF SInv, ServerTypeOK, shutdown, Inside, Young, userVars
  <2>2. CASE threadSetState /\ c = shutting
    BY <2>2 DEF SInv, threadSetState, Youth, Inside
  <2>. QED  BY <2>1, <2>2
<1>2. IInv'
  BY <1>1, PoolUnchanged DEF SInv, acceptVars
<1>3. ServerTypeOK'
  BY <1>1, <1>2 DEF SInv, IInv, ServerTypeOK, acceptVars, loopVars, States
<1>4. \A d \in Conn : Young(d)' <=> Young(d)
  BY <1>1 DEF SInv, ServerTypeOK, Young
<1>5. Fresh' /\ Youth' /\ Alive' /\ Phases'
  BY <1>1, <1>4 DEF SInv, ServerTypeOK, Fresh, Youth, Alive, Phases, Young, vars, acceptVars, loopVars
<1>6. Closing'
  BY <1>1 DEF SInv, ServerTypeOK, Closing, acceptVars, loopVars
<1>7. Removed'
  BY <1>1, <1>4 DEF SInv, ServerTypeOK, Removed
<1>8. Reports'
  BY <1>1, <1>4 DEF SInv, ServerTypeOK, Reports
<1>9. QueueFits'
  <2> SUFFICES ASSUME NEW l \in LoopId, NEW f \in Elems(queue[l]) PROVE Fits(l, f)'
    BY <1>1 DEF QueueFits, loopVars
  <2>1. f.conn \in Conn /\ Fits(l, f)
    BY QueuedTyped DEF SInv, QueueFits
  <2>. QED  BY <1>1, <1>4, <2>1 DEF SInv, ServerTypeOK, Fits, Young, acceptVars, loopVars
<1>10. EstOrder' /\ Chain' /\ SendsHeld'
  BY <1>1 DEF SInv, EstOrder, Chain, SendsHeld, HeldUp, Doomed, acceptVars, loopVars
<1>. QED  BY <1>1, <1>2, <1>3, <1>5, <1>6, <1>7, <1>8, <1>9, <1>10 DEF SInv

\* Before start there is no connection.
LEMMA StartServerKeeps ==
  ASSUME SInv, serverStart \/ \E n \in 0 .. MaxThreads : setServerThreadNum(n)
  PROVE  SInv'
<1>1. /\ UNCHANGED <<nextConnId_, loopOf, waiting, connVars, queue, closing, userVars>>
      /\ nextConnId_ = 1 /\ life[0] = "running"
      /\ life' \in [LoopId -> Lives] /\ life'[0] = "running" /\ dtor = "no"
      /\ \A l \in LoopId : life'[l] \notin {"quit", "gone"}
  <2>1. CASE serverStart
    BY <2>1, Ids DEF SInv, ServerTypeOK, Phases, serverStart, Free, Looping, Lives, userVars
  <2>2. CASE \E n \in 0 .. MaxThreads : setServerThreadNum(n)
    BY <2>2, Ids DEF SInv, ServerTypeOK, Phases, setServerThreadNum, Free, Looping, loopVars, userVars
  <2>. QED  BY <2>1, <2>2
<1>2. started_' \in BOOLEAN /\ listening_' \in BOOLEAN /\ (listening_' => started_')
  <2>1. CASE serverStart
    BY <2>1 DEF serverStart
  <2>2. CASE \E n \in 0 .. MaxThreads : setServerThreadNum(n)
    <3>1. started_' = started_ /\ listening_' = listening_
      BY <2>2 DEF setServerThreadNum
    <3>2. started_ \in BOOLEAN /\ listening_ \in BOOLEAN /\ (listening_ => started_)
      BY DEF SInv, ServerTypeOK, Phases
    <3>. QED  BY <3>1, <3>2
  <2>. QED  BY <2>1, <2>2
<1>3. IInv'
  <2>1. CASE serverStart
    BY <2>1, StartKeeps DEF SInv, serverStart
  <2>2. CASE \E n \in 0 .. MaxThreads : setServerThreadNum(n)
    BY <2>2, SetThreadNumKeeps DEF SInv, setServerThreadNum
  <2>. QED  BY <2>1, <2>2
<1>4. ServerTypeOK'
  <2>1. /\ loopOf' = loopOf /\ nextConnId_' = nextConnId_ /\ waiting' = waiting
        /\ connections_' = connections_ /\ state' = state /\ index' = index
        /\ queue' = queue /\ closing' = closing /\ held' = held /\ calling' = calling
        /\ told' = told /\ revived' = revived /\ shutting' = shutting /\ stored' = stored
        /\ dtor' = dtor
    BY <1>1 DEF connVars, userVars
  <2>. QED  BY <1>1, <1>2, <1>3, <2>1 DEF SInv, IInv, ServerTypeOK
<1>5. \A c \in Conn : state[c] = "none" /\ index[c] = "new"
  BY <1>1, Ids DEF SInv, Fresh, Youth, Young, Conn
<1>6. ASSUME NEW l \in LoopId PROVE Elems(queue[l]) = {}
  <2> SUFFICES ASSUME NEW f \in Elems(queue[l]) PROVE FALSE
    OBVIOUS
  <2>1. f.conn \in Conn
    BY QueuedTyped
  <2>. QED  BY <1>5, <2>1 DEF SInv, QueueFits, Fits
<1>7. Fresh' /\ Youth' /\ Inside' /\ Closing' /\ Removed' /\ Reports'
  BY <1>1, <1>5 DEF SInv, ServerTypeOK, Fresh, Youth, Inside, Closing, Removed, Reports, Young, connVars, userVars
<1>8. Alive'
  <2>1. \A c \in Conn : state'[c] = "none"
    BY <1>1, <1>5 DEF connVars
  <2>2. CASE serverStart
    <3>1. /\ numThreads_ \in Nat /\ Len(loops_') = numThreads_ + 1
          /\ life' = [l \in LoopId |-> IF l \in 1 .. numThreads_ THEN "starting" ELSE life[l]]
      BY <2>2, BoundAssumption DEF SInv, IInv, TypeOK, serverStart, start
    <3>. QED  BY <2>1, <3>1, Ids DEF Alive
  <2>3. CASE \E n \in 0 .. MaxThreads : setServerThreadNum(n)
    BY <2>1, <2>3 DEF SInv, Alive, setServerThreadNum, setThreadNum, loopVars
  <2>. QED  BY <2>2, <2>3
<1>9. Phases'
  BY <1>1, <1>2 DEF SInv, Phases, userVars
<1>10. QueueFits' /\ EstOrder'
  BY <1>1, <1>6 DEF SInv, QueueFits, EstOrder
<1>11. Chain' /\ SendsHeld'
  BY <1>1, <1>5, <1>6 DEF SInv, ServerTypeOK, Chain, SendsHeld, HeldUp, connVars
<1>. QED  BY <1>3, <1>4, <1>7, <1>8, <1>9, <1>10, <1>11 DEF SInv
-----------------------------------------------------------------------------
\* What a loop that runs a functor does to the queues q: p is what is left.
Popping(q, l, p) ==
  /\ p \in [LoopId -> Seq(Functor)]
  /\ Head(q[l]) \in Elems(q[l])
  /\ \A k \in LoopId : /\ Elems(p[k]) \subseteq Elems(q[k])
                       /\ \A x \in Elems(q[k]) : x # Head(q[l]) => x \in Elems(p[k])
                       /\ EstFirst(p[k])
                       /\ \A c \in Conn : Covered(q[k], c) => Covered(p[k], c)
  /\ \A x \in Elems(p[l]) : x.run = "connectEstablished" => x.conn # Head(q[l]).conn

\* And what queueInLoop of e does to them.
Pushing(q, l, e, p) ==
  /\ p \in [LoopId -> Seq(Functor)]
  /\ \A k \in LoopId : /\ Elems(p[k]) = Elems(q[k]) \cup (IF k = l THEN {e} ELSE {})
                       /\ EstFirst(p[k])
  /\ \A k \in LoopId : \A c \in Conn :
       \/ k = l /\ e = Call("connectDestoryed", c)
       \/ /\ Covered(q[k], c)
          /\ k # l \/ e.run \notin Bare \/ e.conn # c \/ ~e.early
       => Covered(p[k], c)

\* A queue that is not empty is popped as Popping says.
LEMMA Popped ==
  ASSUME NEW q \in [LoopId -> Seq(Functor)], NEW l \in LoopId, q[l] # << >>,
         \A k \in LoopId : EstFirst(q[k]),
         NEW p, p = [q EXCEPT ![l] = Tail(@)]
  PROVE  Popping(q, l, p)
<1>1. p[l] = Tail(q[l]) /\ \A k \in LoopId : k # l => p[k] = q[k]
  OBVIOUS
<1>2. /\ Head(q[l]) \in Functor /\ Tail(q[l]) \in Seq(Functor)
      /\ Elems(q[l]) = {Head(q[l])} \cup Elems(Tail(q[l]))
  BY ElemsTail
<1>3. /\ EstFirst(Tail(q[l]))
      /\ \A x \in Elems(Tail(q[l])) : x.run = "connectEstablished" => x.conn # Head(q[l]).conn
  BY EstFirstTail
<1>4. \A c \in Conn : Covered(q[l], c) => Covered(Tail(q[l]), c)
  BY CoveredTail
<1>5. p \in [LoopId -> Seq(Functor)]
  BY <1>2
<1>6. ASSUME NEW k \in LoopId
      PROVE  /\ Elems(p[k]) \subseteq Elems(q[k])
             /\ \A x \in Elems(q[k]) : x # Head(q[l]) => x \in Elems(p[k])
             /\ EstFirst(p[k])
             /\ \A c \in Conn : Covered(q[k], c) => Covered(p[k], c)
  <2>1. CASE k = l
    BY <1>1, <1>2, <1>3, <1>4, <2>1
  <2>2. CASE k # l
    BY <1>1, <2>2
  <2>. QED  BY <2>1, <2>2
<1>. QED  BY <1>1, <1>2, <1>3, <1>5, <1>6 DEF Popping

\* The queues after a step that only runs a functor.
LEMMA RunPops ==
  ASSUME SInv, NEW l \in LoopId, queue[l] # << >>, queue' = Pop(l)
  PROVE  Popping(queue, l, queue') /\ EstOrder'
<1>1. queue \in [LoopId -> Seq(Functor)] /\ \A k \in LoopId : EstFirst(queue[k])
  BY DEF SInv, ServerTypeOK, EstOrder
<1>2. queue' = [queue EXCEPT ![l] = Tail(@)]
  BY DEF Pop
<1>3. Popping(queue, l, queue')
  BY <1>1, <1>2, Popped
<1>. QED  BY <1>3 DEF Popping, EstOrder

\* A queue is pushed to as Pushing says.
LEMMA Pushed ==
  ASSUME NEW q \in [LoopId -> Seq(Functor)], NEW l \in LoopId, NEW e \in Functor,
         \A k \in LoopId : EstFirst(q[k]),
         e.run = "connectEstablished" => \A x \in Elems(q[l]) : x.conn # e.conn,
         NEW p, p = [q EXCEPT ![l] = Append(@, e)]
  PROVE  Pushing(q, l, e, p)
<1>1. p[l] = Append(q[l], e) /\ \A k \in LoopId : k # l => p[k] = q[k]
  OBVIOUS
<1>2. Append(q[l], e) \in Seq(Functor) /\ Elems(Append(q[l], e)) = Elems(q[l]) \cup {e}
  BY ElemsAppend
<1>3. EstFirst(Append(q[l], e))
  BY EstFirstAppend
<1>4. \A c \in Conn :
        \/ e = Call("connectDestoryed", c)
        \/ Covered(q[l], c) /\ (e.run \notin Bare \/ e.conn # c \/ ~e.early)
        => Covered(Append(q[l], e), c)
  BY CoveredAppend
<1>5. p \in [LoopId -> Seq(Functor)]
  BY <1>2
<1>6. ASSUME NEW k \in LoopId
      PROVE  Elems(p[k]) = Elems(q[k]) \cup (IF k = l THEN {e} ELSE {}) /\ EstFirst(p[k])
  BY <1>1, <1>2, <1>3
<1>7. ASSUME NEW k \in LoopId, NEW c \in Conn,
             \/ k = l /\ e = Call("connectDestoryed", c)
             \/ /\ Covered(q[k], c)
                /\ k # l \/ e.run \notin Bare \/ e.conn # c \/ ~e.early
      PROVE  Covered(p[k], c)
  BY <1>1, <1>4, <1>7
<1>. QED  BY <1>5, <1>6, <1>7 DEF Pushing

\* The queues after a step that only queues a functor.
LEMMA CallPushes ==
  ASSUME SInv, NEW l \in LoopId, NEW e \in Functor, ToBack(l, e),
         e.run = "connectEstablished" => \A x \in Elems(queue[l]) : x.conn # e.conn
  PROVE  Pushing(queue, l, e, queue') /\ EstOrder'
<1>1. queue \in [LoopId -> Seq(Functor)] /\ \A k \in LoopId : EstFirst(queue[k])
  BY DEF SInv, ServerTypeOK, EstOrder
<1>2. queue' = [queue EXCEPT ![l] = Append(@, e)]
  BY DEF ToBack
<1>3. Pushing(queue, l, e, queue')
  BY <1>1, <1>2, Pushed
<1>. QED  BY <1>3 DEF Pushing, EstOrder

\* The functor at the head of a queue is one of Call's, for its own loop.
LEMMA HeadIs ==
  ASSUME SInv, NEW l \in LoopId, queue[l] # << >>
  PROVE  /\ Head(queue[l]) \in Functor /\ Fits(l, Head(queue[l]))
         /\ Head(queue[l]).run \notin Bare =>
              Head(queue[l]) = Call(Head(queue[l]).run, Head(queue[l]).conn)
<1>1. Head(queue[l]) \in Functor /\ Head(queue[l]) \in Elems(queue[l])
  BY ElemsTail DEF SInv, ServerTypeOK
<1>2. Fits(l, Head(queue[l]))
  BY <1>1 DEF SInv, QueueFits
<1>3. Head(queue[l]).run \notin Bare => Head(queue[l]).early = TRUE
  BY <1>1, <1>2 DEF Fits, Functor
<1>. QED  BY <1>1, <1>2, <1>3 DEF Functor, Call
-----------------------------------------------------------------------------
\* The functors.
LEMMA EstablishedKeeps ==
  ASSUME SInv, NEW l \in LoopId, NEW c \in Conn, connectEstablished(l, c)
  PROVE  SInv'
<1> DEFINE f == Call("connectEstablished", c)
<1>1. /\ UNCHANGED <<acceptVars, closing, life, userVars, connections_, revived>>
      /\ life[l] \notin {"none", "gone"} /\ queue[l] # << >>
      /\ queue' = Pop(l) /\ state' = [state EXCEPT ![c] = "kConnected"]
      /\ index' = [index EXCEPT ![c] = "added"]
      /\ told' = [told EXCEPT ![c] = Append(@, "up")]
  BY DEF connectEstablished, Tell, Runs, Free, Looping
<1>2. Head(queue[l]) = f /\ loopOf[c] = l /\ state[c] = "kConnecting"
  BY HeadIs, Calls DEF connectEstablished, Runs, Fits
<1>3. /\ queue' \in [LoopId -> Seq(Functor)] /\ f \in Elems(queue[l])
      /\ \A k \in LoopId : /\ Elems(queue'[k]) \subseteq Elems(queue[k])
                           /\ \A x \in Elems(queue[k]) : x # f => x \in Elems(queue'[k])
                           /\ \A d \in Conn : Covered(queue[k], d) => Covered(queue'[k], d)
      /\ EstOrder'
      /\ \A x \in Elems(queue'[l]) : x.run = "connectEstablished" => x.conn # c
  <2>1. f.conn = c
    BY Calls
  <2>2. Popping(queue, l, queue') /\ EstOrder'
    BY <1>1, RunPops
  <2>. QED  BY <1>2, <2>1, <2>2 DEF Popping
<1>4. IInv'
  BY <1>1, PoolUnchanged DEF SInv, acceptVars
<1>5. ServerTypeOK'
  <2>1. told' \in [Conn -> Seq({"up", "down"})]
    BY <1>1, Telling DEF SInv, ServerTypeOK
  <2>. QED  BY <1>1, <1>3, <1>4, <2>1 DEF SInv, IInv, ServerTypeOK, acceptVars, userVars, States
<1>6. Fresh' /\ Youth' /\ Inside' /\ Alive' /\ Closing' /\ Removed' /\ Phases'
  BY <1>1, <1>2, Ids DEF SInv, ServerTypeOK, Fresh, Youth, Inside, Alive, Closing, Removed, Phases, Young, vars, acceptVars, userVars
<1>7. QueueFits'
  <2> SUFFICES ASSUME NEW k \in LoopId, NEW x \in Elems(queue'[k]) PROVE Fits(k, x)'
    BY DEF QueueFits
  <2>1. x \in Elems(queue[k]) /\ x.conn \in Conn /\ Fits(k, x)
    BY <1>3, QueuedTyped DEF SInv, QueueFits
  <2>2. CASE x.conn = c
    BY <1>1, <1>2, <1>3, <2>1, <2>2 DEF SInv, ServerTypeOK, Fits, Young, acceptVars, userVars
  <2>3. CASE x.conn # c
    BY <1>1, <2>1, <2>3 DEF SInv, ServerTypeOK, Fits, Young, acceptVars, userVars
  <2>. QED  BY <2>2, <2>3
<1>8. \A d \in Conn : (HeldUp(d) => HeldUp(d)') /\ (Doomed(d) => Doomed(d)')
  <2>1. \A d \in Conn : /\ Call("removeConnectionInLoop", d) # f
                        /\ Call("connectDestoryed", d) # f
    BY <1>1, Calls
  <2>. QED  BY <1>1, <1>3, <2>1, Ids DEF SInv, ServerTypeOK, HeldUp, Doomed, acceptVars
<1>9. Chain'
  BY <1>1, <1>2, <1>3, <1>8 DEF SInv, ServerTypeOK, Chain, acceptVars
<1>10. SendsHeld'
  BY <1>1, <1>3, <1>8 DEF SInv, ServerTypeOK, SendsHeld, acceptVars
<1>11. Reports'
  <2>1. c \notin revived /\ told[c] = << >>
    BY <1>2 DEF SInv, Youth, Young, Reports
  <2>. QED  BY <1>1, <2>1, Telling DEF SInv, ServerTypeOK, Reports, Young
<1>. QED  BY <1>3, <1>4, <1>5, <1>6, <1>7, <1>9, <1>10, <1>11 DEF SInv

\* After connectDestoryed nothing brings its connection back.
LEMMA DestroyedKeeps ==
  ASSUME SInv, NEW l \in LoopId, NEW c \in Conn, connectDestoryed(l, c)
  PROVE  SInv'
<1> DEFINE f == Call("connectDestoryed", c)
<1>1. /\ UNCHANGED <<acceptVars, closing, life, userVars, connections_, revived>>
      /\ life[l] \notin {"none", "gone"} /\ queue[l] # << >>
      /\ queue' = Pop(l)
      /\ state' = [state EXCEPT ![c] = IF @ = "kConnected" THEN "kDisconnected" ELSE @]
      /\ told' = [told EXCEPT ![c] = IF state[c] = "kConnected" THEN Append(@, "down") ELSE @]
      /\ index' = [index EXCEPT ![c] = "new"]
  <2>1. state \in [Conn -> States] /\ told \in [Conn -> Seq({"up", "down"})]
    BY DEF SInv, ServerTypeOK
  <2>2. /\ state' = [state EXCEPT ![c] = IF @ = "kConnected" THEN "kDisconnected" ELSE @]
        /\ told' = [told EXCEPT ![c] = IF state[c] = "kConnected" THEN Append(@, "down") ELSE @]
    BY <2>1 DEF connectDestoryed, Tell
  <2>. QED  BY <2>2 DEF connectDestoryed, Runs, Free, Looping
<1>2. /\ Head(queue[l]) = f /\ loopOf[c] = l /\ state[c] # "none"
      /\ dtor = "no" => state[c] = "kDisconnected" \/ c \in revived
  BY HeadIs, Calls DEF connectDestoryed, Runs, Fits
<1>3. /\ queue' \in [LoopId -> Seq(Functor)] /\ f \in Elems(queue[l])
      /\ \A k \in LoopId : /\ Elems(queue'[k]) \subseteq Elems(queue[k])
                           /\ \A x \in Elems(queue[k]) : x # f => x \in Elems(queue'[k])
                           /\ \A d \in Conn : Covered(queue[k], d) => Covered(queue'[k], d)
      /\ EstOrder'
      /\ \A x \in Elems(queue'[l]) : x.run = "connectEstablished" => x.conn # c
  <2>1. f.conn = c
    BY Calls
  <2>2. Popping(queue, l, queue') /\ EstOrder'
    BY <1>1, RunPops
  <2>. QED  BY <1>2, <2>1, <2>2 DEF Popping
<1>4. IInv'
  BY <1>1, PoolUnchanged DEF SInv, acceptVars
<1>5. ServerTypeOK'
  <2>1. told' \in [Conn -> Seq({"up", "down"})]
    BY <1>1, Telling DEF SInv, ServerTypeOK
  <2>. QED  BY <1>1, <1>3, <1>4, <2>1 DEF SInv, IInv, ServerTypeOK, acceptVars, userVars, States
<1>6. Fresh' /\ Youth' /\ Inside' /\ Alive' /\ Closing' /\ Removed' /\ Phases'
  BY <1>1, <1>2, Ids DEF SInv, ServerTypeOK, Fresh, Youth, Inside, Alive, Closing, Removed, Phases, Young, vars, acceptVars, userVars
<1>7. QueueFits'
  <2> SUFFICES ASSUME NEW k \in LoopId, NEW x \in Elems(queue'[k]) PROVE Fits(k, x)'
    BY DEF QueueFits
  <2>1. x \in Elems(queue[k]) /\ x.conn \in Conn /\ Fits(k, x)
    BY <1>3, QueuedTyped DEF SInv, QueueFits
  <2>. QED  BY <1>1, <1>2, <2>1 DEF SInv, ServerTypeOK, Fits, Young, acceptVars, userVars
<1>8. \A d \in Conn : (HeldUp(d) => HeldUp(d)') /\ (d # c /\ Doomed(d) => Doomed(d)')
  <2>1. \A d \in Conn : /\ Call("removeConnectionInLoop", d) # f
                        /\ d # c => Call("connectDestoryed", d) # f
    BY <1>1, Calls
  <2>. QED  BY <1>1, <1>3, <2>1, Ids DEF SInv, ServerTypeOK, HeldUp, Doomed, acceptVars
<1>9. Chain'
  <2> SUFFICES ASSUME NEW d \in Conn, life'[loopOf'[d]] # "gone",
                      \/ index'[d] \in {"added", "deleted"}
                      \/ Call("connectEstablished", d) \in Elems(queue'[loopOf'[d]])
               PROVE  HeldUp(d)' \/ Doomed(d)'
    BY DEF Chain
  <2>1. d # c
    <3>1. index'[c] = "new" /\ loopOf'[c] = l
      BY <1>1, <1>2 DEF SInv, ServerTypeOK, acceptVars
    <3>2. Call("connectEstablished", c) \notin Elems(queue'[l])
      BY <1>3, Calls
    <3>. QED  BY <3>1, <3>2
  <2>. QED  BY <1>1, <1>3, <1>8, <2>1 DEF SInv, ServerTypeOK, Chain, acceptVars
<1>10. SendsHeld'
  BY <1>1, <1>3, <1>8 DEF SInv, ServerTypeOK, SendsHeld, acceptVars
<1>11. Reports'
  <2>1. c \notin revived /\ state[c] = "kConnected" => told[c] = <<"up">>
    BY DEF SInv, Reports, Young
  <2>. QED  BY <1>1, <1>2, <2>1, Telling DEF SInv, ServerTypeOK, Reports, Young
<1>. QED  BY <1>3, <1>4, <1>5, <1>6, <1>7, <1>9, <1>10, <1>11 DEF SInv

\* A send that finds its channel removed and its connection not down runs after the
\* server's destructor has begun, or after a late shutdown.
LEMMA BareKeeps ==
  ASSUME SInv, NEW l \in LoopId, NEW c \in Conn, sendInLoop(l, c) \/ shutdownInLoop(l, c)
  PROVE  SInv'
<1> DEFINE f == Head(queue[l])
<1>1. /\ UNCHANGED <<acceptVars, closing, life, userVars, connections_, state, told, revived>>
      /\ queue[l] # << >> /\ f.run \in Bare /\ f.conn = c
      /\ queue' = Pop(l)
      /\ \/ index' = index
         \/ /\ index[c] \in {"new", "deleted"} /\ state[c] # "kDisconnected" /\ ~Freed(c)
            /\ index' = [index EXCEPT ![c] = IF @ = "new" THEN "again" ELSE "added"]
  BY DEF sendInLoop, shutdownInLoop, Runs, givesUp, Bare, connVars
<1>2. state[c] # "none" /\ ~Young(c)
  BY <1>1, HeadIs DEF Fits
<1>3. /\ queue' \in [LoopId -> Seq(Functor)]
      /\ \A k \in LoopId : /\ Elems(queue'[k]) \subseteq Elems(queue[k])
                           /\ \A x \in Elems(queue[k]) : x # f => x \in Elems(queue'[k])
                           /\ \A d \in Conn : Covered(queue[k], d) => Covered(queue'[k], d)
      /\ EstOrder'
  <2>1. Popping(queue, l, queue') /\ EstOrder'
    BY <1>1, RunPops
  <2>. QED  BY <2>1 DEF Popping
<1>4. IInv'
  BY <1>1, PoolUnchanged DEF SInv, acceptVars
<1>5. ServerTypeOK'
  BY <1>1, <1>3, <1>4 DEF SInv, IInv, ServerTypeOK, acceptVars, userVars
<1>6. Fresh' /\ Youth' /\ Inside' /\ Alive' /\ Closing' /\ Removed' /\ Phases' /\ Reports'
  BY <1>1, <1>2 DEF SInv, ServerTypeOK, Fresh, Youth, Inside, Reports, Alive, Closing, Removed, Phases, Young, vars, acceptVars, userVars
<1>7. QueueFits'
  BY <1>1, <1>3 DEF SInv, QueueFits, Fits, Young, acceptVars, userVars
<1>8. \A d \in Conn : (HeldUp(d) => HeldUp(d)') /\ (Doomed(d) => Doomed(d)')
  <2>1. \A d \in Conn : /\ Call("removeConnectionInLoop", d) # f
                        /\ Call("connectDestoryed", d) # f
    BY <1>1, Calls
  <2>. QED  BY <1>1, <1>3, <2>1, Ids DEF SInv, ServerTypeOK, HeldUp, Doomed, acceptVars
<1>9. Chain'
  BY <1>1, <1>3, <1>8 DEF SInv, ServerTypeOK, Chain, acceptVars
<1>10. SendsHeld'
  BY <1>1, <1>3, <1>8 DEF SInv, ServerTypeOK, SendsHeld, acceptVars
<1>. QED  BY <1>3, <1>4, <1>5, <1>6, <1>7, <1>9, <1>10 DEF SInv

\* The rounds of ~TcpServer: from the map into the queue of the connection's loop.
LEMMA DestroyConnectionKeeps ==
  ASSUME SInv, NEW c \in Conn, destroyConnection(c)
  PROVE  SInv'
<1> DEFINE e == Call("connectDestoryed", c)
<1>1. /\ UNCHANGED <<acceptVars, state, index, told, revived, closing, life, userVars>>
      /\ dtor # "no" /\ c \in connections_ /\ connections_' = connections_ \ {c}
      /\ ToBack(loopOf[c], e) /\ loopOf[c] \in LoopId
      /\ e \in Functor /\ e.run = "connectDestoryed" /\ e.conn = c /\ e.early = TRUE
  BY Calls DEF SInv, ServerTypeOK, destroyConnection
<1>2. state[c] # "none"
  BY <1>1 DEF SInv, Fresh
<1>3. /\ queue' \in [LoopId -> Seq(Functor)]
      /\ \A k \in LoopId : Elems(queue'[k]) = Elems(queue[k]) \cup (IF k = loopOf[c] THEN {e} ELSE {})
      /\ EstOrder'
      /\ \A k \in LoopId : \A d \in Conn : Covered(queue[k], d) => Covered(queue'[k], d)
      /\ Covered(queue'[loopOf[c]], c)
  <2>1. Pushing(queue, loopOf[c], e, queue') /\ EstOrder'
    <3> HIDE DEF e
    <3>. QED  BY <1>1, CallPushes
  <2>2. e.run \notin Bare /\ e = Call("connectDestoryed", c)
    BY <1>1 DEF Bare
  <2>3. \A k \in LoopId : \A d \in Conn : Covered(queue[k], d) => Covered(queue'[k], d)
    <3> HIDE DEF e
    <3>. QED  BY <2>1, <2>2 DEF Pushing
  <2>. QED  BY <1>1, <2>1, <2>3 DEF Pushing
<1>4. IInv'
  BY <1>1, PoolUnchanged DEF SInv, acceptVars
<1>5. ServerTypeOK'
  BY <1>1, <1>3, <1>4 DEF SInv, IInv, ServerTypeOK, acceptVars, userVars
<1>6. Fresh' /\ Youth' /\ Inside' /\ Alive' /\ Closing' /\ Removed' /\ Phases' /\ Reports'
  BY <1>1 DEF SInv, ServerTypeOK, Fresh, Youth, Inside, Reports, Alive, Closing, Removed, Phases, Young, vars, acceptVars, userVars
<1>7. QueueFits'
  BY <1>1, <1>2, <1>3 DEF SInv, QueueFits, Fits, Young, Bare, acceptVars, userVars
<1>8. \A d \in Conn : /\ d # c /\ HeldUp(d) => HeldUp(d)'
                      /\ Doomed(d) => Doomed(d)'
                      /\ Doomed(c)'
  <2>1. /\ loopOf' = loopOf /\ closing' = closing
        /\ \A k \in LoopId : Elems(queue[k]) \subseteq Elems(queue'[k])
        /\ \A d \in Conn : loopOf[d] \in LoopId
        /\ e \in Elems(queue'[loopOf[c]])
    BY <1>1, <1>3 DEF SInv, ServerTypeOK, acceptVars
  <2>. QED  BY <1>1, <2>1, Ids DEF HeldUp, Doomed
<1>9. Chain'
  <2>1. \A k \in LoopId : \A d \in Conn :
          Call("connectEstablished", d) \in Elems(queue'[k]) => Call("connectEstablished", d) \in Elems(queue[k])
    BY <1>1, <1>3, Calls
  <2>. QED  BY <1>1, <1>8, <2>1 DEF SInv, ServerTypeOK, Chain, acceptVars
<1>10. SendsHeld'
  BY <1>1, <1>3, <1>8 DEF SInv, ServerTypeOK, SendsHeld, acceptVars
<1>. QED  BY <1>3, <1>4, <1>5, <1>6, <1>7, <1>9, <1>10 DEF SInv

\* removeConnectionInLoop passes its connection on from the base loop's queue.
LEMMA RemoveInLoopKeeps ==
  ASSUME SInv, NEW c \in Conn, removeConnectionInLoop(c)
  PROVE  SInv'
<1> DEFINE f == Call("removeConnectionInLoop", c)
           e == Call("connectDestoryed", c)
           q == Pop(0)
<1>1. /\ UNCHANGED <<acceptVars, state, index, told, revived, closing, life, userVars>>
      /\ connections_' = connections_ \ {c}
      /\ queue[0] # << >> /\ loopOf[c] \in LoopId
      /\ queue' = [q EXCEPT ![loopOf[c]] = Append(@, e)]
      /\ e \in Functor /\ e.run = "connectDestoryed" /\ e.conn = c /\ e.early = TRUE
  BY Calls DEF SInv, ServerTypeOK, removeConnectionInLoop, Runs, erase, destroyLater
<1>2. /\ Head(queue[0]) = f /\ f \in Functor /\ state[c] # "none"
      /\ state[c] = "kDisconnected" \/ c \in revived
  BY HeadIs, Calls, Ids DEF removeConnectionInLoop, Runs, Fits
<1>3. queue \in [LoopId -> Seq(Functor)] /\ \A k \in LoopId : EstFirst(queue[k])
  BY DEF SInv, ServerTypeOK, EstOrder
<1>4. /\ q \in [LoopId -> Seq(Functor)]
      /\ \A k \in LoopId : /\ Elems(q[k]) \subseteq Elems(queue[k])
                           /\ \A x \in Elems(queue[k]) : x # Head(queue[0]) => x \in Elems(q[k])
                           /\ EstFirst(q[k])
                           /\ \A d \in Conn : Covered(queue[k], d) => Covered(q[k], d)
  <2>1. q = [queue EXCEPT ![0] = Tail(@)]
    BY DEF Pop
  <2>2. Popping(queue, 0, q)
    <3> HIDE DEF q
    <3>. QED  BY <1>1, <1>3, <2>1, Popped, Ids
  <2>. HIDE DEF q
  <2>. QED  BY <2>2 DEF Popping
<1>5. /\ queue' \in [LoopId -> Seq(Functor)]
      /\ \A k \in LoopId : /\ Elems(queue'[k]) = Elems(q[k]) \cup (IF k = loopOf[c] THEN {e} ELSE {})
                           /\ EstFirst(queue'[k])
                           /\ \A d \in Conn : Covered(q[k], d) => Covered(queue'[k], d)
      /\ Covered(queue'[loopOf[c]], c)
  <2> HIDE DEF q
  <2>1. Pushing(q, loopOf[c], e, queue')
    <3> HIDE DEF e
    <3>. QED  BY <1>1, <1>4, Pushed
  <2>2. \A k \in LoopId : \A d \in Conn : Covered(q[k], d) => Covered(queue'[k], d)
    <3>1. e.run \notin Bare
      BY <1>1 DEF Bare
    <3> HIDE DEF e
    <3>. QED  BY <2>1, <3>1 DEF Pushing
  <2>. QED  BY <1>1, <2>1, <2>2 DEF Pushing
<1> HIDE DEF q
<1>6. /\ \A k \in LoopId :
           /\ \A x \in Elems(queue'[k]) : x \in Elems(queue[k]) \/ (x = e /\ k = loopOf[c])
           /\ \A x \in Elems(queue[k]) : x # f => x \in Elems(queue'[k])
           /\ \A d \in Conn : Covered(queue[k], d) => Covered(queue'[k], d)
      /\ e \in Elems(queue'[loopOf[c]])
  <2>1. loopOf[c] \in LoopId /\ Head(queue[0]) = f
    BY <1>1, <1>2
  <2> HIDE DEF e, f
  <2>2. ASSUME NEW k \in LoopId
        PROVE  /\ \A x \in Elems(queue'[k]) : x \in Elems(queue[k]) \/ (x = e /\ k = loopOf[c])
               /\ \A x \in Elems(queue[k]) : x # f => x \in Elems(queue'[k])
    BY <1>4, <1>5, <2>1
  <2>3. \A k \in LoopId : \A d \in Conn : Covered(queue[k], d) => Covered(queue'[k], d)
    BY <1>4, <1>5
  <2>4. e \in Elems(queue'[loopOf[c]])
    BY <1>5, <2>1
  <2>. QED  BY <2>2, <2>3, <2>4
<1>7. IInv'
  BY <1>1, PoolUnchanged DEF SInv, acceptVars
<1>8. ServerTypeOK'
  BY <1>1, <1>5, <1>7 DEF SInv, IInv, ServerTypeOK, acceptVars, userVars
<1>9. Fresh' /\ Youth' /\ Inside' /\ Alive' /\ Closing' /\ Removed' /\ Phases' /\ Reports'
  BY <1>1 DEF SInv, ServerTypeOK, Fresh, Youth, Inside, Reports, Alive, Closing, Removed, Phases, Young, vars, acceptVars, userVars
<1>10. QueueFits'
  BY <1>1, <1>2, <1>6 DEF SInv, QueueFits, Fits, Young, Bare, acceptVars, userVars
<1>11. \A d \in Conn : /\ d # c /\ HeldUp(d) => HeldUp(d)'
                       /\ Doomed(d) => Doomed(d)'
                       /\ Doomed(c)'
  <2>1. \A d \in Conn : /\ d # c => Call("removeConnectionInLoop", d) # f
                        /\ Call("connectDestoryed", d) # f
    BY Calls
  <2>. QED  BY <1>1, <1>6, <2>1, Ids DEF SInv, ServerTypeOK, HeldUp, Doomed, acceptVars
<1>12. Chain'
  <2>1. \A d \in Conn : Call("connectEstablished", d) # e
    BY Calls
  <2>2. \A k \in LoopId : \A d \in Conn :
          Call("connectEstablished", d) \in Elems(queue'[k]) => Call("connectEstablished", d) \in Elems(queue[k])
    BY <1>6, <2>1
  <2>. QED  BY <1>1, <1>11, <2>2 DEF SInv, ServerTypeOK, Chain, acceptVars
<1>13. SendsHeld'
  BY <1>1, <1>5, <1>6, <1>11 DEF SInv, ServerTypeOK, SendsHeld, acceptVars
<1>. QED  BY <1>5, <1>7, <1>8, <1>9, <1>10, <1>12, <1>13 DEF SInv, EstOrder

\* removeConnection passes it on from the guard: to the base loop's queue, or, on the
\* base loop, to its destruction.
LEMMA RemoveConnectionKeeps ==
  ASSUME SInv, NEW l \in LoopId, removeConnection(l)
  PROVE  SInv'
<1>0. PICK c \in Conn : c = closing[l]
  BY DEF SInv, ServerTypeOK, removeConnection
<1> DEFINE e == Call(IF l = 0 THEN "connectDestoryed" ELSE "removeConnectionInLoop", c)
<1>1. /\ UNCHANGED <<acceptVars, state, index, told, revived, life, userVars>>
      /\ closing[l] = c /\ closing' = [closing EXCEPT ![l] = 0]
      /\ loopOf[c] = l /\ state[c] # "none"
      /\ state[c] = "kDisconnected" \/ c \in revived
  <2>1. c # 0 /\ loopOf[c] = l /\ (state[c] = "kDisconnected" \/ c \in revived)
    BY <1>0, Ids DEF SInv, Closing
  <2>2. state[c] # "none"
    BY <2>1 DEF SInv, Youth, Young
  <2>. QED  BY <1>0, <2>1, <2>2 DEF removeConnection, erase, destroyLater, connVars
<1>2. /\ e \in Functor /\ e.conn = c /\ e.early = TRUE
      /\ e.run = IF l = 0 THEN "connectDestoryed" ELSE "removeConnectionInLoop"
  BY Calls
<1>3. /\ connections_' = IF l = 0 THEN connections_ \ {c} ELSE connections_
      /\ ToBack(0, e)
  BY <1>1 DEF removeConnection, erase, destroyLater, ToBack
<1>4. /\ queue' \in [LoopId -> Seq(Functor)] /\ EstOrder'
      /\ \A k \in LoopId : Elems(queue'[k]) = Elems(queue[k]) \cup (IF k = 0 THEN {e} ELSE {})
      /\ \A k \in LoopId : \A d \in Conn : Covered(queue[k], d) => Covered(queue'[k], d)
      /\ l = 0 => Covered(queue'[l], c)
  <2>1. e.run # "connectEstablished" /\ e.run \notin Bare
    BY <1>2 DEF Bare
  <2>2. l = 0 => e = Call("connectDestoryed", c)
    OBVIOUS
  <2> HIDE DEF e
  <2>3. Pushing(queue, 0, e, queue') /\ EstOrder'
    BY <1>2, <1>3, <2>1, CallPushes, Ids
  <2>. QED  BY <1>1, <2>1, <2>2, <2>3 DEF Pushing
<1>5. IInv'
  BY <1>1, PoolUnchanged DEF SInv, acceptVars
<1>6. ServerTypeOK'
  BY <1>1, <1>3, <1>4, <1>5 DEF SInv, IInv, ServerTypeOK, acceptVars, userVars
<1>7. Fresh' /\ Youth' /\ Inside' /\ Alive' /\ Closing' /\ Removed' /\ Phases' /\ Reports'
  BY <1>1, <1>3, Ids DEF SInv, ServerTypeOK, Fresh, Youth, Inside, Reports, Alive, Closing, Removed, Phases, Young, vars, acceptVars, userVars
<1>8. QueueFits'
  <2> HIDE DEF e
  <2>1. Fits(0, e)'
    BY <1>1, <1>2 DEF Fits, Bare, acceptVars, userVars
  <2>2. \A k \in LoopId : \A x \in Elems(queue[k]) : Fits(k, x)'
    BY <1>1 DEF SInv, QueueFits, Fits, Young, acceptVars, userVars
  <2>. QED  BY <1>4, <2>1, <2>2 DEF QueueFits
<1>9. /\ \A d \in Conn : /\ d # c /\ HeldUp(d) => HeldUp(d)'
                         /\ Doomed(d) => Doomed(d)'
      /\ IF l = 0 THEN Doomed(c)' ELSE HeldUp(c)'
  <2>1. /\ \A k \in LoopId : Elems(queue[k]) \subseteq Elems(queue'[k])
        /\ e \in Elems(queue'[0])
    BY <1>4, Ids
  <2>2. /\ loopOf' = loopOf /\ connections_ \subseteq connections_' \cup {c}
        /\ \A d \in Conn : loopOf[d] \in LoopId /\ (d # c /\ closing[loopOf[d]] = d => closing'[loopOf[d]] = d)
    BY <1>1, <1>3, Ids DEF SInv, ServerTypeOK, acceptVars
  <2>. QED  BY <1>1, <2>1, <2>2, Ids DEF HeldUp, Doomed
<1>10. Chain'
  <2>1. \A d \in Conn : Call("connectEstablished", d) # e
    BY <1>2, Calls
  <2>2. \A k \in LoopId : \A d \in Conn :
          Call("connectEstablished", d) \in Elems(queue'[k]) => Call("connectEstablished", d) \in Elems(queue[k])
    BY <1>4, <2>1
  <2>. QED  BY <1>1, <1>9, <2>2 DEF SInv, ServerTypeOK, Chain, acceptVars
<1>11. SendsHeld'
  BY <1>1, <1>4, <1>9 DEF SInv, ServerTypeOK, SendsHeld, acceptVars
<1>. QED  BY <1>4, <1>5, <1>6, <1>7, <1>8, <1>10, <1>11 DEF SInv

\* A send or shutdown is queued as early only while something else holds its connection.
LEMMA PostKeeps ==
  ASSUME SInv, threadRunInLoop \/ threadShutdownInLoop
  PROVE  SInv'
<1>0. PICK c \in Conn, r \in Bare : /\ Post(r, c) /\ ~Young(c)
                                  /\ calling' \in {calling, 0} /\ shutting' \in {shutting, 0}
                                  /\ stored' \in BOOLEAN /\ Inside'
                                  /\ UNCHANGED <<acceptVars, connVars, closing, life, held, dtor>>
  <2>1. CASE threadRunInLoop
    <3>1. calling \in Conn /\ "sendInLoop" \in Bare
      BY <2>1 DEF SInv, ServerTypeOK, threadRunInLoop, Bare
    <3>2. Post("sendInLoop", calling) /\ ~Young(calling)
      BY <2>1, <3>1 DEF SInv, Youth, threadRunInLoop
    <3>. QED  BY <2>1, <3>1, <3>2 DEF SInv, ServerTypeOK, Inside, threadRunInLoop
  <2>2. CASE threadShutdownInLoop
    <3>1. shutting \in Conn /\ "shutdownInLoop" \in Bare
      BY <2>2 DEF SInv, ServerTypeOK, Inside, threadShutdownInLoop, Bare
    <3>2. Post("shutdownInLoop", shutting) /\ ~Young(shutting)
      BY <2>2, <3>1 DEF SInv, Youth, threadShutdownInLoop
    <3>. QED  BY <2>2, <3>1, <3>2 DEF SInv, ServerTypeOK, Inside, threadShutdownInLoop
  <2>. QED  BY <2>1, <2>2
<1>l. PICK l \in LoopId : l = loopOf[c]
  BY DEF SInv, ServerTypeOK
<1>1. PICK b \in BOOLEAN : b = ~Condemned(c)
  OBVIOUS
<1> DEFINE e == [run |-> r, conn |-> c, early |-> b]
<1>2. /\ UNCHANGED <<acceptVars, connVars, closing, life, held, dtor>>
      /\ calling' \in {calling, 0} /\ shutting' \in {shutting, 0} /\ stored' \in BOOLEAN /\ Inside'
      /\ l = loopOf[c] /\ ~Young(c)
      /\ IF life[l] = "gone" THEN queue' = queue ELSE ToBack(l, e)
  BY <1>0, <1>l, <1>1 DEF Post
<1>3. /\ e \in Functor /\ e.run \in Bare /\ e.conn = c /\ e.early = b
      /\ e.run # "connectEstablished" /\ e.run # "removeConnectionInLoop"
      /\ e.run # "connectDestoryed"
  BY DEF Functor, Bare
<1>4. IInv'
  BY <1>2, PoolUnchanged DEF SInv, acceptVars
<1>5. Fresh' /\ Youth' /\ Alive' /\ Closing' /\ Removed' /\ Reports' /\ Phases'
  BY <1>2, Ids DEF SInv, Fresh, Youth, Alive, Closing, Removed, Reports, Phases, Young, vars, acceptVars, connVars
<1>6. CASE life[l] = "gone"
  <2>1. queue' = queue
    BY <1>2, <1>6
  <2>2. ServerTypeOK'
    BY <1>2, <1>4, <2>1 DEF SInv, IInv, ServerTypeOK, acceptVars, connVars
  <2>3. QueueFits' /\ EstOrder' /\ Chain' /\ SendsHeld'
    BY <1>2, <2>1 DEF SInv, QueueFits, Fits, Young, EstOrder, Chain, SendsHeld, HeldUp, Doomed, acceptVars, connVars
  <2>. QED  BY <1>2, <1>4, <1>5, <2>2, <2>3 DEF SInv
<1>7. CASE life[l] # "gone"
  <2>1. HeldUp(c) \/ Condemned(c)
    <3>1. Doomed(c) => Condemned(c)
      BY <1>2 DEF Doomed, Condemned, Elems
    <3>2. index[c] \in {"new", "again"} => Condemned(c)
      BY <1>2 DEF Condemned, Young
    <3>3. index[c] \in {"added", "deleted"} => HeldUp(c) \/ Doomed(c)
      BY <1>2, <1>7 DEF SInv, Chain
    <3>4. index[c] \in {"new", "added", "deleted", "again"}
      BY <1>2 DEF SInv, ServerTypeOK
    <3>. QED  BY <3>1, <3>2, <3>3, <3>4
  <2>2. HeldUp(c) \/ e.early = FALSE
    BY <1>1, <1>3, <2>1
  <2>3. Pushing(queue, l, e, queue') /\ EstOrder'
    BY <1>2, <1>3, <1>7, CallPushes
  <2>4. /\ queue' \in [LoopId -> Seq(Functor)]
        /\ \A k \in LoopId : Elems(queue'[k]) = Elems(queue[k]) \cup (IF k = l THEN {e} ELSE {})
    BY <2>3 DEF Pushing
  <2>5. \A d \in Conn : d # c /\ Covered(queue[loopOf[d]], d) => Covered(queue'[loopOf[d]], d)
    BY <1>3, <2>3 DEF SInv, ServerTypeOK, Pushing
  <2>6. HeldUp(c) \/ (Covered(queue[l], c) => Covered(queue'[l], c))
    BY <1>2, <1>3, <2>2, <2>3 DEF Pushing
  <2>7. ServerTypeOK'
    BY <1>2, <1>4, <2>4 DEF SInv, IInv, ServerTypeOK, acceptVars, connVars
  <2>8. QueueFits'
    <3>1. Fits(l, e)'
      BY <1>2, <1>3, <1>7 DEF Fits, Young, acceptVars, connVars
    <3>2. \A k \in LoopId : \A x \in Elems(queue[k]) : Fits(k, x)'
      BY <1>2 DEF SInv, QueueFits, Fits, Young, acceptVars, connVars
    <3>. QED  BY <2>4, <3>1, <3>2 DEF QueueFits
  <2>9. \A d \in Conn : (HeldUp(d) => HeldUp(d)') /\ (Doomed(d) => Doomed(d)')
    BY <1>2, <2>4, Ids DEF SInv, ServerTypeOK, HeldUp, Doomed, acceptVars, connVars
  <2>10. Chain'
    <3>1. \A d \in Conn : Call("connectEstablished", d) # e
      BY <1>3, Calls
    <3>2. \A k \in LoopId : \A d \in Conn :
            Call("connectEstablished", d) \in Elems(queue'[k]) => Call("connectEstablished", d) \in Elems(queue[k])
      BY <2>4, <3>1
    <3>. QED  BY <1>2, <2>9, <3>2 DEF SInv, ServerTypeOK, Chain, acceptVars, connVars
  <2>11. SendsHeld'
    BY <1>2, <2>5, <2>6, <2>9 DEF SInv, ServerTypeOK, SendsHeld, acceptVars, connVars
  <2>. QED  BY <1>2, <1>4, <1>5, <2>3, <2>7, <2>8, <2>10, <2>11 DEF SInv
<1>. QED  BY <1>6, <1>7
-----------------------------------------------------------------------------
\* A loop ends with what is still queued in it; its channels are not served again.
LEMMA LoopEndsKeeps ==
  ASSUME SInv, NEW l \in LoopId, loopEnds(l) \/ (l = 0 /\ destroyBase)
  PROVE  SInv'
<1>1. /\ UNCHANGED <<acceptVars, connVars, closing, userVars>>
      /\ life[l] \notin {"none", "gone"}
      /\ life' = [life EXCEPT ![l] = "gone"]
      /\ queue' = [queue EXCEPT ![l] = << >>]
  BY DEF loopEnds, destroyBase
<1>2. /\ life[0] = "gone" => dtor = "done"
      /\ life'[0] = "gone" => dtor = "done"
      /\ dtor # "no"
      /\ l = 0 => \A k \in LoopId \ {0} : life[k] \in {"none", "gone"}
  BY Ids DEF SInv, ServerTypeOK, Phases, loopEnds, destroyBase
<1>3. /\ queue' \in [LoopId -> Seq(Functor)]
      /\ \A k \in LoopId : queue'[k] = queue[k] \/ (k = l /\ queue'[k] = << >>)
      /\ life' \in [LoopId -> Lives]
  BY <1>1, ElemsEmpty DEF SInv, ServerTypeOK, Lives
<1>4. IInv'
  BY <1>1, PoolUnchanged DEF SInv, acceptVars
<1>5. ServerTypeOK'
  BY <1>1, <1>3, <1>4 DEF SInv, IInv, ServerTypeOK, acceptVars, connVars, userVars
<1>6. Fresh' /\ Youth' /\ Inside' /\ Closing' /\ Removed' /\ Reports'
  BY <1>1 DEF SInv, Fresh, Youth, Inside, Closing, Removed, Reports, Young, acceptVars, connVars, userVars
<1>7. Alive'
  BY <1>1 DEF SInv, ServerTypeOK, Alive, vars, acceptVars, connVars
<1>8. Phases'
  BY <1>1, <1>2 DEF SInv, ServerTypeOK, Phases, acceptVars, userVars
<1>9. QueueFits' /\ EstOrder'
  <2>1. \A k \in LoopId : \A x \in Elems(queue'[k]) : k # l /\ x \in Elems(queue[k])
    BY <1>1, <1>3, ElemsEmpty DEF SInv, ServerTypeOK
  <2>2. QueueFits'
    BY <1>1, <2>1 DEF SInv, ServerTypeOK, QueueFits, Fits, Young, acceptVars, connVars, userVars
  <2>3. EstFirst(<< >>)
    BY DEF EstFirst
  <2>. QED  BY <1>3, <2>2, <2>3 DEF SInv, EstOrder
<1>10. ASSUME NEW c \in Conn, state[c] # "none", l = 0, loopOf[c] # 0
       PROVE  life[loopOf[c]] = "gone"
  <2>1. life[loopOf[c]] # "none" /\ loopOf[c] \in LoopId
    BY <1>10 DEF SInv, ServerTypeOK, Alive
  <2>. QED  BY <1>2, <1>10, <2>1
<1>11. Chain'
  <2> SUFFICES ASSUME NEW c \in Conn, life'[loopOf'[c]] # "gone",
                      \/ index'[c] \in {"added", "deleted"}
                      \/ Call("connectEstablished", c) \in Elems(queue'[loopOf'[c]])
               PROVE  HeldUp(c)' \/ Doomed(c)'
    BY DEF Chain
  <2>1. /\ loopOf' = loopOf /\ loopOf[c] \in LoopId /\ loopOf[c] # l
        /\ queue'[loopOf[c]] = queue[loopOf[c]] /\ life[loopOf[c]] # "gone"
        /\ connections_' = connections_ /\ closing' = closing /\ index' = index
    BY <1>1, <1>3 DEF SInv, ServerTypeOK, acceptVars, connVars
  <2>2. HeldUp(c) \/ Doomed(c)
    BY <2>1 DEF SInv, Chain
  <2>3. state[c] # "none"
    <3>1. Call("connectEstablished", c) \in Elems(queue[loopOf[c]]) => state[c] # "none"
      BY <2>1, Calls DEF SInv, QueueFits, Fits
    <3>2. index[c] # "new" => state[c] # "none"
      BY DEF SInv, Youth, Young
    <3>. QED  BY <2>1, <3>1, <3>2
  <2>4. l # 0
    BY <1>10, <2>1, <2>3
  <2>5. queue'[0] = queue[0]
    BY <1>1, <2>4, Ids DEF SInv, ServerTypeOK
  <2>. QED  BY <2>1, <2>2, <2>5 DEF HeldUp, Doomed
<1>12. SendsHeld'
  <2> SUFFICES ASSUME NEW c \in Conn PROVE HeldUp(c)' \/ Covered(queue'[loopOf[c]], c)
    BY <1>1 DEF SendsHeld, acceptVars
  <2>1. loopOf[c] \in LoopId
    BY DEF SInv, ServerTypeOK
  <2>2. CASE loopOf[c] = l
    BY <1>1, <2>1, <2>2, CoveredEmpty DEF SInv, ServerTypeOK
  <2>3. CASE loopOf[c] # l /\ l # 0
    <3>1. queue'[0] = queue[0] /\ queue'[loopOf[c]] = queue[loopOf[c]]
      BY <1>1, <2>1, <2>3, Ids DEF SInv, ServerTypeOK
    <3>2. HeldUp(c) => HeldUp(c)'
      BY <1>1, <3>1 DEF HeldUp, acceptVars, connVars
    <3>. QED  BY <3>1, <3>2 DEF SInv, SendsHeld
  <2>4. CASE loopOf[c] # l /\ l = 0
    <3>1. queue'[loopOf[c]] = queue[loopOf[c]] /\ queue[loopOf[c]] \in Seq(Functor)
      BY <1>1, <2>1, <2>4 DEF SInv, ServerTypeOK
    <3>2. ASSUME NEW x \in Elems(queue[loopOf[c]]), x.run \in Bare, x.conn = c PROVE FALSE
      <4>1. life[loopOf[c]] # "gone" /\ state[c] # "none"
        BY <2>1, <3>2 DEF SInv, QueueFits, Fits
      <4>. QED  BY <1>10, <2>4, <4>1
    <3>. QED  BY <3>1, <3>2, CoveredIdle
  <2>. QED  BY <2>2, <2>3, <2>4
<1>. QED  BY <1>4, <1>5, <1>6, <1>7, <1>8, <1>9, <1>11, <1>12 DEF SInv

\* The end of ~TcpServer.
LEMMA DestroyAcceptorKeeps ==
  ASSUME SInv, destroyAcceptor
  PROVE  SInv'
<1>1. /\ UNCHANGED <<vars, started_, nextConnId_, loopOf, connVars, loopVars, held, threadVars>>
      /\ listening_' = FALSE /\ waiting' = 0 /\ dtor = "pool" /\ dtor' = "done"
      /\ \A l \in LoopId \ {0} : life[l] \in {"none", "gone"}
  BY DEF destroyAcceptor
<1>2. IInv'
  BY <1>1, PoolUnchanged DEF SInv
<1>3. ServerTypeOK'
  <2>1. listening_' \in BOOLEAN /\ started_' = started_
    BY <1>1
  <2>2. waiting' \in 0 .. MaxWaiting
    BY <1>1, ServerAssumption
  <2>. QED  BY <1>1, <1>2, <2>1, <2>2 DEF SInv, IInv, ServerTypeOK, connVars, loopVars, threadVars
<1>4. Fresh' /\ Youth' /\ Inside' /\ Alive' /\ Closing' /\ Removed' /\ Phases' /\ Reports'
  BY <1>1 DEF SInv, Fresh, Youth, Inside, Alive, Closing, Removed, Reports, Phases, Young, vars, connVars, loopVars, threadVars
<1>5. QueueFits' /\ EstOrder' /\ Chain' /\ SendsHeld'
  BY <1>1 DEF SInv, QueueFits, Fits, Young, EstOrder, Chain, SendsHeld, HeldUp, Doomed, connVars, loopVars
<1>. QED  BY <1>2, <1>3, <1>4, <1>5 DEF SInv

-----------------------------------------------------------------------------
\* The pool names a loop that has been started.
LEMMA NextLoopIs ==
  ASSUME SInv, loops_ # << >>, life[0] # "none"
  PROVE  nextLoop \in LoopId /\ life[nextLoop] # "none"
<1>1. /\ loops_ = [i \in 1 .. Len(loops_) |-> i - 1] /\ Len(loops_) \in 1 .. MaxThreads + 1
      /\ next_ \in Nat /\ next_ < Len(loops_)
  BY DEF SInv, IInv, Started, TypeOK, PositionInRange
<1>2. CASE Len(loops_) = 1
  BY <1>2, Ids DEF nextLoop
<1>3. CASE Len(loops_) # 1
  <2>1. turn \in 1 .. Len(loops_) - 1
    BY <1>1, <1>3 DEF turn
  <2>2. turn + 1 \in 1 .. Len(loops_) /\ (turn + 1) - 1 = turn
    BY <1>1, <2>1
  <2>3. nextLoop = turn
    BY <1>1, <1>3, <2>2 DEF nextLoop
  <2>4. turn \in LoopId /\ turn # 0 /\ turn < Len(loops_)
    BY <1>1, <2>1, BoundAssumption DEF LoopId
  <2>. QED  BY <2>3, <2>4 DEF SInv, Alive
<1>. QED  BY <1>2, <1>3

\* A new connection is entered in the map before anything is queued about it.
LEMMA NewConnectionKeeps ==
  ASSUME SInv, handleRead, nextConnId_' # nextConnId_
  PROVE  SInv'
<1>1. PICK c \in Conn, l \in LoopId : c = nextConnId_ /\ l = nextLoop
  <2>1. nextConnId_ \in Conn
    BY ServerAssumption DEF SInv, ServerTypeOK, handleRead, Conn
  <2>2. loops_ # << >> /\ life[0] # "none"
    BY DEF handleRead, getNextLoop, Free, Looping
  <2>. QED  BY <2>1, <2>2, NextLoopIs
<1> DEFINE e == Call("connectEstablished", c)
<1>2. /\ getNextLoop /\ newConnection(c, l) /\ waiting' = waiting - 1 /\ waiting > 0
      /\ listening_' = listening_ /\ listening_ /\ life[0] # "none" /\ loops_ # << >>
      /\ UNCHANGED <<started_, closing, life, userVars>>
  <2>1. Cardinality(Open) < MaxOpen
    BY DEF handleRead, acceptFails
  <2>. QED  BY <1>1, <2>1 DEF handleRead, getNextLoop, Free, Looping
<1>3. /\ nextConnId_' = c + 1 /\ loopOf' = [loopOf EXCEPT ![c] = l]
      /\ connections_' = connections_ \cup {c}
      /\ state' = [state EXCEPT ![c] = IF l = 0 THEN "kConnected" ELSE "kConnecting"]
      /\ index' = [index EXCEPT ![c] = IF l = 0 THEN "added" ELSE @]
      /\ told' = [told EXCEPT ![c] = IF l = 0 THEN Append(@, "up") ELSE @]
      /\ revived' = revived
      /\ IF l = 0 THEN queue' = queue ELSE ToBack(l, e)
  BY <1>2 DEF SInv, ServerTypeOK, newConnection, enter, Tell
<1>4. /\ state[c] = "none" /\ index[c] = "new" /\ calling # c /\ c \notin connections_
      /\ c \notin revived /\ shutting # c /\ c \notin held /\ told[c] = << >>
      /\ life[l] # "none"
  <2>1. c \in Nat /\ c >= nextConnId_
    BY <1>1, Ids
  <2>. QED  BY <1>1, <1>2, <2>1, NextLoopIs DEF SInv, Fresh, Youth, Reports, Young
<1>5. \A k \in LoopId : \A x \in Elems(queue[k]) : x.conn # c
  BY <1>4 DEF SInv, QueueFits, Fits
<1>6. /\ queue' \in [LoopId -> Seq(Functor)] /\ EstOrder'
      /\ \A k \in LoopId : Elems(queue[k]) \subseteq Elems(queue'[k])
      /\ \A k \in LoopId : \A x \in Elems(queue'[k]) : x \in Elems(queue[k]) \/ (x = e /\ k = l /\ l # 0)
      /\ \A k \in LoopId : \A d \in Conn : Covered(queue[k], d) => Covered(queue'[k], d)
  <2>1. e \in Functor /\ e.run = "connectEstablished" /\ e.conn = c
    BY Calls
  <2> HIDE DEF e
  <2>2. CASE l = 0
    BY <1>3, <2>2 DEF SInv, ServerTypeOK, EstOrder
  <2>3. CASE l # 0
    <3>1. Pushing(queue, l, e, queue') /\ EstOrder'
      BY <1>3, <1>5, <2>1, <2>3, CallPushes
    <3>. QED  BY <2>1, <2>3, <3>1 DEF Pushing, Bare
  <2>. QED  BY <2>2, <2>3
<1>7. IInv'
  BY <1>2, GetNextLoopKeeps DEF SInv
<1>8. ServerTypeOK'
  <2>1. nextConnId_' \in 1 .. MaxConns + 1 /\ waiting' \in 0 .. MaxWaiting
    BY <1>2, <1>3, ServerAssumption DEF SInv, ServerTypeOK, Conn
  <2>2. started_' \in BOOLEAN /\ listening_' \in BOOLEAN
    BY <1>2 DEF SInv, ServerTypeOK
  <2>3. told' \in [Conn -> Seq({"up", "down"})]
    BY <1>3, Telling DEF SInv, ServerTypeOK
  <2>. QED  BY <1>2, <1>3, <1>6, <1>7, <2>1, <2>2, <2>3 DEF SInv, IInv, ServerTypeOK, userVars, States
<1>9. Fresh'
  <2>1. \A d \in Conn : d >= nextConnId_' <=> d >= nextConnId_ /\ d # c
    BY <1>1, <1>3, Ids
  <2>. QED  BY <1>3, <1>4, <2>1 DEF SInv, ServerTypeOK, Fresh
<1>10. Youth' /\ Inside' /\ Closing' /\ Removed'
  BY <1>2, <1>3, <1>4, Ids DEF SInv, ServerTypeOK, Youth, Inside, Closing, Removed, Young, userVars
<1>11. Alive'
  BY <1>2, <1>3, <1>4 DEF SInv, ServerTypeOK, Alive, getNextLoop
<1>12. Phases'
  <2>1. started_
    BY <1>2 DEF SInv, Phases
  <2>. QED  BY <1>2, <2>1 DEF SInv, Phases, userVars
<1>13. QueueFits'
  <2> SUFFICES ASSUME NEW k \in LoopId, NEW x \in Elems(queue'[k]) PROVE Fits(k, x)'
    BY DEF QueueFits
  <2>1. CASE x \in Elems(queue[k])
    <3>1. x.conn \in Conn /\ x.conn # c /\ Fits(k, x)
      BY <1>5, <2>1, QueuedTyped DEF SInv, QueueFits
    <3>. QED  BY <1>2, <1>3, <3>1 DEF SInv, ServerTypeOK, Fits, Young, userVars
  <2>2. CASE x = e /\ k = l /\ l # 0
    <3>1. x.run = "connectEstablished" /\ x.conn = c /\ x.early = TRUE
      BY <2>2, Calls
    <3>. QED  BY <1>3, <2>2, <3>1 DEF SInv, ServerTypeOK, Fits, Bare
  <2>. QED  BY <1>6, <2>1, <2>2
<1>14. \A d \in Conn : /\ HeldUp(c)'
                       /\ d # c /\ HeldUp(d) => HeldUp(d)'
                       /\ d # c /\ Doomed(d) => Doomed(d)'
  BY <1>2, <1>3, <1>6, Ids DEF SInv, ServerTypeOK, HeldUp, Doomed
<1>15. Chain'
  <2>1. \A k \in LoopId : \A d \in Conn : d # c /\
          Call("connectEstablished", d) \in Elems(queue'[k]) => Call("connectEstablished", d) \in Elems(queue[k])
    <3>1. \A d \in Conn : d # c => Call("connectEstablished", d) # e
      BY Calls
    <3>. QED  BY <1>6, <3>1
  <2>. QED  BY <1>2, <1>3, <1>14, <2>1 DEF SInv, ServerTypeOK, Chain
<1>16. SendsHeld'
  BY <1>3, <1>6, <1>14 DEF SInv, ServerTypeOK, SendsHeld
<1>17. Reports'
  BY <1>3, <1>4, Telling DEF SInv, ServerTypeOK, Reports, Young
<1>. QED  BY <1>6, <1>7, <1>8, <1>9, <1>10, <1>11, <1>12, <1>13, <1>15, <1>16, <1>17 DEF SInv

\* A step of something else.
LEMMA ServerUnchanged == ASSUME SInv, UNCHANGED serverVars PROVE SInv'
<1>1. UNCHANGED <<vars, started_, listening_, nextConnId_, loopOf, waiting, connVars, loopVars, userVars>>
  BY DEF serverVars, acceptVars
<1>2. IInv'
  BY <1>1, PoolUnchanged DEF SInv
<1>3. ServerTypeOK'
  BY <1>1, <1>2 DEF SInv, IInv, ServerTypeOK, connVars, loopVars, userVars
<1>4. Fresh' /\ Youth' /\ Inside' /\ Alive' /\ Closing' /\ Removed' /\ Phases' /\ Reports'
  BY <1>1 DEF SInv, Fresh, Youth, Inside, Alive, Closing, Removed, Reports, Phases, Young, vars, connVars, loopVars, userVars
<1>5. QueueFits' /\ EstOrder' /\ Chain' /\ SendsHeld'
  BY <1>1 DEF SInv, QueueFits, Fits, Young, EstOrder, Chain, SendsHeld, HeldUp, Doomed, connVars, loopVars, userVars
<1>. QED  BY <1>2, <1>3, <1>4, <1>5 DEF SInv

\* A server that was just built.
LEMMA ServerStarts == ServerInit => SInv
<1> SUFFICES ASSUME ServerInit PROVE SInv
  OBVIOUS
<1>1. IInv
  BY PoolInit DEF ServerInit
<1>2. \A l \in LoopId : queue[l] = << >> /\ Elems(queue[l]) = {}
  BY ElemsEmpty DEF ServerInit
<1>3. ServerTypeOK
  BY <1>1, Ids, ServerAssumption, ElemsEmpty, Telling DEF ServerInit, IInv, ServerTypeOK, States, Lives
<1>4. Fresh /\ Youth /\ Inside /\ Closing /\ Removed /\ Reports
  BY Ids, ServerAssumption DEF ServerInit, Fresh, Youth, Inside, Closing, Removed, Reports, Young, Conn
<1>5. Alive /\ Phases
  BY Ids, EmptySeq DEF ServerInit, Init, Alive, Phases
<1>6. QueueFits /\ Chain
  <2>1. \A c \in Conn : index[c] = "new" /\ loopOf[c] \in LoopId
    BY <1>3 DEF ServerInit, ServerTypeOK
  <2>. QED  BY <1>2, <2>1 DEF QueueFits, Chain
<1>7. EstOrder /\ SendsHeld
  BY <1>2, <1>3, CoveredEmpty DEF EstOrder, EstFirst, SendsHeld, ServerTypeOK
<1>. QED  BY <1>1, <1>3, <1>4, <1>5, <1>6, <1>7 DEF SInv

\* The invariant behind the results below.
THEOREM ServerInductive == ServerSpec => []SInv
<1>1. SInv /\ [ServerNext]_serverVars => SInv'
  <2> SUFFICES ASSUME SInv, [ServerNext]_serverVars PROVE SInv'
    OBVIOUS
  <2>1. CASE \E n \in 0 .. MaxThreads : setServerThreadNum(n)
    BY <2>1, StartServerKeeps
  <2>2. CASE serverStart
    BY <2>2, StartServerKeeps
  <2>3. CASE handleRead
    <3>1. CASE nextConnId_' # nextConnId_
      BY <2>3, <3>1, NewConnectionKeeps
    <3>2. CASE nextConnId_' = nextConnId_
      <4>1. nextConnId_ \in Nat
        BY ServerAssumption DEF SInv, ServerTypeOK
      <4>2. ~newConnection(nextConnId_, nextLoop)
        BY <3>2, <4>1 DEF newConnection
      <4>3. /\ acceptFails /\ UNCHANGED <<vars, nextConnId_, loopOf, waiting, connVars, queue>>
            /\ UNCHANGED <<started_, closing, life, userVars>>
        BY <2>3, <4>2 DEF handleRead
      <4>4. UNCHANGED serverVars
        BY <4>3 DEF acceptFails, serverVars, acceptVars, loopVars
      <4>. QED  BY <4>4, ServerUnchanged
    <3>. QED  BY <3>1, <3>2
  <2>4. ASSUME NEW l \in LoopId, enterLoop(l) \/ RunFunctor(l) \/ removeConnection(l) \/ loopEnds(l)
        PROVE  SInv'
    BY <2>4, LifeKeeps, EstablishedKeeps, DestroyedKeeps, BareKeeps, RemoveInLoopKeeps, RemoveConnectionKeeps, LoopEndsKeeps DEF RunFunctor
  <2>5. ASSUME NEW c \in Conn,
               \/ handleClose(c) \/ shutdown(c) \/ keep(c) \/ release(c)
               \/ threadSend(c) \/ threadShutdown(c)
        PROVE  SInv'
    BY <2>5, HandleCloseKeeps, ShutdownKeeps, UserKeeps
  <2>6. CASE threadRunInLoop \/ threadShutdownInLoop
    BY <2>6, PostKeeps
  <2>10. CASE threadSetState
    <3>1. shutting \in Conn
      BY <2>10 DEF SInv, ServerTypeOK, threadSetState
    <3>. QED  BY <2>10, <3>1, ShutdownKeeps
  <2>7. CASE Client \/ baseReturns \/ destroyServer
    BY <2>7, LifeKeeps
  <2>8. CASE Destructor
    BY <2>8, DestroyConnectionKeeps, LifeKeeps, DestroyAcceptorKeeps, LoopEndsKeeps, Ids DEF Destructor
  <2>9. CASE UNCHANGED serverVars
    BY <2>9, ServerUnchanged
  <2>. QED  BY <2>1, <2>2, <2>3, <2>4, <2>5, <2>6, <2>7, <2>8, <2>9, <2>10 DEF ServerNext
<1>. QED  BY <1>1, ServerStarts, PTL DEF ServerSpec

\* Every reachable state has the types of the code's variables.
THEOREM ServerTypeOKHolds == ServerSpec => []ServerTypeOK
<1>1. SInv => ServerTypeOK
  BY DEF SInv
<1>. QED  BY <1>1, ServerInductive, PTL

\* The pool deals connections out evenly also while the server uses and destroys it.
THEOREM ServerRoundRobin == ServerSpec => []RoundRobin
<1>1. IInv => RoundRobin
  BY RoundRobinOf
<1>2. SInv => IInv
  BY DEF SInv
<1>. QED  BY <1>1, <1>2, ServerInductive, PTL

\* The connection of a functor that is not bare is held.
LEMMA QueuedHolds ==
  ASSUME SInv, NEW l \in LoopId, NEW x \in Elems(queue[l]), x.run \notin Bare
  PROVE  Owned(x.conn)
<1>1. PICK i \in 1 .. Len(queue[l]) : x = queue[l][i]
  BY DEF Elems
<1>. QED  BY <1>1 DEF Owned

\* Whatever connects a connection to the rest holds it.
LEMMA Holders ==
  ASSUME SInv, NEW c \in Conn, HeldUp(c) \/ Doomed(c)
  PROVE  Owned(c)
<1>1. loopOf[c] \in LoopId /\ 0 \in LoopId
  BY Ids DEF SInv, ServerTypeOK
<1>2. CASE c \in connections_ \/ closing[loopOf[c]] = c
  BY <1>1, <1>2 DEF Owned
<1>3. CASE Call("removeConnectionInLoop", c) \in Elems(queue[0])
  <2>1. /\ Call("removeConnectionInLoop", c).run \notin Bare
        /\ Call("removeConnectionInLoop", c).conn = c
    BY Calls
  <2>. QED  BY <1>1, <1>3, <2>1, QueuedHolds
<1>4. CASE Doomed(c)
  <2>1. Call("connectDestoryed", c).run \notin Bare /\ Call("connectDestoryed", c).conn = c
    BY Calls
  <2>. QED  BY <1>1, <1>4, <2>1, QueuedHolds DEF Doomed
<1>. QED  BY <1>2, <1>3, <1>4 DEF HeldUp

\* A channel the poller of a living loop points to belongs to a connection that somebody
\* holds, in whatever order the loops, the closing connections and ~TcpServer go on; but
\* for one that a late send registered again, which takes ~TcpServer or a shutdown that
\* overwrote kDisconnected.
THEOREM RegisteredAreOwnedHolds == ServerSpec => []RegisteredAreOwned
<1>1. SInv => RegisteredAreOwned
  <2> SUFFICES ASSUME SInv, NEW c \in Conn, index[c] # "new", life[loopOf[c]] # "gone"
               PROVE  Owned(c) \/ (index[c] = "again" /\ (dtor # "no" \/ c \in revived))
    BY DEF RegisteredAreOwned
  <2>1. CASE index[c] = "again"
    BY <2>1 DEF SInv, Removed
  <2>2. CASE index[c] # "again"
    <3>1. index[c] \in {"added", "deleted"}
      BY <2>2 DEF SInv, ServerTypeOK
    <3>2. HeldUp(c) \/ Doomed(c)
      BY <3>1 DEF SInv, Chain
    <3>. QED  BY <3>2, Holders
  <2>. QED  BY <2>1, <2>2
<1>. QED  BY <1>1, ServerInductive, PTL

\* A send brings a removed channel back only of a connection that ~TcpServer destroys or
\* whose kDisconnected a shutdown on another thread has overwritten.
THEOREM RemovedForGoodHolds == ServerSpec => []RemovedForGood
<1>1. SInv => RemovedForGood
  BY DEF SInv, Removed, RemovedForGood
<1>. QED  BY <1>1, ServerInductive, PTL

\* The bare this in a queued send or shutdown is good for every one queued before the
\* connection's destruction, whatever the other threads do in between.
THEOREM QueuedSendIsSafeHolds == ServerSpec => []QueuedSendIsSafe
<1>1. SInv => QueuedSendIsSafe
  <2> SUFFICES ASSUME SInv, NEW l \in LoopId, NEW i \in 1 .. Len(queue[l]),
                      queue[l][i].run \in Bare, queue[l][i].early
               PROVE  Owned(queue[l][i].conn)
    BY DEF QueuedSendIsSafe
  <2>1. queue[l][i] \in Elems(queue[l])
    BY DEF Elems
  <2>2. PICK c \in Conn : c = queue[l][i].conn
    BY <2>1, QueuedTyped
  <2>3. l = loopOf[c]
    BY <2>1, <2>2 DEF SInv, QueueFits, Fits, Bare
  <2>4. CASE HeldUp(c)
    BY <2>2, <2>4, Holders
  <2>5. CASE Covered(queue[l], c)
    <3>1. Doomed(c)
      <4>1. PICK j \in 1 .. Len(queue[l]) : queue[l][j] = Call("connectDestoryed", c)
        BY <2>2, <2>5 DEF Covered
      <4>2. Call("connectDestoryed", c) \in Elems(queue[l])
        BY <4>1 DEF Elems
      <4>. QED  BY <2>3, <4>2 DEF Doomed
    <3>. QED  BY <2>2, <3>1, Holders
  <2>. QED  BY <2>3, <2>4, <2>5 DEF SInv, SendsHeld
<1>. QED  BY <1>1, ServerInductive, PTL
=============================================================================
