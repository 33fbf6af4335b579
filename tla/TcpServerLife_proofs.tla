------------------------ MODULE TcpServerLife_proofs ------------------------
(***************************************************************************)
(* TcpServer implements ConnectionLife, for any number of loops,           *)
(* connections, clients and sends: every step of a server maps to one step *)
(* of the life of its connections, or to none.  The invariant is that of   *)
(* TcpServer_proofs.                                                       *)
(***************************************************************************)
EXTENDS TcpServer_proofs

\* Does a functor in the queue q hold c?
Queued(q, c) == \E x \in Elems(q) : x.conn = c /\ x.run \notin Bare

\* Owned in terms of what is in the queues, not of where.
LEMMA OwnedIs ==
  ASSUME NEW c \in Conn
  PROVE  Owned(c) <=> \/ c \in connections_ \/ c \in held
                      \/ \E l \in LoopId : closing[l] = c \/ Queued(queue[l], c)
<1>1. \A l \in LoopId : Queued(queue[l], c) <=>
        \E i \in 1 .. Len(queue[l]) : queue[l][i].conn = c /\ queue[l][i].run \notin Bare
  BY DEF Queued, Elems
<1>. QED  BY <1>1 DEF Owned

\* The same after a step.
LEMMA OwnedNext ==
  ASSUME NEW c \in Conn
  PROVE  Owned(c)' <=> \/ c \in connections_' \/ c \in held'
                       \/ \E l \in LoopId : closing'[l] = c \/ Queued(queue'[l], c)
<1>1. \A l \in LoopId : Queued(queue'[l], c) <=>
        \E i \in 1 .. Len(queue'[l]) : queue'[l][i].conn = c /\ queue'[l][i].run \notin Bare
  BY DEF Queued, Elems
<1>. QED  BY <1>1 DEF Owned

\* The phase of a connection as a function of its state and of who holds it.
LEMMA PhaseIs ==
  ASSUME ServerTypeOK, NEW c \in Conn
  PROVE  phase[c] = IF state[c] # "none" /\ ~Owned(c) THEN "freed"
                    ELSE IF c \in revived THEN "spoiled"
                    ELSE IF state[c] = "none" THEN "absent"
                    ELSE IF state[c] = "kConnecting" THEN "accepted"
                    ELSE IF state[c] = "kDisconnected" THEN "down" ELSE "up"
<1>1. state[c] \in States
  BY DEF ServerTypeOK
<1>. QED  BY <1>1 DEF phase, phaseOf, Freed, States

\* The same after a step.
LEMMA PhaseNext ==
  ASSUME ServerTypeOK', NEW c \in Conn
  PROVE  phase'[c] = IF state'[c] # "none" /\ ~Owned(c)' THEN "freed"
                     ELSE IF c \in revived' THEN "spoiled"
                     ELSE IF state'[c] = "none" THEN "absent"
                     ELSE IF state'[c] = "kConnecting" THEN "accepted"
                     ELSE IF state'[c] = "kDisconnected" THEN "down" ELSE "up"
<1>1. state'[c] \in States
  BY DEF ServerTypeOK
<1>. QED  BY <1>1 DEF phase, phaseOf, Freed, States

\* What a connection is promised, before and after a step.
LEMMA PromisedIs ==
  ASSUME NEW c \in Conn
  PROVE  /\ promised[c] = IF c \in revived THEN << >> ELSE told[c]
         /\ promised'[c] = IF c \in revived' THEN << >> ELSE told'[c]
<1>1. promised[c] = IF c \in revived THEN << >> ELSE told[c]
  BY DEF promised
<1>2. promised'[c] = IF c \in revived' THEN << >> ELSE told'[c]
  BY DEF promised
<1>. QED  BY <1>1, <1>2

\* A phase and a promise of each connection and nothing else.
LEMMA PhaseMaps == /\ phase = [d \in Conn |-> phase[d]]
                   /\ phase' = [d \in Conn |-> phase'[d]]
                   /\ promised = [d \in Conn |-> promised[d]]
                   /\ promised' = [d \in Conn |-> promised'[d]]
<1>1. phase = [d \in Conn |-> phase[d]]
  BY DEF phase
<1>2. phase' = [d \in Conn |-> phase'[d]]
  BY DEF phase
<1>3. promised = [d \in Conn |-> promised[d]]
  BY DEF promised
<1>4. promised' = [d \in Conn |-> promised'[d]]
  BY DEF promised
<1>. QED  BY <1>1, <1>2, <1>3, <1>4

\* A step that tells a connection nothing and does not revive it.
Silent(c) == told'[c] = told[c] /\ (c \in revived' <=> c \in revived)

\* A step that also leaves it its state, and its holders if it exists.
Same(c) == /\ Silent(c) /\ state'[c] = state[c]
           /\ state[c] # "none" => (Owned(c)' <=> Owned(c))

\* It leaves the connection its phase.
LEMMA SamePhase ==
  ASSUME ServerTypeOK, ServerTypeOK', NEW c \in Conn, Same(c)
  PROVE  phase'[c] = phase[c] /\ promised'[c] = promised[c]
BY PhaseIs, PhaseNext, PromisedIs DEF Same, Silent

\* A step after which every connection is where it was is a stutter.
LEMMA Stutter ==
  ASSUME ServerTypeOK, ServerTypeOK', \A c \in Conn : Same(c), dtor' # "no" <=> dtor # "no"
  PROVE  UNCHANGED Life!vars
<1>1. \A c \in Conn : phase'[c] = phase[c] /\ promised'[c] = promised[c]
  BY SamePhase
<1>2. phase' = phase /\ promised' = promised
  BY <1>1, PhaseMaps
<1>. QED  BY <1>2 DEF Life!vars

\* A step that moves one connection only.
LEMMA OneMoves ==
  ASSUME ServerTypeOK, ServerTypeOK', NEW c \in Conn, \A d \in Conn \ {c} : Same(d)
  PROVE  /\ phase' = [phase EXCEPT ![c] = phase'[c]]
         /\ promised' = [promised EXCEPT ![c] = promised'[c]]
<1>1. \A d \in Conn \ {c} : phase'[d] = phase[d] /\ promised'[d] = promised[d]
  BY SamePhase
<1>2. phase' = [phase EXCEPT ![c] = phase'[c]]
  BY <1>1, PhaseMaps
<1>3. promised' = [promised EXCEPT ![c] = promised'[c]]
  BY <1>1, PhaseMaps
<1>. QED  BY <1>2, <1>3

\* A step that lets go of the connections in S.
LEMMA Frees ==
  ASSUME ServerTypeOK, ServerTypeOK', NEW S \in SUBSET Conn, dtor' # "no" <=> dtor # "no",
         \A d \in Conn \ S : Same(d),
         \A d \in S : /\ state[d] # "none" /\ Owned(d) /\ state'[d] # "none" /\ ~Owned(d)'
                      /\ state[d] = "kDisconnected" \/ d \in revived \/ dtor # "no"
                      /\ Silent(d)
  PROVE  Life!Next
<1>1. /\ \A d \in Conn : phase'[d] = IF d \in S THEN "freed" ELSE phase[d]
      /\ \A d \in Conn : promised'[d] = promised[d]
  BY SamePhase, PhaseNext, PromisedIs DEF Silent
<1>2. phase' = [d \in Conn |-> IF d \in S THEN "freed" ELSE phase[d]]
  BY <1>1, PhaseMaps
<1>3. promised' = promised
  BY <1>1, PhaseMaps
<1>4. \A d \in S : \/ phase[d] \in {"down", "spoiled"}
                  \/ (dtor # "no" /\ phase[d] \in {"accepted", "up"})
  BY PhaseIs
<1>5. Life!free(S)
  BY <1>2, <1>3, <1>4 DEF Life!free
<1>. QED  BY <1>5 DEF Life!Next
-----------------------------------------------------------------------------
\* Connections whose holders a step does not touch.
LEMMA HoldersSame ==
  ASSUME NEW c \in Conn, state'[c] = state[c], Silent(c),
         c \in connections_' <=> c \in connections_,
         c \in held' <=> c \in held,
         \A l \in LoopId : /\ closing'[l] = c <=> closing[l] = c
                           /\ Queued(queue'[l], c) <=> Queued(queue[l], c)
  PROVE  Same(c)
BY OwnedIs, OwnedNext DEF Same

\* Steps that touch no connection.
LEMMA QuietSteps ==
  ASSUME ServerTypeOK, ServerTypeOK',
         UNCHANGED <<state, told, revived, connections_, held, closing, queue>>,
         dtor' # "no" <=> dtor # "no"
  PROVE  UNCHANGED Life!vars
BY HoldersSame, Stutter DEF Silent

\* Holders after a step.
LEMMA HoldersNext ==
  ASSUME SInv', NEW c \in Conn, HeldUp(c)' \/ Doomed(c)'
  PROVE  Owned(c)'
<1>1. loopOf'[c] \in LoopId /\ 0 \in LoopId
  BY Ids DEF SInv, ServerTypeOK
<1>2. CASE c \in connections_' \/ closing'[loopOf'[c]] = c
  BY <1>1, <1>2, OwnedNext
<1>3. CASE Call("removeConnectionInLoop", c) \in Elems(queue'[0])
  <2>1. /\ Call("removeConnectionInLoop", c).run \notin Bare
        /\ Call("removeConnectionInLoop", c).conn = c
    BY Calls
  <2>2. Queued(queue'[0], c)
    BY <1>3, <2>1 DEF Queued
  <2>. QED  BY <1>1, <2>2, OwnedNext
<1>4. CASE Doomed(c)'
  <2>1. Call("connectDestoryed", c).run \notin Bare /\ Call("connectDestoryed", c).conn = c
    BY Calls
  <2>2. Queued(queue'[loopOf'[c]], c)
    BY <1>4, <2>1 DEF Queued, Doomed
  <2>. QED  BY <1>1, <2>2, OwnedNext
<1>. QED  BY <1>2, <1>3, <1>4 DEF HeldUp

\* A connection that is registered, or that can still be, is held.
LEMMA UpIsOwned ==
  ASSUME SInv, NEW c \in Conn, state[c] = "kConnected", life[loopOf[c]] # "gone"
  PROVE  Owned(c)
BY Holders DEF SInv, Removed, Chain

\* A pop takes away the holder it runs and no other.
LEMMA PoppedHolders ==
  ASSUME NEW q \in [LoopId -> Seq(Functor)], NEW l \in LoopId, NEW p, Popping(q, l, p),
         NEW c \in Conn, Head(q[l]).conn # c \/ Head(q[l]).run \in Bare, NEW k \in LoopId
  PROVE  Queued(p[k], c) <=> Queued(q[k], c)
<1>1. Elems(p[k]) \subseteq Elems(q[k]) /\ \A x \in Elems(q[k]) : x # Head(q[l]) => x \in Elems(p[k])
  BY DEF Popping
<1>. QED  BY <1>1 DEF Queued

\* A push adds the holder it queues and no other.
LEMMA PushedHolders ==
  ASSUME NEW q, NEW l \in LoopId, NEW e, NEW p, Pushing(q, l, e, p), NEW c \in Conn, NEW k \in LoopId
  PROVE  Queued(p[k], c) <=>
           Queued(q[k], c) \/ (k = l /\ e.conn = c /\ e.run \notin Bare)
<1>1. Elems(p[k]) = Elems(q[k]) \cup (IF k = l THEN {e} ELSE {})
  BY DEF Pushing
<1>. QED  BY <1>1 DEF Queued

\* handleRead: a connection that was absent is accepted, or, on the base loop, up.
LEMMA AcceptImplements ==
  ASSUME SInv, SInv', handleRead, nextConnId_' # nextConnId_
  PROVE  Life!Next
<1>1. PICK c \in Conn, l \in LoopId : c = nextConnId_ /\ l = nextLoop
  <2>1. nextConnId_ \in Conn
    BY ServerAssumption DEF SInv, ServerTypeOK, handleRead, Conn
  <2>2. loops_ # << >> /\ life[0] # "none"
    BY DEF handleRead, getNextLoop, Free, Looping
  <2>. QED  BY <2>1, <2>2, NextLoopIs
<1> DEFINE e == Call("connectEstablished", c)
<1>2. newConnection(c, l) /\ life[0] = "running" /\ UNCHANGED <<closing, userVars>>
  <2>1. Cardinality(Open) < MaxOpen
    BY DEF handleRead, acceptFails
  <2>2. life[0] = "running"
    BY DEF SInv, Phases, handleRead, Free, Looping
  <2>. QED  BY <1>1, <2>1, <2>2 DEF handleRead
<1>3. /\ dtor = "no" /\ dtor' = "no" /\ held' = held /\ closing' = closing
      /\ connections_' = connections_ \cup {c}
      /\ state' = [state EXCEPT ![c] = IF l = 0 THEN "kConnected" ELSE "kConnecting"]
      /\ told' = [told EXCEPT ![c] = IF l = 0 THEN Append(@, "up") ELSE @]
      /\ revived' = revived
      /\ IF l = 0 THEN queue' = queue ELSE ToBack(l, e)
  BY <1>2 DEF SInv, ServerTypeOK, Phases, newConnection, enter, Tell, userVars
<1>4. /\ state[c] = "none" /\ state \in [Conn -> States] /\ told \in [Conn -> Seq({"up", "down"})]
      /\ c \notin revived /\ ServerTypeOK /\ ServerTypeOK'
  <2>1. c \in Nat /\ c >= nextConnId_
    BY <1>1, Ids
  <2>. QED  BY <2>1 DEF SInv, ServerTypeOK, Fresh, Youth, Young
<1>5. \A d \in Conn \ {c} : \A k \in LoopId : Queued(queue'[k], d) <=> Queued(queue[k], d)
  <2>1. e \in Functor /\ e.conn = c /\ e.run = "connectEstablished"
    BY Calls
  <2>2. CASE l = 0
    BY <1>3, <2>2
  <2>3. CASE l # 0
    <3> HIDE DEF e
    <3>1. \A x \in Elems(queue[l]) : x.conn # c
      BY <1>4 DEF SInv, QueueFits, Fits
    <3>2. Pushing(queue, l, e, queue')
      BY <1>3, <2>1, <2>3, <3>1, CallPushes
    <3>. QED  BY <2>1, <3>2, PushedHolders
  <2>. QED  BY <2>2, <2>3
<1>6. \A d \in Conn \ {c} : Same(d)
  BY <1>3, <1>4, <1>5, HoldersSame DEF Silent
<1>7. /\ phase[c] = "absent"
      /\ \/ phase'[c] = "accepted" /\ promised'[c] = promised[c]
         \/ phase'[c] = "up" /\ promised'[c] = Append(promised[c], "up")
  <2>1. Owned(c)'
    BY <1>3, OwnedNext
  <2>. QED  BY <1>3, <1>4, <2>1, PhaseIs, PhaseNext, PromisedIs
<1>8. Life!accept(c)
  <2>1. /\ phase' = [phase EXCEPT ![c] = phase'[c]]
        /\ promised' = [promised EXCEPT ![c] = promised'[c]]
    BY <1>4, <1>6, OneMoves
  <2>2. promised'[c] = promised[c] => promised' = promised
    BY <2>1, PhaseMaps
  <2>. QED  BY <1>3, <1>7, <2>1, <2>2 DEF Life!accept, Life!Tell
<1>. QED  BY <1>8 DEF Life!Next

\* connectEstablished reports an accepted connection up.
LEMMA UpImplements ==
  ASSUME SInv, SInv', NEW l \in LoopId, NEW c \in Conn, connectEstablished(l, c)
  PROVE  Life!Next
<1>1. /\ UNCHANGED <<acceptVars, closing, life, userVars, connections_, revived>>
      /\ queue[l] # << >> /\ queue' = Pop(l) /\ life[l] # "gone"
      /\ state' = [state EXCEPT ![c] = "kConnected"]
      /\ told' = [told EXCEPT ![c] = Append(@, "up")]
  BY DEF connectEstablished, Tell, Runs, Free, Looping
<1>2. /\ Head(queue[l]) = Call("connectEstablished", c) /\ Head(queue[l]).conn = c
      /\ loopOf[c] = l /\ state[c] = "kConnecting"
      /\ Head(queue[l]) \in Elems(queue[l])
  <2>1. Head(queue[l]) = Call("connectEstablished", c) /\ loopOf[c] = l /\ state[c] = "kConnecting"
    BY HeadIs, Calls DEF connectEstablished, Runs, Fits
  <2>2. Head(queue[l]) \in Elems(queue[l])
    BY <1>1, ElemsTail DEF SInv, ServerTypeOK
  <2>. QED  BY <2>1, <2>2, Calls
<1>3. Popping(queue, l, queue') /\ queue \in [LoopId -> Seq(Functor)] /\ ServerTypeOK /\ ServerTypeOK'
  BY <1>1, RunPops DEF SInv, ServerTypeOK
<1>4. Owned(c)
  BY <1>1, <1>2, Holders DEF SInv, Chain
<1>5. Owned(c)'
  <2>1. loopOf'[c] = l /\ life'[l] # "gone" /\ index'[c] = "added"
    BY <1>1, <1>2 DEF SInv, ServerTypeOK, acceptVars, connectEstablished
  <2>. QED  BY <2>1, HoldersNext DEF SInv, Chain
<1>6. \A d \in Conn \ {c} : Same(d)
  <2>1. \A d \in Conn \ {c} : \A k \in LoopId : Queued(queue'[k], d) <=> Queued(queue[k], d)
    BY <1>2, <1>3, PoppedHolders
  <2>. QED  BY <1>1, <1>3, <2>1, HoldersSame DEF ServerTypeOK, userVars, Silent
<1>7. phase[c] = "accepted" /\ phase'[c] = "up" /\ promised'[c] = Append(promised[c], "up")
  <2>1. c \notin revived
    BY <1>2 DEF SInv, Youth, Young
  <2>. QED  BY <1>1, <1>2, <1>3, <1>4, <1>5, <2>1, PhaseIs, PhaseNext, PromisedIs DEF ServerTypeOK
<1>8. Life!up(c)
  BY <1>1, <1>3, <1>6, <1>7, OneMoves DEF Life!up, Life!Tell, userVars
<1>. QED  BY <1>8 DEF Life!Next

\* connectDestoryed lets go of its connection: it was reported down before, or the server
\* is being destroyed.
LEMMA DestroyedImplements ==
  ASSUME SInv, SInv', NEW l \in LoopId, NEW c \in Conn, connectDestoryed(l, c)
  PROVE  Life!Next \/ UNCHANGED Life!vars
<1>1. /\ UNCHANGED <<closing, userVars, connections_, revived>>
      /\ queue[l] # << >> /\ queue' = Pop(l)
      /\ IF state[c] = "kConnected"
           THEN /\ state' = [state EXCEPT ![c] = "kDisconnected"]
                /\ told' = [told EXCEPT ![c] = Append(@, "down")]
           ELSE UNCHANGED <<state, told>>
  BY DEF connectDestoryed, Tell, Runs
<1>2. /\ Head(queue[l]) = Call("connectDestoryed", c) /\ Head(queue[l]).conn = c
      /\ Head(queue[l]).run \notin Bare /\ Head(queue[l]) \in Elems(queue[l])
      /\ state[c] # "none" /\ (dtor = "no" => state[c] = "kDisconnected" \/ c \in revived)
  <2>1. /\ Head(queue[l]) = Call("connectDestoryed", c)
        /\ state[c] # "none" /\ (dtor = "no" => state[c] = "kDisconnected" \/ c \in revived)
    BY HeadIs, Calls DEF connectDestoryed, Runs, Fits
  <2>2. Head(queue[l]) \in Elems(queue[l])
    BY <1>1, ElemsTail DEF SInv, ServerTypeOK
  <2>. QED  BY <2>1, <2>2, Calls
<1>3. Popping(queue, l, queue') /\ queue \in [LoopId -> Seq(Functor)] /\ ServerTypeOK /\ ServerTypeOK'
  BY <1>1, RunPops DEF SInv, ServerTypeOK
<1>4. Owned(c)
  BY <1>2, QueuedHolds
<1>5. \A d \in Conn \ {c} : Same(d)
  <2>1. \A d \in Conn \ {c} : \A k \in LoopId : Queued(queue'[k], d) <=> Queued(queue[k], d)
    BY <1>2, <1>3, PoppedHolders
  <2>. QED  BY <1>1, <1>3, <2>1, HoldersSame DEF ServerTypeOK, userVars, Silent
<1>6. /\ dtor' = dtor
      /\ state'[c] = IF state[c] = "kConnected" THEN "kDisconnected" ELSE state[c]
      /\ state[c] = "kConnected" => c \notin revived /\ told'[c] = Append(told[c], "down")
      /\ state[c] # "kConnected" => Silent(c)
  BY <1>1, <1>3 DEF SInv, Removed, ServerTypeOK, userVars, Silent
<1>7. CASE state[c] = "kConnected"
  <2>1. /\ phase[c] = "up" /\ phase'[c] \in {"down", "freed"} /\ dtor # "no"
        /\ promised'[c] = Append(promised[c], "down")
    <3>1. c \notin revived /\ c \notin revived'
      BY <1>1, <1>6, <1>7
    <3>. QED  BY <1>2, <1>3, <1>4, <1>6, <1>7, <3>1, PhaseIs, PhaseNext, PromisedIs
  <2>2. Life!down(c)
    BY <1>3, <1>5, <1>6, <2>1, OneMoves DEF Life!down, Life!Tell
  <2>. QED  BY <2>2 DEF Life!Next
<1>8. CASE state[c] # "kConnected" /\ Owned(c)'
  BY <1>3, <1>4, <1>5, <1>6, <1>8, Stutter DEF Same
<1>9. CASE state[c] # "kConnected" /\ ~Owned(c)'
  <2>1. state'[c] = state[c] /\ (state[c] = "kDisconnected" \/ c \in revived \/ dtor # "no")
    BY <1>2, <1>6, <1>9
  <2> DEFINE S == {c}
  <2>2. S \in SUBSET Conn /\ (dtor' # "no" <=> dtor # "no") /\ \A d \in Conn \ S : Same(d)
    BY <1>5, <1>6
  <2>3. \A d \in S : /\ state[d] # "none" /\ Owned(d) /\ state'[d] # "none" /\ ~Owned(d)'
                     /\ state[d] = "kDisconnected" \/ d \in revived \/ dtor # "no"
                     /\ Silent(d)
    BY <1>2, <1>4, <1>6, <1>9, <2>1
  <2> HIDE DEF S
  <2>. QED  BY <1>3, <2>2, <2>3, Frees
<1>. QED  BY <1>7, <1>8, <1>9

\* A functor that binds this is no holder.
LEMMA BareImplements ==
  ASSUME SInv, SInv', NEW l \in LoopId, NEW c \in Conn, sendInLoop(l, c) \/ shutdownInLoop(l, c)
  PROVE  UNCHANGED Life!vars
<1>1. /\ UNCHANGED <<closing, userVars, connections_, state, told, revived>>
      /\ queue[l] # << >> /\ queue' = Pop(l) /\ Head(queue[l]).run \in Bare
  BY DEF sendInLoop, shutdownInLoop, Runs, Bare, connVars
<1>2. Popping(queue, l, queue') /\ queue \in [LoopId -> Seq(Functor)] /\ ServerTypeOK /\ ServerTypeOK'
  BY <1>1, RunPops DEF SInv, ServerTypeOK
<1>3. \A d \in Conn : \A k \in LoopId : Queued(queue'[k], d) <=> Queued(queue[k], d)
  BY <1>1, <1>2, PoppedHolders
<1>4. \A d \in Conn : Same(d)
  BY <1>1, <1>3, HoldersSame DEF userVars, Silent
<1>. QED  BY <1>1, <1>2, <1>4, Stutter DEF userVars

\* And queueing one neither.
LEMMA ThreadImplements ==
  ASSUME SInv, SInv', threadRunInLoop \/ threadShutdownInLoop
  PROVE  UNCHANGED Life!vars
<1>0. PICK c \in Conn, r \in Bare : Post(r, c)
  <2>1. threadRunInLoop => calling \in Conn /\ Post("sendInLoop", calling)
    BY DEF SInv, ServerTypeOK, threadRunInLoop
  <2>2. threadShutdownInLoop => shutting \in Conn /\ Post("shutdownInLoop", shutting)
    BY DEF SInv, ServerTypeOK, Inside, threadShutdownInLoop
  <2>. QED  BY <2>1, <2>2 DEF Bare
<1>1. PICK l \in LoopId, b \in BOOLEAN : l = loopOf[c] /\ b = ~Condemned(c)
  BY DEF SInv, ServerTypeOK
<1> DEFINE e == [run |-> r, conn |-> c, early |-> b]
<1>2. IF life[l] = "gone" THEN queue' = queue ELSE ToBack(l, e)
  BY <1>0, <1>1 DEF Post
<1>3. e \in Functor /\ e.run \in Bare /\ e.conn = c /\ e.run # "connectEstablished"
  BY DEF Functor, Bare
<1>4. \A d \in Conn : \A k \in LoopId : Queued(queue'[k], d) <=> Queued(queue[k], d)
  <2> HIDE DEF e
  <2>1. CASE life[l] = "gone"
    BY <1>2, <2>1
  <2>2. CASE life[l] # "gone"
    <3>1. Pushing(queue, l, e, queue')
      BY <1>2, <1>3, <2>2, CallPushes
    <3>. QED  BY <1>3, <3>1, PushedHolders
  <2>. QED  BY <2>1, <2>2
<1>5. UNCHANGED <<connVars, closing, held, dtor>>
  BY DEF threadRunInLoop, threadShutdownInLoop
<1>6. \A d \in Conn : Same(d)
  BY <1>4, <1>5, HoldersSame DEF connVars, Silent
<1>. QED  BY <1>5, <1>6, Stutter DEF SInv

\* handleClose reports a connection down that was up, or that is spoiled.
LEMMA CloseImplements ==
  ASSUME SInv, SInv', NEW c \in Conn, handleClose(c)
  PROVE  Life!Next \/ UNCHANGED Life!vars
<1>1. /\ UNCHANGED <<connections_, revived, queue, userVars>>
      /\ closing[loopOf[c]] = 0 /\ index[c] \in {"added", "again"} /\ ~Freed(c)
      /\ state' = [state EXCEPT ![c] = "kDisconnected"]
      /\ closing' = [closing EXCEPT ![loopOf[c]] = c]
      /\ told' = [told EXCEPT ![c] = Append(@, "down")]
      /\ ServerTypeOK /\ ServerTypeOK'
  BY DEF SInv, handleClose, Tell, Free
<1>2. state[c] \in States \ {"none", "kConnecting"} /\ Owned(c)
  BY <1>1 DEF SInv, ServerTypeOK, Youth, Young, Freed
<1>3. loopOf[c] \in LoopId /\ closing'[loopOf[c]] = c /\ state'[c] = "kDisconnected" /\ dtor' = dtor
  BY <1>1 DEF ServerTypeOK, userVars
<1>4. Owned(c)'
  BY <1>3, OwnedNext
<1>5. \A d \in Conn \ {c} : Same(d)
  <2>1. \A d \in Conn \ {c} : \A k \in LoopId : closing'[k] = d <=> closing[k] = d
    BY <1>1, Ids DEF ServerTypeOK
  <2>. QED  BY <1>1, <2>1, HoldersSame DEF ServerTypeOK, userVars, Silent
<1>6. CASE c \in revived
  <2>1. phase'[c] = phase[c] /\ promised'[c] = promised[c]
    BY <1>1, <1>2, <1>3, <1>4, <1>6, PhaseIs, PhaseNext, PromisedIs
  <2>2. phase' = phase /\ promised' = promised
    BY <1>1, <1>5, <2>1, OneMoves, PhaseMaps
  <2>. QED  BY <1>3, <2>2 DEF Life!vars
<1>7. CASE c \notin revived
  <2>1. state[c] # "kDisconnected"
    BY <1>1, <1>7 DEF SInv, Removed
  <2>2. phase[c] = "up" /\ phase'[c] = "down" /\ promised'[c] = Append(promised[c], "down")
    BY <1>1, <1>2, <1>3, <1>4, <1>7, <2>1, PhaseIs, PhaseNext, PromisedIs DEF ServerTypeOK
  <2>3. Life!down(c)
    BY <1>1, <1>3, <1>5, <2>2, OneMoves DEF Life!down, Life!Tell
  <2>. QED  BY <2>3 DEF Life!Next
<1>. QED  BY <1>6, <1>7
-----------------------------------------------------------------------------
\* The steps of a removal hand a connection from one holder to the next.
LEMMA RemoveInLoopImplements ==
  ASSUME SInv, SInv', NEW c \in Conn, removeConnectionInLoop(c)
  PROVE  UNCHANGED Life!vars
<1> DEFINE e == Call("connectDestoryed", c)
           q == Pop(0)
<1>1. /\ UNCHANGED <<closing, userVars, state, told, revived>> /\ connections_' = connections_ \ {c}
      /\ queue[0] # << >> /\ queue' = [q EXCEPT ![loopOf[c]] = Append(@, e)]
      /\ Head(queue[0]).conn = c /\ Head(queue[0]).run = "removeConnectionInLoop"
  BY DEF removeConnectionInLoop, Runs, erase, destroyLater
<1>2. /\ e \in Functor /\ e.conn = c /\ e.run = "connectDestoryed"
      /\ e.run \notin Bare /\ "removeConnectionInLoop" \notin Bare
  BY Calls DEF Bare
<1>3. /\ queue \in [LoopId -> Seq(Functor)] /\ \A k \in LoopId : EstFirst(queue[k])
      /\ loopOf[c] \in LoopId /\ ServerTypeOK /\ ServerTypeOK'
  BY DEF SInv, ServerTypeOK, EstOrder
<1>4. Popping(queue, 0, q)
  <2>1. q = [queue EXCEPT ![0] = Tail(@)]
    BY DEF Pop
  <2> HIDE DEF q
  <2>. QED  BY <1>1, <1>3, <2>1, Popped, Ids
<1>5. Pushing(q, loopOf[c], e, queue')
  <2>1. q \in [LoopId -> Seq(Functor)] /\ \A k \in LoopId : EstFirst(q[k])
    BY <1>4 DEF Popping
  <2> HIDE DEF q, e
  <2>. QED  BY <1>1, <1>2, <1>3, <2>1, Pushed
<1> HIDE DEF q, e
<1>6. \A d \in Conn \ {c} : \A k \in LoopId : Queued(queue'[k], d) <=> Queued(queue[k], d)
  <2> SUFFICES ASSUME NEW d \in Conn \ {c}, NEW k \in LoopId
               PROVE  Queued(queue'[k], d) <=> Queued(queue[k], d)
    OBVIOUS
  <2>1. Queued(q[k], d) <=> Queued(queue[k], d)
    BY <1>1, <1>3, <1>4, PoppedHolders, Ids
  <2>2. Queued(queue'[k], d) <=> Queued(q[k], d)
    BY <1>2, <1>3, <1>5, PushedHolders
  <2>. QED  BY <2>1, <2>2
<1>7. Owned(c)
  <2>1. Head(queue[0]) \in Elems(queue[0])
    BY <1>1, <1>3, ElemsTail, Ids
  <2>. QED  BY <1>1, <1>2, <2>1, QueuedHolds, Ids
<1>8. Owned(c)'
  <2>1. Queued(queue'[loopOf[c]], c)
    <3>1. e \in Elems(queue'[loopOf[c]])
      BY <1>3, <1>5 DEF Pushing
    <3>. QED  BY <1>2, <3>1 DEF Queued
  <2>. QED  BY <1>3, <2>1, OwnedNext
<1>9. \A d \in Conn : Same(d)
  <2>1. \A d \in Conn \ {c} : Same(d)
    BY <1>1, <1>6, HoldersSame DEF userVars, Silent
  <2>2. Same(c)
    BY <1>1, <1>7, <1>8 DEF Same, Silent
  <2>. QED  BY <2>1, <2>2
<1>. QED  BY <1>1, <1>3, <1>9, Stutter DEF userVars

\* The same for the two steps that only queue a functor.
LEMMA HandOver ==
  ASSUME SInv, SInv', NEW c \in Conn, NEW l \in LoopId, NEW e \in Functor, ToBack(l, e),
         e.conn = c, e.run \in {"removeConnectionInLoop", "connectDestoryed"},
         Owned(c), UNCHANGED <<state, told, revived, held, dtor>>,
         \A d \in Conn \ {c} : /\ d \in connections_' <=> d \in connections_
                               /\ \A k \in LoopId : closing'[k] = d <=> closing[k] = d
  PROVE  UNCHANGED Life!vars
<1>1. Pushing(queue, l, e, queue')
  BY CallPushes
<1>2. \A d \in Conn \ {c} : Same(d)
  <2>1. \A d \in Conn \ {c} : \A k \in LoopId : Queued(queue'[k], d) <=> Queued(queue[k], d)
    BY <1>1, PushedHolders DEF Bare
  <2>. QED  BY <2>1, HoldersSame DEF Silent
<1>3. Owned(c)'
  <2>1. Queued(queue'[l], c)
    <3>1. e \in Elems(queue'[l])
      BY <1>1 DEF Pushing
    <3>. QED  BY <3>1 DEF Queued, Bare
  <2>. QED  BY <2>1, OwnedNext
<1>4. Same(c)
  BY <1>3 DEF Same, Silent
<1>. QED  BY <1>2, <1>4, Stutter DEF SInv

\* removeConnection and the rounds of ~TcpServer are such steps.
LEMMA RemovalImplements ==
  ASSUME SInv, SInv', (\E l \in LoopId : removeConnection(l)) \/ (\E c \in Conn : destroyConnection(c))
  PROVE  UNCHANGED Life!vars
<1>1. ASSUME NEW l \in LoopId, removeConnection(l) PROVE UNCHANGED Life!vars
  <2>1. PICK c \in Conn : c = closing[l]
    BY <1>1 DEF SInv, ServerTypeOK, removeConnection
  <2> DEFINE e == Call(IF l = 0 THEN "connectDestoryed" ELSE "removeConnectionInLoop", c)
  <2>2. /\ e \in Functor /\ e.conn = c /\ e.run \in {"removeConnectionInLoop", "connectDestoryed"}
    BY Calls
  <2>3. loopOf[c] = l
    BY <2>1, Ids DEF SInv, Closing
  <2>4. /\ ToBack(0, e) /\ UNCHANGED <<state, told, revived, held, dtor>>
        /\ closing' = [closing EXCEPT ![l] = 0] /\ connections_' \in {connections_, connections_ \ {c}}
    BY <1>1, <2>1, <2>3 DEF removeConnection, erase, destroyLater, ToBack, userVars
  <2>5. Owned(c)
    BY <2>1, OwnedIs
  <2>6. \A d \in Conn \ {c} : /\ d \in connections_' <=> d \in connections_
                              /\ \A k \in LoopId : closing'[k] = d <=> closing[k] = d
    BY <2>1, <2>4, Ids DEF SInv, ServerTypeOK
  <2> HIDE DEF e
  <2>. QED  BY <2>2, <2>4, <2>5, <2>6, HandOver, Ids
<1>2. ASSUME NEW c \in Conn, destroyConnection(c) PROVE UNCHANGED Life!vars
  <2> DEFINE e == Call("connectDestoryed", c)
  <2>1. e \in Functor /\ e.conn = c /\ e.run = "connectDestoryed"
    BY Calls
  <2>2. /\ ToBack(loopOf[c], e) /\ UNCHANGED <<state, told, revived, held, dtor, closing>> /\ loopOf[c] \in LoopId
        /\ c \in connections_ /\ connections_' = connections_ \ {c}
    BY <1>2 DEF SInv, ServerTypeOK, destroyConnection, userVars
  <2>3. Owned(c)
    BY <2>2, OwnedIs
  <2> HIDE DEF e
  <2>. QED  BY <2>1, <2>2, <2>3, HandOver
<1>. QED  BY <1>1, <1>2

\* The user's steps.
LEMMA UserImplements ==
  ASSUME SInv, SInv', NEW c \in Conn,
         shutdown(c) \/ keep(c) \/ release(c) \/ threadSend(c) \/ threadShutdown(c)
  PROVE  Life!Next \/ UNCHANGED Life!vars
<1>1. CASE shutdown(c)
  <2>1. /\ UNCHANGED <<connections_, told, revived, closing, queue, held, dtor>>
        /\ state[c] = "kConnected" /\ life[loopOf[c]] # "gone"
        /\ state' = [state EXCEPT ![c] = "kDisconnecting"]
    BY <1>1 DEF shutdown, Looping, loopVars, userVars
  <2>2. Owned(c) /\ Owned(c)'
    <3>1. Owned(c)
      BY <2>1, UpIsOwned
    <3>. QED  BY <2>1, <3>1, OwnedIs, OwnedNext
  <2>3. \A d \in Conn \ {c} : Same(d)
    BY <2>1, HoldersSame DEF SInv, ServerTypeOK, Silent
  <2>4. phase'[c] = phase[c] /\ promised'[c] = promised[c]
    BY <2>1, <2>2, PhaseIs, PhaseNext, PromisedIs DEF SInv, ServerTypeOK
  <2>5. phase' = phase /\ promised' = promised
    BY <2>3, <2>4, OneMoves, PhaseMaps DEF SInv
  <2>. QED  BY <2>1, <2>5 DEF Life!vars
<1>2. CASE keep(c)
  <2>1. /\ UNCHANGED <<state, told, revived, connections_, closing, queue, dtor>> /\ held' = held \cup {c}
        /\ state[c] = "kConnected" /\ life[loopOf[c]] # "gone"
    BY <1>2 DEF keep, Looping, connVars, loopVars
  <2>2. Owned(c) /\ Owned(c)'
    BY <2>1, UpIsOwned, OwnedNext
  <2>3. \A d \in Conn : Same(d)
    BY <2>1, <2>2, HoldersSame DEF Same, Silent
  <2>. QED  BY <2>1, <2>3, Stutter DEF SInv
<1>3. CASE release(c)
  <2>1. /\ UNCHANGED <<acceptVars, connVars, loopVars, dtor>>
        /\ c \in held /\ held' = held \ {c}
    BY <1>3 DEF release
  <2>2. \A d \in Conn \ {c} : Same(d)
    BY <2>1, HoldersSame DEF connVars, loopVars, Silent
  <2>3. Owned(c) /\ ~Young(c) /\ state'[c] = state[c] /\ Silent(c) /\ dtor' = dtor
    BY <2>1, OwnedIs DEF SInv, Youth, connVars, Silent
  <2>4. CASE Owned(c)'
    BY <2>2, <2>3, <2>4, Stutter DEF Same, SInv
  <2>5. CASE ~Owned(c)'
    <3>1. state[c] = "kDisconnected" \/ c \in revived \/ dtor # "no"
      <4> SUFFICES ASSUME dtor = "no", c \notin revived PROVE state[c] = "kDisconnected"
        OBVIOUS
      <4>1. life[loopOf[c]] # "gone" /\ index[c] \in {"new", "added", "deleted"}
        BY DEF SInv, ServerTypeOK, Phases, Removed
      <4>2. ~HeldUp(c) /\ ~Doomed(c)
        BY <2>1, <2>5, HoldersNext DEF HeldUp, Doomed, acceptVars, connVars, loopVars
      <4>3. index[c] = "new"
        BY <4>1, <4>2 DEF SInv, Chain
      <4>. QED  BY <2>3, <4>3 DEF SInv, Removed
    <3> DEFINE S == {c}
    <3>2. S \in SUBSET Conn /\ (dtor' # "no" <=> dtor # "no") /\ \A d \in Conn \ S : Same(d)
      BY <2>2, <2>3
    <3>3. \A d \in S : /\ state[d] # "none" /\ Owned(d) /\ state'[d] # "none" /\ ~Owned(d)'
                       /\ state[d] = "kDisconnected" \/ d \in revived \/ dtor # "no"
                       /\ Silent(d)
      BY <2>3, <2>5, <3>1 DEF Young
    <3> HIDE DEF S
    <3>. QED  BY <3>2, <3>3, Frees DEF SInv
  <2>. QED  BY <2>4, <2>5
<1>4. CASE threadSend(c) \/ threadShutdown(c)
  BY <1>4, QuietSteps DEF SInv, threadSend, threadShutdown, connVars, loopVars
<1>. QED  BY <1>1, <1>2, <1>3, <1>4

\* The store of shutdown on another thread spoils a connection that was down.
LEMMA SetStateImplements ==
  ASSUME SInv, SInv', threadSetState
  PROVE  Life!Next \/ UNCHANGED Life!vars
<1>1. PICK c \in Conn : c = shutting
  BY DEF SInv, ServerTypeOK, threadSetState
<1>2. /\ UNCHANGED <<connections_, told, closing, queue, held, dtor>>
      /\ c \in held /\ ~Young(c)
      /\ state' = [state EXCEPT ![c] = "kDisconnecting"]
      /\ revived' = revived \cup (IF state[c] = "kDisconnected" THEN {c} ELSE {})
      /\ ServerTypeOK /\ ServerTypeOK'
  BY <1>1 DEF SInv, Inside, Youth, threadSetState, loopVars
<1>3. Owned(c) /\ Owned(c)'
  BY <1>2, OwnedIs, OwnedNext
<1>4. \A d \in Conn \ {c} : Same(d)
  BY <1>2, HoldersSame DEF ServerTypeOK, Silent
<1>5. state[c] # "none" /\ state'[c] = "kDisconnecting" /\ state[c] # "kConnecting"
  BY <1>2 DEF Young, ServerTypeOK
<1>6. CASE state[c] = "kDisconnected" /\ c \notin revived
  <2>1. phase[c] = "down" /\ phase'[c] = "spoiled" /\ promised'[c] = << >>
    BY <1>2, <1>3, <1>5, <1>6, PhaseIs, PhaseNext, PromisedIs
  <2>2. Life!spoil(c)
    BY <1>2, <1>4, <2>1, OneMoves DEF Life!spoil
  <2>. QED  BY <2>2 DEF Life!Next
<1>7. CASE state[c] # "kDisconnected" \/ c \in revived
  <2>1. phase'[c] = phase[c] /\ promised'[c] = promised[c]
    BY <1>2, <1>3, <1>5, <1>7, PhaseIs, PhaseNext, PromisedIs
  <2>2. phase' = phase /\ promised' = promised
    BY <1>2, <1>4, <2>1, OneMoves, PhaseMaps
  <2>. QED  BY <1>2, <2>2 DEF Life!vars
<1>. QED  BY <1>6, <1>7

\* A loop that ends lets go of what its functors held; by then the server is being
\* destroyed.
LEMMA EndImplements ==
  ASSUME SInv, SInv', NEW l \in LoopId, loopEnds(l) \/ (l = 0 /\ destroyBase)
  PROVE  Life!Next
<1>1. /\ UNCHANGED <<state, told, revived, connections_, closing, held, dtor>>
      /\ queue' = [queue EXCEPT ![l] = << >>]
      /\ dtor # "no"
  BY DEF SInv, Phases, loopEnds, destroyBase, connVars, userVars
<1>2. ASSUME NEW d \in Conn, Owned(d)' PROVE Owned(d)
  <2>1. \A k \in LoopId : Queued(queue'[k], d) => Queued(queue[k], d)
    BY <1>1, ElemsEmpty DEF SInv, ServerTypeOK, Queued
  <2>. QED  BY <1>1, <1>2, <2>1, OwnedIs, OwnedNext
<1> DEFINE S == {d \in Conn : state[d] # "none" /\ Owned(d) /\ ~Owned(d)'}
<1>3. \A d \in Conn \ S : Same(d)
  BY <1>1, <1>2 DEF Same, Silent
<1>4. \A d \in S : /\ state[d] # "none" /\ Owned(d) /\ state'[d] # "none" /\ ~Owned(d)'
                   /\ state[d] = "kDisconnected" \/ d \in revived \/ dtor # "no"
                   /\ Silent(d)
  BY <1>1 DEF Silent
<1>5. S \in SUBSET Conn /\ (dtor' # "no" <=> dtor # "no")
  BY <1>1
<1> HIDE DEF S
<1>. QED  BY <1>3, <1>4, <1>5, Frees DEF SInv
-----------------------------------------------------------------------------
\* Over all loops and threads, with sends, shutdowns and closes at any time and a
\* destructor that finds connections in any state, each connection lives as
\* ConnectionLife says: it is told up once, then down at most once, and destroyed without
\* that only at the end.  What a connection is told after a shutdown on another thread
\* has overwritten its kDisconnected is left open there, but for its end.
THEOREM ImplementsLifeHolds == ServerSpec => ImplementsLife
<1>1. ServerInit => Life!Init
  <2> SUFFICES ASSUME ServerInit PROVE Life!Init
    OBVIOUS
  <2>1. ServerTypeOK
    BY ServerStarts DEF SInv
  <2>2. \A c \in Conn : phase[c] = "absent" /\ promised[c] = << >>
    BY <2>1, PhaseIs, PromisedIs DEF ServerInit
  <2>. QED  BY <2>2, PhaseMaps DEF ServerInit, Life!Init
<1>2. SInv /\ SInv' /\ [ServerNext]_serverVars => [Life!Next]_(Life!vars)
  <2> SUFFICES ASSUME SInv, SInv', [ServerNext]_serverVars
               PROVE  Life!Next \/ UNCHANGED Life!vars
    OBVIOUS
  <2>0. ServerTypeOK /\ ServerTypeOK'
    BY DEF SInv
  <2>1. CASE serverStart \/ \E n \in 0 .. MaxThreads : setServerThreadNum(n)
    BY <2>0, <2>1, QuietSteps DEF serverStart, setServerThreadNum, connVars, loopVars, userVars
  <2>2. CASE handleRead
    <3>1. CASE nextConnId_' # nextConnId_
      BY <2>2, <3>1, AcceptImplements
    <3>2. CASE nextConnId_' = nextConnId_
      <4>1. nextConnId_ \in Nat
        BY <2>0, ServerAssumption DEF ServerTypeOK
      <4>2. ~newConnection(nextConnId_, nextLoop)
        BY <3>2, <4>1 DEF newConnection
      <4>3. UNCHANGED <<connVars, queue>> /\ UNCHANGED <<started_, closing, life, userVars>>
        BY <2>2, <4>2 DEF handleRead
      <4>. QED  BY <2>0, <4>3, QuietSteps DEF connVars, userVars
    <3>. QED  BY <3>1, <3>2
  <2>3. ASSUME NEW l \in LoopId, RunFunctor(l)
        PROVE  Life!Next \/ UNCHANGED Life!vars
    BY <2>3, UpImplements, DestroyedImplements, BareImplements, RemoveInLoopImplements DEF RunFunctor
  <2>4. ASSUME NEW l \in LoopId, enterLoop(l) \/ quitLoop(l)
        PROVE  UNCHANGED Life!vars
    BY <2>0, <2>4, QuietSteps DEF enterLoop, quitLoop, connVars, userVars
  <2>5. ASSUME NEW l \in LoopId, loopEnds(l) \/ (l = 0 /\ destroyBase)
        PROVE  Life!Next
    BY <2>5, EndImplements
  <2>6. CASE (\E l \in LoopId : removeConnection(l)) \/ (\E c \in Conn : destroyConnection(c))
    BY <2>6, RemovalImplements
  <2>7. ASSUME NEW c \in Conn, \/ handleClose(c) \/ shutdown(c) \/ keep(c) \/ release(c)
                               \/ threadSend(c) \/ threadShutdown(c)
        PROVE  Life!Next \/ UNCHANGED Life!vars
    BY <2>7, CloseImplements, UserImplements
  <2>8. CASE threadRunInLoop \/ threadShutdownInLoop
    BY <2>8, ThreadImplements
  <2>13. CASE threadSetState
    BY <2>13, SetStateImplements
  <2>9. CASE Client \/ baseReturns \/ connectionsDone \/ destroyAcceptor
    BY <2>0, <2>9, QuietSteps DEF Client, baseReturns, connectionsDone, destroyAcceptor, connVars, loopVars, userVars, threadVars
  <2>10. CASE destroyServer
    <3>1. \A c \in Conn : Same(c)
      BY <2>10, HoldersSame DEF destroyServer, connVars, loopVars, threadVars, Silent
    <3>2. phase' = phase /\ promised' = promised
      BY <2>0, <3>1, SamePhase, PhaseMaps
    <3>3. Life!end
      BY <2>10, <3>2 DEF destroyServer, Life!end
    <3>. QED  BY <3>3 DEF Life!Next
  <2>11. CASE UNCHANGED serverVars
    BY <2>0, <2>11, QuietSteps DEF serverVars, connVars, loopVars, userVars
  <2>12. Destructor => \/ \E c \in Conn : destroyConnection(c)
                       \/ connectionsDone \/ destroyAcceptor
                       \/ \E l \in LoopId : quitLoop(l) \/ (l = 0 /\ destroyBase)
    BY Ids DEF Destructor
  <2>. QED  BY <2>1, <2>2, <2>3, <2>4, <2>5, <2>6, <2>7, <2>8, <2>9, <2>10, <2>11, <2>12, <2>13 DEF ServerNext
<1>. QED  BY <1>1, <1>2, ServerInductive, PTL DEF ServerSpec, ImplementsLife, Life!Spec
=============================================================================
