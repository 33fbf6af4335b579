----------------------------- MODULE TcpServer ------------------------------
(***************************************************************************)
(* TcpServer and Acceptor (src/src/TcpServer.cpp, Acceptor.cpp) over the   *)
(* base loop and the io loops of the pool: who holds a connection, from    *)
(* accept to the release of the last pointer, and the server's destructor. *)
(*                                                                         *)
(* A loop is the FIFO of module TaskQueue, which EventLoop implements; a   *)
(* connection is reduced to its state and its registration (all that can   *)
(* happen in between is TcpConnection); nextLoop is the pool's.  Every     *)
(* loop's thread, two other threads of the user's, one that sends and one  *)
(* that shuts down, and the base thread that runs the destructor take      *)
(* steps of their own.  As in the repository's programs the server is      *)
(* destroyed after the base loop's loop() returned, and that loop after    *)
(* the server.                                                             *)
(***************************************************************************)
EXTENDS EventLoopThreadPool, FiniteSets

CONSTANTS MaxConns,     \* connections accepted, for TLC
          MaxOpen,      \* descriptors the process may have open for connections
          MaxWaiting,   \* clients in the backlog of the listening socket, for TLC
          MaxSends,     \* sends of another thread queued in one loop, for TLC
          MaxKept       \* the first connections, of which user code keeps pointers, for TLC

ASSUME ServerAssumption == /\ MaxConns \in Nat /\ MaxOpen \in Nat
                           /\ MaxWaiting \in Nat /\ MaxSends \in Nat /\ MaxKept \in Nat

Conn == 1 .. MaxConns   \* a connection is known by its number, nextConnId_

VARIABLES
  started_, listening_, nextConnId_,
  loopOf,         \* connection -> its io loop
  waiting,        \* clients in the backlog
  connections_,   \* the numbers of the connections in the map
  state,          \* connection -> m_state, "none" before newConnection
  index,          \* connection -> m_channel's registration in the poller; "again" is
                  \* "added" after connectDestoryed had removed it
  told,           \* connection -> connectionCallback_'s calls, "up" or "down" (history)
  revived,        \* connections that were kDisconnected when another thread's shutdown
                  \* stored kDisconnecting (history)
  queue,          \* loop -> functors queued in it
  closing,        \* loop -> connection whose handleClose it is inside, or 0
  life,           \* loop -> where it is between startLoop and its destruction
  held,           \* connections of which user code keeps a TcpConnectionPtr
  calling,        \* connection whose send another thread is inside, or 0
  shutting,       \* connection whose shutdown another thread is inside, or 0
  stored,         \* has that shutdown stored kDisconnecting?
  dtor            \* ~TcpServer: "no", "connections", "pool", "done"

acceptVars == <<vars, started_, listening_, nextConnId_, loopOf, waiting>>
connVars == <<connections_, state, index, told, revived>>
loopVars == <<queue, closing, life>>
threadVars == <<calling, shutting, stored>>
userVars == <<held, calling, shutting, stored, dtor>>
serverVars == <<acceptVars, connVars, loopVars, userVars>>

States == {"none", "kConnecting", "kConnected", "kDisconnecting", "kDisconnected"}

\* "starting": startLoop returned, loop() not begun; "running"; "quit": told to end;
\* "deaf": told so before loop() began, which forgets it; "returned"; "gone".
Lives == {"none", "starting", "running", "quit", "deaf", "returned", "gone"}

\* Functors.  Bare ones, of send and shutdown, bind this and hold nothing; early is kept
\* for them: was the connection's destruction not yet queued when they were (history)?
Bare == {"sendInLoop", "shutdownInLoop"}
Functor == [run : {"connectEstablished", "removeConnectionInLoop", "connectDestoryed"} \cup Bare,
            conn : Conn, early : BOOLEAN]
Call(f, c) == [run |-> f, conn |-> c, early |-> TRUE]

ServerTypeOK ==
  /\ TypeOK
  /\ started_ \in BOOLEAN /\ listening_ \in BOOLEAN
  /\ nextConnId_ \in 1 .. MaxConns + 1
  /\ loopOf \in [Conn -> LoopId]
  /\ waiting \in 0 .. MaxWaiting
  /\ connections_ \subseteq Conn
  /\ state \in [Conn -> States]
  /\ index \in [Conn -> {"new", "added", "deleted", "again"}]
  /\ told \in [Conn -> Seq({"up", "down"})] /\ revived \subseteq Conn
  /\ queue \in [LoopId -> Seq(Functor)]
  /\ closing \in [LoopId -> Conn \cup {0}]
  /\ life \in [LoopId -> Lives]
  /\ held \subseteq Conn /\ calling \in Conn \cup {0}
  /\ shutting \in Conn \cup {0} /\ stored \in BOOLEAN
  /\ dtor \in {"no", "connections", "pool", "done"}

ServerInit ==
  /\ Init
  /\ started_ = FALSE /\ listening_ = FALSE /\ nextConnId_ = 1
  /\ loopOf = [c \in Conn |-> 0] /\ waiting = 0
  /\ connections_ = {}
  /\ state = [c \in Conn |-> "none"]
  /\ index = [c \in Conn |-> "new"]
  /\ told = [c \in Conn |-> << >>] /\ revived = {}
  /\ queue = [l \in LoopId |-> << >>]
  /\ closing = [l \in LoopId |-> 0]
  /\ life = [l \in LoopId |-> IF l = 0 THEN "running" ELSE "none"]
  /\ held = {} /\ calling = 0 /\ shutting = 0 /\ stored = FALSE /\ dtor = "no"
-----------------------------------------------------------------------------
\* Who holds a TcpConnectionPtr to c: the map, the user, the guard in handleClose, and
\* functors, but for the bare ones.
Owned(c) == \/ c \in connections_ \/ c \in held
            \/ \E l \in LoopId :
                 \/ closing[l] = c
                 \/ \E i \in 1 .. Len(queue[l]) :
                      queue[l][i].conn = c /\ queue[l][i].run \notin Bare
Freed(c) == state[c] # "none" /\ ~Owned(c)
Open == {c \in Conn : state[c] # "none" /\ Owned(c)}

\* Loops inside loop(), and those of them that can serve an event or a functor.
Looping == {l \in LoopId : life[l] \in {"running", "quit", "deaf"}}
Free(l) == l \in Looping /\ closing[l] = 0

ToBack(l, functor) == queue' = [queue EXCEPT ![l] = Append(@, functor)]

\* connectionCallback_(c), which finds the connection up or down.
Tell(c, what) == told' = [told EXCEPT ![c] = Append(@, what)]
-----------------------------------------------------------------------------
\* TcpServer::setThreadNum.  After start the number is not read again; such calls are
\* left to the pool's own theorems.
setServerThreadNum(n) ==
  /\ Free(0) /\ ~started_ /\ setThreadNum(n)
  /\ UNCHANGED <<started_, listening_, nextConnId_, loopOf, waiting, connVars, loopVars, userVars>>

\* TcpServer::start: the pool's threads, then listen, which runInLoop runs at once.  A
\* second call finds started_ # 0 and does nothing.
serverStart ==
  /\ Free(0) /\ ~started_
  /\ started_' = TRUE /\ listening_' = TRUE
  /\ start
  /\ life' = [l \in LoopId |-> IF l \in 1 .. numThreads_ THEN "starting" ELSE life[l]]
  /\ UNCHANGED <<nextConnId_, loopOf, waiting, connVars, queue, closing, userVars>>

\* startLoop does not wait for this: loop() stores m_quit = false.
enterLoop(l) == /\ life[l] = "starting"
                /\ life' = [life EXCEPT ![l] = "running"]
                /\ UNCHANGED <<acceptVars, connVars, queue, closing, userVars>>

\* Defect: the new connection is not entered in the map.
enterNot(c) == connections_

enter(c) == connections_ \cup {c}

\* newConnection: enter the connection, run connectEstablished on its loop; runInLoop
\* does that at once if the io loop is the base loop.
newConnection(c, l) ==
  /\ nextConnId_' = c + 1 /\ loopOf' = [loopOf EXCEPT ![c] = l]
  /\ connections_' = enter(c)
  /\ IF l = 0
       THEN /\ state' = [state EXCEPT ![c] = "kConnected"]
            /\ index' = [index EXCEPT ![c] = "added"]
            /\ Tell(c, "up")
            /\ UNCHANGED <<queue, revived>>
       ELSE /\ state' = [state EXCEPT ![c] = "kConnecting"]
            /\ ToBack(l, Call("connectEstablished", c))
            /\ UNCHANGED <<index, told, revived>>

\* Defect: at the limit the acceptor stops listening.
acceptFailsForGood == listening_' = FALSE

\* accept fails with EMFILE, which is only logged: epoll_wait reports the socket again.
acceptFails == UNCHANGED listening_

handleRead ==
  /\ Free(0) /\ listening_ /\ waiting > 0 /\ nextConnId_ <= MaxConns
  /\ IF Cardinality(Open) < MaxOpen
       THEN /\ waiting' = waiting - 1
            /\ getNextLoop /\ newConnection(nextConnId_, nextLoop)
            /\ UNCHANGED listening_
       ELSE acceptFails /\ UNCHANGED <<vars, nextConnId_, loopOf, waiting, connVars, queue>>
  /\ UNCHANGED <<started_, closing, life, userVars>>
-----------------------------------------------------------------------------
\* The functors, run by the thread of loop l.
Runs(l, f, c) == /\ Free(l) /\ queue[l] # << >>
                 /\ Head(queue[l]).run = f /\ Head(queue[l]).conn = c
                 /\ UNCHANGED <<acceptVars, closing, life, userVars>>
Pop(l) == [queue EXCEPT ![l] = Tail(@)]

connectEstablished(l, c) ==
  /\ Runs(l, "connectEstablished", c)
  /\ queue' = Pop(l) /\ state' = [state EXCEPT ![c] = "kConnected"]
  /\ index' = [index EXCEPT ![c] = "added"]
  /\ Tell(c, "up")
  /\ UNCHANGED <<connections_, revived>>

\* The down callback is part of it if the connection was kConnected.
connectDestoryed(l, c) ==
  /\ Runs(l, "connectDestoryed", c)
  /\ queue' = Pop(l)
  /\ IF state[c] = "kConnected"
       THEN state' = [state EXCEPT ![c] = "kDisconnected"] /\ Tell(c, "down")
       ELSE UNCHANGED <<state, told>>
  /\ index' = [index EXCEPT ![c] = "new"]
  /\ UNCHANGED <<connections_, revived>>

\* Defect: a message is written whatever became of the connection.
givesUpNever(c) == FALSE

givesUp(c) == state[c] = "kDisconnected"

\* A send of another thread; what it writes is in TcpConnection.  If something is left to
\* write it asks for EPOLLOUT, which also registers a channel that was taken out of the
\* poller.  (If the connection has been freed it runs on a destroyed object: nothing is
\* modelled.)
sendInLoop(l, c) ==
  /\ Runs(l, "sendInLoop", c)
  /\ queue' = Pop(l)
  /\ UNCHANGED <<connections_, state, told, revived>>
  /\ \/ UNCHANGED index
     \/ /\ index[c] \in {"new", "deleted"} /\ ~Freed(c) /\ ~givesUp(c)
        /\ index' = [index EXCEPT ![c] = IF @ = "new" THEN "again" ELSE "added"]

\* The half-close of another thread's shutdown is in TcpConnection.
shutdownInLoop(l, c) == /\ Runs(l, "shutdownInLoop", c)
                        /\ queue' = Pop(l)
                        /\ UNCHANGED connVars

\* Defect: the destruction is forgotten.
destroyNever(q, c) == queue' = q /\ UNCHANGED index

\* Defect: runInLoop instead of queueInLoop; on the base loop it destroys at once.
destroyAtOnce(q, c) ==
  IF loopOf[c] = 0
    THEN queue' = q /\ index' = [index EXCEPT ![c] = "new"]
    ELSE queue' = [q EXCEPT ![loopOf[c]] = Append(@, Call("connectDestoryed", c))] /\ UNCHANGED index

\* queueInLoop of connectDestoryed, on the queues q: also the base loop runs it later.
destroyLater(q, c) == /\ queue' = [q EXCEPT ![loopOf[c]] = Append(@, Call("connectDestoryed", c))]
                      /\ UNCHANGED index

\* The body of removeConnectionInLoop: out of the map, and to the io loop.
erase(q, c) == connections_' = connections_ \ {c} /\ destroyLater(q, c)

removeConnectionInLoop(c) == /\ Runs(0, "removeConnectionInLoop", c)
                             /\ erase(Pop(0), c)
                             /\ UNCHANGED <<state, told, revived>>

\* handleClose up to the end of the down callback.
handleClose(c) ==
  /\ Free(loopOf[c]) /\ index[c] \in {"added", "again"} /\ ~Freed(c)
  /\ state' = [state EXCEPT ![c] = "kDisconnected"]
  /\ index' = [index EXCEPT ![c] = "deleted"]
  /\ Tell(c, "down")
  /\ closing' = [closing EXCEPT ![loopOf[c]] = c]
  /\ UNCHANGED <<acceptVars, connections_, revived, queue, life, userVars>>

\* m_closeCallback, TcpServer::removeConnection: on the base loop's thread
\* removeConnectionInLoop runs at once, from any other it is queued there.
removeConnection(l) ==
  /\ closing[l] # 0
  /\ closing' = [closing EXCEPT ![l] = 0]
  /\ IF l = 0
       THEN erase(queue, closing[l])
       ELSE /\ ToBack(0, Call("removeConnectionInLoop", closing[l]))
            /\ UNCHANGED <<connections_, index>>
  /\ UNCHANGED <<acceptVars, state, told, revived, life, userVars>>

\* The user's shutdown on the io loop: the loop's own steps do not come in between.
shutdown(c) == /\ loopOf[c] \in Looping /\ state[c] = "kConnected"
               /\ state' = [state EXCEPT ![c] = "kDisconnecting"]
               /\ UNCHANGED <<acceptVars, connections_, index, told, revived, loopVars, userVars>>
-----------------------------------------------------------------------------
\* User code copies the pointer it got in a callback, and lets go of it.
keep(c) == /\ c <= MaxKept /\ loopOf[c] \in Looping /\ state[c] = "kConnected"
           /\ held' = held \cup {c}
           /\ UNCHANGED <<acceptVars, connVars, loopVars, threadVars, dtor>>

release(c) == /\ c \in held /\ calling # c /\ shutting # c
              /\ held' = held \ {c}
              /\ UNCHANGED <<acceptVars, connVars, loopVars, threadVars, dtor>>

Sends(l) == {i \in 1 .. Len(queue[l]) : queue[l][i].run = "sendInLoop"}

\* send on another thread: the test of m_state, then runInLoop.  On a loop that is gone
\* the call is undefined; the model follows the outcome in which nothing happens (Post).
threadSend(c) == /\ calling = 0 /\ c \in held /\ state[c] = "kConnected"
                 /\ Cardinality(Sends(loopOf[c])) < MaxSends
                 /\ calling' = c
                 /\ UNCHANGED <<acceptVars, connVars, loopVars, held, shutting, stored, dtor>>

\* connectDestoryed of c is queued or has run.
Condemned(c) == \/ index[c] \in {"new", "again"} /\ state[c] \notin {"none", "kConnecting"}
                \/ \E i \in 1 .. Len(queue[loopOf[c]]) :
                     queue[loopOf[c]][i] = Call("connectDestoryed", c)

\* runInLoop of another thread for a functor that binds this.
Post(f, c) == IF life[loopOf[c]] = "gone"
                THEN UNCHANGED queue
                ELSE ToBack(loopOf[c], [run |-> f, conn |-> c, early |-> ~Condemned(c)])

threadRunInLoop ==
  /\ calling # 0
  /\ calling' = 0
  /\ Post("sendInLoop", calling)
  /\ UNCHANGED <<acceptVars, connVars, closing, life, held, shutting, stored, dtor>>

\* shutdown on another thread: the test of m_state, the store, runInLoop.  Nothing keeps
\* the io loop from handleClose in between.
threadShutdown(c) == /\ shutting = 0 /\ c \in held /\ state[c] = "kConnected"
                     /\ shutting' = c
                     /\ UNCHANGED <<acceptVars, connVars, loopVars, held, calling, stored, dtor>>

threadSetState ==
  /\ shutting # 0 /\ ~stored
  /\ state' = [state EXCEPT ![shutting] = "kDisconnecting"]
  /\ revived' = revived \cup (IF state[shutting] = "kDisconnected" THEN {shutting} ELSE {})
  /\ stored' = TRUE
  /\ UNCHANGED <<acceptVars, connections_, index, told, loopVars, held, calling, shutting, dtor>>

threadShutdownInLoop ==
  /\ stored
  /\ shutting' = 0 /\ stored' = FALSE
  /\ Post("shutdownInLoop", shutting)
  /\ UNCHANGED <<acceptVars, connVars, closing, life, held, calling, dtor>>

\* Clients, external: one connects, or gives up before it was accepted.
clientConnects == listening_ /\ waiting < MaxWaiting /\ waiting' = waiting + 1
clientGivesUp == waiting > 0 /\ waiting' = waiting - 1
Client == /\ clientConnects \/ clientGivesUp
          /\ UNCHANGED <<vars, started_, listening_, nextConnId_, loopOf, connVars, loopVars, userVars>>
-----------------------------------------------------------------------------
\* The base loop's loop() returns; the server is destroyed some time after.
baseReturns == /\ life[0] = "running" /\ closing[0] = 0
               /\ life' = [life EXCEPT ![0] = "returned"]
               /\ UNCHANGED <<acceptVars, connVars, queue, closing, userVars>>

destroyServer == /\ life[0] = "returned" /\ dtor = "no"
                 /\ dtor' = "connections"
                 /\ UNCHANGED <<acceptVars, connVars, loopVars, held, threadVars>>

\* One round of the loop in ~TcpServer, in the order of the unordered_map.
destroyConnection(c) ==
  /\ dtor = "connections" /\ c \in connections_
  /\ connections_' = connections_ \ {c}
  /\ ToBack(loopOf[c], Call("connectDestoryed", c))
  /\ UNCHANGED <<acceptVars, state, index, told, revived, closing, life, userVars>>

\* Then the members: the pool's threads one by one, last the acceptor.
connectionsDone == /\ dtor = "connections" /\ connections_ = {}
                   /\ dtor' = "pool"
                   /\ UNCHANGED <<acceptVars, connVars, loopVars, held, threadVars>>

\* Defect: ~EventLoopThread joins without quit().
quitForgotten(l) == life

quit(l) == [life EXCEPT ![l] = IF @ = "running" THEN "quit" ELSE "deaf"]

\* ~EventLoopThread: quit(), then join() before the next thread's turn.  A loop that has
\* not reached loop() forgets the quit() and is joined for ever.
quitLoop(l) == /\ dtor = "pool" /\ l # 0 /\ life[l] \in {"starting", "running"}
               /\ \A k \in LoopId : life[k] \notin {"quit", "deaf"}
               /\ life' = quit(l)
               /\ UNCHANGED <<acceptVars, connVars, queue, closing, userVars>>

\* The loop leaves loop() and is destroyed with the functors still queued in it.
loopEnds(l) == /\ life[l] = "quit" /\ closing[l] = 0
               /\ life' = [life EXCEPT ![l] = "gone"]
               /\ queue' = [queue EXCEPT ![l] = << >>]
               /\ UNCHANGED <<acceptVars, connVars, closing, userVars>>

destroyAcceptor == /\ dtor = "pool" /\ \A l \in LoopId \ {0} : life[l] \in {"none", "gone"}
                   /\ listening_' = FALSE /\ waiting' = 0 /\ dtor' = "done"
                   /\ UNCHANGED <<vars, started_, nextConnId_, loopOf, connVars, loopVars, held, threadVars>>

destroyBase == /\ dtor = "done" /\ life[0] = "returned"
               /\ life' = [life EXCEPT ![0] = "gone"]
               /\ queue' = [queue EXCEPT ![0] = << >>]
               /\ UNCHANGED <<acceptVars, connVars, closing, userVars>>
-----------------------------------------------------------------------------
RunFunctor(l) == \/ \E c \in Conn : \/ connectEstablished(l, c)
                                    \/ connectDestoryed(l, c)
                                    \/ sendInLoop(l, c) \/ shutdownInLoop(l, c)
                 \/ l = 0 /\ \E c \in Conn : removeConnectionInLoop(c)

Destructor == \/ \E c \in Conn : destroyConnection(c)
              \/ connectionsDone
              \/ \E l \in LoopId : quitLoop(l)
              \/ destroyAcceptor
              \/ destroyBase

ServerNext ==
  \/ \E n \in 0 .. MaxThreads : setServerThreadNum(n)
  \/ serverStart \/ handleRead
  \/ \E l \in LoopId : enterLoop(l) \/ RunFunctor(l) \/ removeConnection(l) \/ loopEnds(l)
  \/ \E c \in Conn : \/ handleClose(c) \/ shutdown(c) \/ keep(c) \/ release(c)
                    \/ threadSend(c) \/ threadShutdown(c)
  \/ threadRunInLoop \/ threadSetState \/ threadShutdownInLoop \/ Client
  \/ baseReturns \/ destroyServer \/ Destructor

ServerSpec == ServerInit /\ [][ServerNext]_serverVars

\* Loops begin, run on and end, user callbacks return; the acceptor is served; the
\* destructor, once begun, goes on, and ~EventLoop follows it.  Nobody has to connect, to
\* close, to let go of a pointer or to destroy the server, and the user's other threads
\* may stay inside send or shutdown for ever.
Fairness == /\ \A l \in LoopId : WF_serverVars(RunFunctor(l) \/ removeConnection(l))
            /\ \A l \in LoopId \ {0} : WF_serverVars(enterLoop(l) \/ loopEnds(l))
            /\ WF_serverVars(handleRead)
            /\ WF_serverVars(Destructor)

FairServerSpec == ServerSpec /\ Fairness
-----------------------------------------------------------------------------
\* The chain of owners never breaks: a channel that its poller points to belongs to a
\* connection that somebody holds, while the map, the queues of two loops, the guard in
\* handleClose and the destructor pass it on (tie, removeConnection,
\* removeConnectionInLoop, ~TcpServer).  There are two exceptions, both channels that a
\* late send registered again behind connectDestoryed, whose owners nobody asked: a
\* connection that ~TcpServer destroys, and one whose kDisconnected the shutdown of
\* another thread overwrote.
RegisteredAreOwned ==
  \A c \in Conn : (index[c] # "new" /\ life[loopOf[c]] # "gone") =>
                 Owned(c) \/ (index[c] = "again" /\ (dtor # "no" \/ c \in revived))

\* A send of another thread, however late, brings a channel back that connectDestoryed
\* took out of the poller only if ~TcpServer destroys the connection, or if a shutdown on
\* a third thread, which tested m_state before handleClose and stored after it, has
\* undone kDisconnected (sendInLoop against connectDestoryed and shutdown).
RemovedForGood == \A c \in Conn : index[c] = "again" => dtor # "no" \/ c \in revived

\* send and shutdown bind the bare this.  That is safe for a functor queued before the
\* connection's destruction was: connectDestoryed is behind it in the same queue and
\* holds the connection until then, whoever else lets go of it (send, shutdown,
\* removeConnectionInLoop).
QueuedSendIsSafe ==
  \A l \in LoopId : \A i \in 1 .. Len(queue[l]) :
    (queue[l][i].run \in Bare /\ queue[l][i].early) => Owned(queue[l][i].conn)

phaseOf(c) == IF Freed(c) THEN "freed"
              ELSE IF c \in revived THEN "spoiled"
              ELSE CASE state[c] = "none" -> "absent"
                     [] state[c] = "kConnecting" -> "accepted"
                     [] state[c] \in {"kConnected", "kDisconnecting"} -> "up"
                     [] state[c] = "kDisconnected" -> "down"

phase == [c \in Conn |-> phaseOf(c)]

\* Nothing is promised of what a spoiled connection is told.
promised == [c \in Conn |-> IF c \in revived THEN << >> ELSE told[c]]

Life == INSTANCE ConnectionLife WITH told <- promised, ending <- (dtor # "no")

\* Over all loops and threads each connection lives as ConnectionLife says: it is told up
\* once and down at most once, in this order and not after its end, and while the server
\* lives no connection vanishes that was not told down; all this until a shutdown on
\* another thread overwrites kDisconnected, after which it may be told down again (the
\* race of TcpConnectionOnce.cfg) and only its end is promised (newConnection,
\* handleClose, removeConnection).
ImplementsLife == Life!Spec

\* A closed connection gives its descriptor back, though the base loop and an io loop
\* pass it to each other: at the limit, where accept fails again and again, a client
\* that waits is accepted once a connection is closed, unless user code keeps pointers
\* (removeConnection, removeConnectionInLoop, handleRead after EMFILE).
AcceptResumes ==
  (waiting > 0 /\ \E c \in Conn : state[c] = "kDisconnected" /\ ~Freed(c)) ~>
    (waiting = 0 \/ held # {} \/ life[0] # "running" \/ nextConnId_ > MaxConns)

\* ~TcpServer ends, unless a thread's loop lost its quit(), and with the base loop's end
\* the last connection is gone, in whatever state it was and whatever was queued
\* (~TcpServer, ~EventLoopThread, EventLoop::loop).
DestructorFreesAll ==
  (dtor # "no") ~> \/ dtor = "done" /\ \A c \in Conn \ held : state[c] = "none" \/ Freed(c)
                   \/ \E l \in LoopId : life[l] = "deaf"
=============================================================================
