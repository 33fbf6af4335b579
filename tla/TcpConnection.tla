--------------------------- MODULE TcpConnection ---------------------------
(***************************************************************************)
(* TcpConnection (src/src/TcpConnection.cpp) with its Channel, on its io   *)
(* loop: one connection from newConnection to connectDestoryed.            *)
(*                                                                         *)
(* The loop thread is one sequence of steps (pc): epoll_wait, the handlers *)
(* of handelEventWithGuard in their order, then a batch of functors.  The  *)
(* loop and its FIFO are those of module EventLoop, the registration of    *)
(* the channel is that of module Poller, the output buffer is the queue of *)
(* bytes of module ByteQueue.  Around it act the callbacks' code on the    *)
(* loop thread, other threads that call send and shutdown, the TcpServer   *)
(* on the base loop, the peer, and the kernel's side of the socket.        *)
(*                                                                         *)
(* A handler is one step up to a user callback: other threads share only   *)
(* m_state and the functor queue with it, and one access of each per step  *)
(* is all that the handlers make between two callbacks.                    *)
(***************************************************************************)
EXTENDS Integers, SequencesExt

CONSTANTS
  Thread,           \* threads other than the io loop's that use the connection
  Loop,             \* the sender name of code on the loop thread
  Lens,             \* message lengths
  MaxBytes,         \* bytes each sender has to send, for TLC
  MaxInput,         \* times the peer sends something, for TLC
  SendBuf,          \* capacity of the socket's send buffer
  HighWaterMark,    \* m_highWaterMark
  ThreadsShutdown,  \* do other threads call shutdown()?
  ServerDies        \* is the TcpServer destroyed before its connection?

ASSUME LoopAssumption == Loop \notin Thread
ASSUME BoundAssumption == /\ Lens \subseteq Nat \ {0}
                          /\ MaxBytes \in Nat /\ MaxInput \in Nat
                          /\ SendBuf \in Nat \ {0} /\ HighWaterMark \in Nat \ {0}
ASSUME ScenarioAssumption == ThreadsShutdown \in BOOLEAN /\ ServerDies \in BOOLEAN

Sender == Thread \cup {Loop}

\* A byte is known by its sender and its place in what the sender sends.  Junk is
\* what lies in memory before a message.
Junk == [from |-> "memory", nr |-> 0]
Byte == [from : Sender, nr : 1 .. MaxBytes] \cup {Junk}

\* What may be queued in the loop for this connection.
Established == [run |-> "connectEstablished", msg |-> << >>]
Destoryed == [run |-> "connectDestoryed", msg |-> << >>]
Shutdown == [run |-> "shutdownInLoop", msg |-> << >>]
WriteComplete == [run |-> "writeComplete", msg |-> << >>]
HighWater == [run |-> "highWaterMark", msg |-> << >>]
Send(msg) == [run |-> "sendInLoop", msg |-> msg]
FunctorKind == {"connectEstablished", "connectDestoryed", "shutdownInLoop",
                "writeComplete", "highWaterMark", "sendInLoop"}
Functor == [run : FunctorKind, msg : Seq(Byte)]

VARIABLES
  m_state,
  events, index,     \* m_channel: interest and registration
  output,            \* m_outputBuffer
  pending, batch,    \* functors queued in the loop, and swapped out to be run
  pc,                \* the next step of the loop thread
  revents,           \* what epoll_wait reported for the channel
  user,              \* the user callback that the loop thread is inside
  calling,           \* thread -> what its send or shutdown still has to do
  sent,              \* sender -> bytes that its calls of send accepted
  server,            \* TcpServer: does it live, is the connection in connections_,
                     \* how many removeConnectionInLoop are queued in the base loop
  wire, got,         \* kernel: bytes written to the socket, read by the peer
  rcv,               \* kernel: pieces of unread input
  inputs,            \* times the peer has sent something
  wrShut, soError,   \* kernel: SHUT_WR was done; an error waits to be fetched
  peer,              \* "open", "closed" (FIN received) or "reset"
  failed,            \* some write has failed (history)
  notice,            \* the last of writeComplete and highWaterMark called (history)
  downs, destroys    \* connection-down callbacks, connectDestoryed calls (history)

channelVars == <<events, index>>
connVars == <<m_state, channelVars, output>>
loopVars == <<pc, revents, user>>
queueVars == <<pending, batch>>
outsideVars == <<calling, sent, server>>
peerVars == <<got, rcv, inputs, peer>>
kernelVars == <<wire, wrShut, soError, peerVars>>
historyVars == <<failed, notice, downs, destroys>>
vars == <<connVars, queueVars, loopVars, outsideVars, kernelVars, historyVars>>

States == {"kConnecting", "kConnected", "kDisconnecting", "kDisconnected"}
None == [run |-> "none", msg |-> << >>]
Checked == [run |-> "checked", msg |-> << >>]   \* shutdown() has seen kConnected

TypeOK ==
  /\ m_state \in States
  /\ events \subseteq {"read", "write"}
  /\ index \in {"new", "added", "deleted"}
  /\ output \in Seq(Byte)
  /\ pending \in Seq(Functor) /\ batch \in Seq(Functor)
  /\ pc \in {"poll", "close", "error", "read", "write", "swap", "functors", "disconnect", "ended"}
  /\ revents \subseteq {"IN", "OUT", "HUP", "ERR"}
  /\ user \in {"none", "callback", "down"}
  /\ calling \in [Thread -> Functor \cup {None, Checked}]
  /\ sent \in [Sender -> 0 .. MaxBytes]
  /\ server \in [alive : BOOLEAN, inMap : BOOLEAN, removals : Nat]
  /\ wire \in Seq(Byte)
  /\ got \in 0 .. Len(wire)
  /\ Len(wire) - got <= SendBuf
  /\ inputs \in 0 .. MaxInput /\ rcv \in 0 .. inputs
  /\ wrShut \in BOOLEAN /\ soError \in BOOLEAN
  /\ peer \in {"open", "closed", "reset"}
  /\ failed \in BOOLEAN /\ downs \in Nat /\ destroys \in Nat
  /\ notice \in {"none", "writeComplete", "highWaterMark"}

\* TcpServer::newConnection has constructed the connection and queued
\* connectEstablished in its io loop.
Init ==
  /\ m_state = "kConnecting"
  /\ events = {} /\ index = "new"
  /\ output = << >>
  /\ pending = <<Established>> /\ batch = << >>
  /\ pc = "poll" /\ revents = {} /\ user = "none"
  /\ calling = [t \in Thread |-> None]
  /\ sent = [s \in Sender |-> 0]
  /\ server = [alive |-> TRUE, inMap |-> TRUE, removals |-> 0]
  /\ wire = << >> /\ got = 0 /\ rcv = 0 /\ inputs = 0
  /\ wrShut = FALSE /\ soError = FALSE /\ peer = "open"
  /\ failed = FALSE /\ notice = "none" /\ downs = 0 /\ destroys = 0
-----------------------------------------------------------------------------
\* The socket, external: what epoll_wait and write see of it.
Room == SendBuf - (Len(wire) - got)
WriteFails == peer = "reset" \/ wrShut \/ Room = 0   \* ECONNRESET, EPIPE, EWOULDBLOCK
HungUp == peer = "reset" \/ (peer = "closed" /\ wrShut)
Readable == rcv > 0 \/ peer # "open"
Writable == Room > 0 \/ wrShut \/ peer = "reset"

\* Channel::update through Poller.
SetEvents(interest) ==
  /\ events' = interest
  /\ index' = IF index # "added" THEN "added" ELSE IF interest = {} THEN "deleted" ELSE "added"

isWriting == "write" \in events

\* Defect: a closed channel stays registered with its interest.
disableNothing == UNCHANGED channelVars

disableAll == SetEvents({})

ToBack(functors) == pending' = pending \o functors
-----------------------------------------------------------------------------
\* Defect: the socket is shut down without waiting for the output buffer.
shutdownInLoopAtOnce(writing) == wrShut' = TRUE

\* shutdownInLoop: half-close when nothing is left to write.
shutdownInLoop(writing) == wrShut' = (wrShut \/ ~writing)

\* Defect: a message is written directly although older bytes wait.
sendRestDirect(msg) == IF WriteFails THEN msg ELSE SubSeq(msg, Room + 1, Len(msg))

\* Defect: a partial write counts as a whole one.
sendRestNone(msg) == IF isWriting \/ output # << >> THEN msg ELSE << >>

\* What sendInLoop does not get rid of by writing directly.  A write that returns -1
\* leaves nwrote at SIZE_MAX, which is >= 0: remaining is len + 1, and the rest that
\* is kept starts one byte before the message.
sendRest(msg) ==
  IF isWriting \/ output # << >> THEN msg
  ELSE IF WriteFails THEN <<Junk>> \o msg
  ELSE SubSeq(msg, Room + 1, Len(msg))

\* Defect: reaching the mark exactly does not count.
crossesAbove(rest) == Len(output) <= HighWaterMark /\ Len(output \o rest) > HighWaterMark

\* Does the buffer reach the high water mark with what sendInLoop adds to it?
crosses(rest) == Len(output) < HighWaterMark /\ Len(output \o rest) >= HighWaterMark

\* Defect: the channel is not told that there is something to write.
askToWriteNever(rest) == UNCHANGED channelVars

askToWrite(rest) == IF rest # << >> /\ ~isWriting THEN SetEvents(events \cup {"write"})
                                               ELSE UNCHANGED channelVars

\* sendInLoop on a connection that is not kDisconnected.
writeOrKeep(msg) ==
  LET fails == ~isWriting /\ output = << >> /\ WriteFails
      rest == sendRest(msg)
  IN  /\ wire' = wire \o SubSeq(msg, 1, Len(msg) - Len(rest))
      /\ output' = output \o rest
      /\ failed' = (failed \/ fails)
      /\ soError' = (soError /\ ~fails)
      /\ ToBack(IF rest = << >> THEN <<WriteComplete>>
                ELSE IF crosses(rest) THEN <<HighWater>> ELSE << >>)
      /\ askToWrite(rest)

\* Defect: a message is written whatever became of the connection.
sendInLoopUnchecked(msg) == writeOrKeep(msg)

sendInLoop(msg) ==
  \/ /\ m_state = "kDisconnected"
     /\ UNCHANGED <<channelVars, output, pending, wire, soError, failed>>
  \/ m_state # "kDisconnected" /\ writeOrKeep(msg)

\* handleClose up to connectionCallback_; m_closeCallback follows in callbackReturns.
handleClose(next) ==
  /\ m_state' = "kDisconnected"
  /\ disableAll
  /\ downs' = downs + 1 /\ user' = "down" /\ pc' = next
-----------------------------------------------------------------------------
\* What epoll_wait reports for the channel.
Reported == IF index # "added" THEN {}
            ELSE {e \in {"IN", "OUT", "HUP", "ERR"} :
                    \/ e = "IN" /\ "read" \in events /\ Readable
                    \/ e = "OUT" /\ isWriting /\ Writable
                    \/ e = "HUP" /\ HungUp
                    \/ e = "ERR" /\ soError}

\* epoll_wait returns when the channel is ready or a functor is queued.
poll ==
  /\ pc = "poll"
  /\ revents' = Reported
  /\ revents' # {} \/ pending # << >>
  /\ pc' = IF revents' = {} THEN "swap" ELSE "close"
  /\ UNCHANGED <<connVars, queueVars, user, outsideVars, kernelVars, historyVars>>

\* It also returns for other channels and after its timeout.
pollOther ==
  /\ pc = "poll" /\ Reported = {} /\ pending = << >>
  /\ pc' = "swap"
  /\ UNCHANGED <<connVars, queueVars, revents, user, outsideVars, kernelVars, historyVars>>

\* The loop was told to quit and leaves loop(): ~TcpServer does that to the pool's loops
\* and joins them, and the base loop ends before it.  What is still queued, and what is
\* queued after, never runs.
loopEnds ==
  /\ ServerDies /\ pc = "poll"
  /\ pc' = "ended"
  /\ UNCHANGED <<connVars, queueVars, revents, user, outsideVars, kernelVars, historyVars>>

\* The steps of handelEventWithGuard.
Stage(at) == pc = at /\ user = "none"

\* Defect: a hang-up closes the connection also if there is input left.
hangsUpAnyway == "HUP" \in revents

hangsUp == "HUP" \in revents /\ "IN" \notin revents

closeStage ==
  /\ Stage("close")
  /\ IF hangsUp THEN handleClose("error")
                ELSE pc' = "error" /\ UNCHANGED <<m_state, channelVars, user, downs>>
  /\ UNCHANGED <<output, queueVars, revents, outsideVars, kernelVars, failed, notice, destroys>>

\* handleError fetches SO_ERROR, which clears it.
errorStage ==
  /\ Stage("error")
  /\ soError' = (soError /\ "ERR" \notin revents) /\ pc' = "read"
  /\ UNCHANGED <<connVars, queueVars, revents, user, outsideVars, wire, wrShut, peerVars, historyVars>>

\* Defect: the end of the peer's stream is ignored.
endOfStreamIgnored == pc' = "write" /\ UNCHANGED <<m_state, channelVars, user, downs>>

endOfStream == handleClose("write")

\* handleRead: some of the input, or an error taken for SIZE_MAX bytes, goes to
\* messageCallback_.
handleRead ==
  /\ \/ rcv > 0 /\ rcv' \in 0 .. rcv - 1 /\ UNCHANGED soError
     \/ rcv = 0 /\ soError' = FALSE /\ UNCHANGED rcv
  /\ IF rcv > 0 \/ soError
       THEN user' = "callback" /\ pc' = "write" /\ UNCHANGED <<m_state, channelVars, downs>>
       ELSE endOfStream

readStage ==
  /\ Stage("read")
  /\ IF "IN" \in revents
       THEN handleRead
       ELSE pc' = "write" /\ UNCHANGED <<m_state, channelVars, user, downs, rcv, soError>>
  /\ UNCHANGED <<output, queueVars, revents, outsideVars, wire, wrShut, got, inputs, peer,
                 failed, notice, destroys>>

\* Defect: a drained connection forgets that it was shut down.
afterDrainNothing == UNCHANGED wrShut

\* The end of handleWrite, when writing has just been disabled.
afterDrain == IF m_state = "kDisconnecting" THEN shutdownInLoop(FALSE) ELSE UNCHANGED wrShut

\* handleWrite: a failing write counts as one of SIZE_MAX bytes, so that retrieve
\* empties the buffer.
handleWrite ==
  LET left == IF WriteFails THEN << >> ELSE SubSeq(output, Room + 1, Len(output))
  IN  /\ wire' = IF WriteFails THEN wire ELSE wire \o SubSeq(output, 1, Len(output) - Len(left))
      /\ output' = left
      /\ failed' = (failed \/ WriteFails)
      /\ soError' = (soError /\ ~WriteFails)
      /\ IF left = << >>
           THEN SetEvents(events \ {"write"}) /\ ToBack(<<WriteComplete>>) /\ afterDrain
           ELSE UNCHANGED <<channelVars, pending, wrShut>>

writeStage ==
  /\ Stage("write")
  /\ IF "OUT" \in revents /\ isWriting
       THEN handleWrite
       ELSE UNCHANGED <<channelVars, output, pending, wire, wrShut, soError, failed>>
  /\ pc' = "swap"
  /\ UNCHANGED <<m_state, batch, revents, user, outsideVars, peerVars, notice, downs, destroys>>
-----------------------------------------------------------------------------
\* doPendingFunctors: one swap, then the batch.
swap ==
  /\ Stage("swap")
  /\ batch' = pending /\ pending' = << >> /\ pc' = "functors"
  /\ UNCHANGED <<connVars, revents, user, outsideVars, kernelVars, historyVars>>

endBatch ==
  /\ Stage("functors") /\ batch = << >>
  /\ pc' = "poll" /\ revents' = {}
  /\ UNCHANGED <<connVars, queueVars, user, outsideVars, kernelVars, historyVars>>

Runs(kind) == /\ Stage("functors") /\ batch # << >>
              /\ Head(batch).run = kind
              /\ batch' = Tail(batch)
              /\ UNCHANGED <<revents, outsideVars, peerVars>>

connectEstablished ==
  /\ Runs("connectEstablished")
  /\ m_state' = "kConnected"
  /\ SetEvents(events \cup {"read"})
  /\ user' = "callback"
  /\ UNCHANGED <<output, pending, pc, wire, wrShut, soError, historyVars>>

runSendInLoop ==
  /\ Runs("sendInLoop") /\ sendInLoop(Head(batch).msg)
  /\ UNCHANGED <<m_state, pc, user, wrShut, notice, downs, destroys>>

runShutdownInLoop ==
  /\ Runs("shutdownInLoop") /\ shutdownInLoop(isWriting)
  /\ UNCHANGED <<connVars, pending, pc, user, wire, soError, historyVars>>

\* writeCompleteCallback_ and m_highWaterMarkCallback.
runCallback ==
  /\ Runs("writeComplete") \/ Runs("highWaterMark")
  /\ user' = "callback" /\ notice' = Head(batch).run
  /\ UNCHANGED <<connVars, pending, pc, wire, wrShut, soError, failed, downs, destroys>>

\* connectDestoryed reads m_state; if it was kConnected, it goes on in disconnect.
\* Either way Channel::remove takes the channel out of the poller.
connectDestoryed ==
  /\ Runs("connectDestoryed")
  /\ IF m_state = "kConnected"
       THEN pc' = "disconnect" /\ UNCHANGED <<index, destroys>>
       ELSE index' = "new" /\ destroys' = destroys + 1 /\ UNCHANGED pc
  /\ UNCHANGED <<m_state, events, output, pending, user, wire, wrShut, soError, failed, notice, downs>>

disconnect ==
  /\ pc = "disconnect"
  /\ m_state' = "kDisconnected" /\ events' = {} /\ index' = "new"
  /\ user' = "callback" /\ downs' = downs + 1 /\ destroys' = destroys + 1
  /\ pc' = "functors"
  /\ UNCHANGED <<output, queueVars, revents, outsideVars, kernelVars, failed, notice>>

\* A user callback returns.  After the one of handleClose follows m_closeCallback:
\* TcpServer::removeConnection queues removeConnectionInLoop in the base loop.  (If
\* the TcpServer is gone it runs on a destroyed object: nothing is modelled.)
callbackReturns ==
  /\ user # "none"
  /\ user' = "none"
  /\ server' = IF user = "down" /\ server.alive THEN [server EXCEPT !.removals = @ + 1] ELSE server
  /\ UNCHANGED <<connVars, queueVars, pc, revents, calling, sent, kernelVars, historyVars>>
-----------------------------------------------------------------------------
\* Code on the loop thread: a callback of this connection, or of another channel or
\* functor before or after it.
LoopTurn == user # "none" \/ pc \in {"close", "swap", "functors"}

Message(s, len) == [i \in 1 .. len |-> [from |-> s, nr |-> sent[s] + i]]

SendCall(s, len) == /\ m_state = "kConnected"
                    /\ sent[s] + len <= MaxBytes
                    /\ sent' = [sent EXCEPT ![s] = @ + len]

\* send and shutdown on the loop thread: runInLoop runs the rest at once.
send(len) ==
  /\ LoopTurn /\ SendCall(Loop, len) /\ sendInLoop(Message(Loop, len))
  /\ UNCHANGED <<m_state, batch, loopVars, calling, server, wrShut, peerVars, notice, downs, destroys>>

shutdown ==
  /\ LoopTurn /\ m_state = "kConnected"
  /\ m_state' = "kDisconnecting"
  /\ shutdownInLoop(isWriting)
  /\ UNCHANGED <<channelVars, output, queueVars, loopVars, outsideVars, wire, soError, peerVars,
                 historyVars>>

\* send and shutdown on another thread: test m_state, set it, queue the rest.
threadSend(t, len) ==
  /\ calling[t] = None /\ SendCall(t, len)
  /\ calling' = [calling EXCEPT ![t] = Send(Message(t, len))]
  /\ UNCHANGED <<connVars, queueVars, loopVars, server, kernelVars, historyVars>>

threadShutdown(t) ==
  /\ ThreadsShutdown /\ calling[t] = None /\ m_state = "kConnected"
  /\ calling' = [calling EXCEPT ![t] = Checked]
  /\ UNCHANGED <<connVars, queueVars, loopVars, sent, server, kernelVars, historyVars>>

threadSetState(t) ==
  /\ calling[t] = Checked
  /\ m_state' = "kDisconnecting" /\ calling' = [calling EXCEPT ![t] = Shutdown]
  /\ UNCHANGED <<channelVars, output, queueVars, loopVars, sent, server, kernelVars, historyVars>>

threadRunInLoop(t) ==
  /\ calling[t] \notin {None, Checked} /\ ToBack(<<calling[t]>>)
  /\ calling' = [calling EXCEPT ![t] = None]
  /\ UNCHANGED <<connVars, batch, loopVars, sent, server, kernelVars, historyVars>>
-----------------------------------------------------------------------------
\* TcpServer on the base loop: removeConnectionInLoop, and the destructor.
removeConnectionInLoop ==
  /\ server.alive /\ server.removals > 0
  /\ server' = [server EXCEPT !.inMap = FALSE, !.removals = @ - 1]
  /\ ToBack(<<Destoryed>>)
  /\ UNCHANGED <<connVars, batch, loopVars, calling, sent, kernelVars, historyVars>>

destroyServer ==
  /\ ServerDies /\ server.alive
  /\ server' = [alive |-> FALSE, inMap |-> FALSE, removals |-> 0]
  /\ ToBack(IF server.inMap THEN <<Destoryed>> ELSE << >>)
  /\ UNCHANGED <<connVars, batch, loopVars, calling, sent, kernelVars, historyVars>>

\* The peer and the network, external.
Environment == UNCHANGED <<connVars, queueVars, loopVars, outsideVars, historyVars, wire, wrShut>>

peerReads == /\ peer # "reset" /\ got < Len(wire)
             /\ got' = Len(wire)
             /\ UNCHANGED <<rcv, inputs, soError, peer>> /\ Environment

peerSends == /\ peer = "open" /\ inputs < MaxInput
             /\ rcv' = rcv + 1 /\ inputs' = inputs + 1
             /\ UNCHANGED <<got, soError, peer>> /\ Environment

peerCloses == /\ peer = "open"
              /\ peer' = "closed"
              /\ UNCHANGED <<got, rcv, inputs, soError>> /\ Environment

peerResets == /\ peer # "reset"
              /\ peer' = "reset" /\ soError' = TRUE
              /\ UNCHANGED <<got, rcv, inputs>> /\ Environment
-----------------------------------------------------------------------------
LoopStep == \/ poll
            \/ closeStage \/ errorStage \/ readStage \/ writeStage
            \/ swap \/ endBatch
            \/ connectEstablished \/ runSendInLoop \/ runShutdownInLoop \/ runCallback
            \/ connectDestoryed \/ disconnect
            \/ callbackReturns

Next == \/ LoopStep \/ pollOther \/ loopEnds
        \/ shutdown
        \/ \E len \in Lens : send(len)
        \/ \E t \in Thread : \/ \E len \in Lens : threadSend(t, len)
                             \/ threadShutdown(t) \/ threadSetState(t) \/ threadRunInLoop(t)
        \/ removeConnectionInLoop \/ destroyServer
        \/ peerReads \/ peerSends \/ peerCloses \/ peerResets

Spec == Init /\ [][Next]_vars

\* The loop thread runs on, unless its loop ends, and user callbacks return; the base
\* loop serves what is queued in it (QueuedIsServed of EventLoop), or it has returned and
\* ~TcpServer comes instead; a thread inside send or shutdown goes on.  epoll_wait need
\* not return for nothing.  The peer reads what it is sent as long as the connection
\* exists; it need not send, close or reset, and nobody needs to call send or shutdown.
Fairness == /\ WF_vars(LoopStep)
            /\ WF_vars(removeConnectionInLoop \/ (server.removals > 0 /\ destroyServer))
            /\ \A t \in Thread : WF_vars(threadSetState(t) \/ threadRunInLoop(t))
            /\ WF_vars(peerReads)

FairSpec == Spec /\ Fairness
-----------------------------------------------------------------------------
\* What is still to be run, the oldest first.
Queue == batch \o pending

\* Where the bytes are that send has accepted from s: written and buffered, in the
\* queue, in the call of s.
Calling(s) == IF s = Loop THEN << >> ELSE calling[s].msg
Pieces(s) == <<wire \o output>> \o [k \in 1 .. Len(Queue) |-> Queue[k].msg] \o <<Calling(s)>>

\* The bytes of s in x are in the order of sending; those in x were sent before those
\* in y; x has the n-th byte of s.
Rising(s, x) == \A i, j \in 1 .. Len(x) :
                  (i < j /\ x[i].from = s /\ x[j].from = s) => x[i].nr < x[j].nr
Precedes(s, x, y) == \A i \in 1 .. Len(x), j \in 1 .. Len(y) :
                       (x[i].from = s /\ y[j].from = s) => x[i].nr < y[j].nr
Has(s, x, n) == \E i \in 1 .. Len(x) : x[i].from = s /\ x[i].nr = n

Accounted(s) ==
  LET piece == Pieces(s)
  IN  /\ \A k \in 1 .. Len(piece) : Rising(s, piece[k])
      /\ \A k, l \in 1 .. Len(piece) : k < l => Precedes(s, piece[k], piece[l])
      /\ \A n \in 1 .. MaxBytes :
           n <= sent[s] <=> \E k \in 1 .. Len(piece) : Has(s, piece[k], n)

\* What the code says of its error handling.  A refused write leaves nwrote at 0, so
\* what is buffered are bytes of messages (sendInLoop).
OnlyMessages == \A i \in 1 .. Len(wire \o output) : (wire \o output)[i] # Junk

\* Unless a write failed, and until the down callback, every byte that send accepted
\* is on the wire, in the output buffer, in the queue or in the sender's call, in the
\* sender's order, once, and nothing else is on the wire or in the buffer (send,
\* sendInLoop, handleWrite, on several threads).
StreamIntact == (~failed /\ downs = 0) => OnlyMessages /\ \A s \in Sender : Accounted(s)

\* An open connection waits for EPOLLOUT exactly while its output buffer holds
\* something, whoever sends and whichever handler runs: no backlog without a wakeup
\* and no busy loop without a backlog (sendInLoop, handleWrite).
WriteInterestTracksBacklog ==
  (m_state \in {"kConnected", "kDisconnecting"} /\ downs = 0 /\ destroys = 0) =>
    /\ index = "added" /\ "read" \in events
    /\ isWriting <=> output # << >>

\* shutdown() lets what is in the output buffer go first: the sending side is closed
\* only when the buffer is empty (shutdownInLoop, handleWrite).
ShutdownFlushes == (wrShut /\ ~failed /\ downs = 0) => output = << >>

\* The last notice of the two, queued or else called, is that the buffer is high.
Warned == \/ \E i \in 1 .. Len(Queue) :
               /\ Queue[i].run = "highWaterMark"
               /\ \A j \in i + 1 .. Len(Queue) : Queue[j].run # "writeComplete"
          \/ /\ notice = "highWaterMark"
             /\ \A i \in 1 .. Len(Queue) : Queue[i].run # "writeComplete"

\* A sender that stops when it is told that the buffer is high and goes on when it is
\* told that everything is written never waits for nothing and is never left unwarned:
\* the last such notice, in the queue or called, fits the buffer, though notices are
\* queued from sendInLoop and handleWrite and come to the user long after.
FlowControl == /\ Len(output) >= HighWaterMark => Warned
               /\ Warned => output # << >>

\* The end of a connection never overtakes the peer's data: when a connection goes down
\* because the peer has closed, its callback was handed all the input before, also if
\* both sides are closed and epoll reports the hang-up with it (handelEventWithGuard,
\* handleRead).
DataBeforeEnd == (downs > 0 /\ peer = "closed") => rcv = 0

\* The user is told once that the connection is down and connectDestoryed runs once,
\* though the peer can close and reset in any phase ("only call once", TcpConnection.h).
CloseOnce == downs <= 1 /\ destroys <= 1

\* After the down callback nothing more is written, also not by a send that another
\* thread had queued before ("disconnected, giveup writing", sendInLoop).
NothingAfterClose == [][downs > 0 => UNCHANGED wire]_vars

\* Once connectDestoryed has removed the channel nothing registers it again: the
\* poller never points into a destroyed connection (connectDestoryed, sendInLoop).
GoneForGood == destroys > 0 => index = "new"

\* What waits in the output buffer is written if the peer reads (handleWrite).  These
\* three hold until the loop ends, which is not before ~TcpServer or the end of main.
BacklogDrains ==
  (output # << >>) ~> (output = << >> \/ downs > 0 \/ destroys > 0 \/ pc = "ended")

\* A connection that was shut down closes its sending side or goes down (shutdown on any
\* thread, shutdownInLoop, handleWrite).
ShutdownCompletes ==
  (m_state = "kDisconnecting") ~> (wrShut \/ downs > 0 \/ destroys > 0 \/ pc = "ended")

\* A peer that closes or resets takes the connection down and out of the server,
\* whatever is being read and written at that time (handleClose, removeConnection).
CloseIsServed ==
  (peer # "open" /\ m_state # "kConnecting") ~> (destroys > 0 \/ pc = "ended")

\* Data may still be on its way when shutdown() is called (the comment above it): a call
\* that closes the sending side at once leaves no message behind that an earlier send()
\* had queued.
SentBeforeShutdown ==
  [][(m_state = "kConnected" /\ m_state' = "kDisconnecting" /\ wrShut') =>
       \A i \in 1 .. Len(Queue) : Queue[i].run # "sendInLoop"]_vars
=============================================================================
