# Specification of dwt_muduo

TLA+ models of the reactor library in `src/` (`src/src/*.h`, `src/src/*.cpp`), the TLC
configurations that check them, and proofs for TLAPS. Identifiers keep the names of the
code, misspellings included (`handelEventWithGuard`, `connectDestoryed`).

## 1. The system

One thread runs one `EventLoop`. A loop owns an `EpollPoller` and the `Channel`s
registered in it; everything registered in a loop is touched on its thread only, and other
threads reach it through its queue of functors. `TcpServer` lives on the base loop: its
`Acceptor` accepts, it picks an io loop of its `EventLoopThreadPool` and creates a
`TcpConnection` there.

| Component | State | Operations | Talks to |
|---|---|---|---|
| EventLoop | `m_quit`, `m_pendingFunctors` (under `m_mutex`), `m_callingPendingFunctors`, active channels, eventfd | `loop`, `quit`, `runInLoop`, `queueInLoop`, `wakeup`, `handleRead`, `doPendingFunctors` | any thread (queue, eventfd); poller; channels (callbacks) |
| Channel | `m_fd`, `m_events`, `m_revents`, `m_index`, weak tie | `enable*`, `disable*`, `remove`, `handleEvent` | owner (callbacks), loop, poller |
| EpollPoller | `m_channels`, `m_events` (the list for `epoll_wait`), kernel interest list | `poll`, `updateChannel`, `removeChannel`, `update` | kernel |
| Buffer | vector, reader and writer index | `append`, `readFd`, `writeFd`, `retrieve*`, `makeSpace` | TcpConnection |
| TcpConnection | `m_state`, two buffers, channel, socket | `send`, `shutdown`, `connectEstablished`, `connectDestoryed`, `handleRead/Write/Close/Error` | user callbacks, TcpServer (close callback), other threads (`send`, `shutdown`) |
| TcpServer | `connections_`, `nextConnId_`, `started_` | `start`, `newConnection`, `removeConnection(InLoop)`, destructor | Acceptor, pool, connections |
| Acceptor | listening socket, channel, `listening_` | `listen`, `handleRead` | TcpServer |
| EventLoopThread, Thread | `loop_`, mutex and condition, thread state, promise of the thread id | `startLoop`, `threadFunc`, destructor; `start`, `join` | pool, its loop |
| EventLoopThreadPool | threads, loops, `next_` | `start`, `getNextLoop`, `getAllLoops` | TcpServer |
| Socket, InetAddress, Timestamp, CurrentThread, Logger, DefaultPoller | none that changes after construction | wrappers of system calls, formatting | |

Where it is hard:

* **Sleep against wake-up.** A functor or a `quit()` can arrive between any two steps of
  `loop()`. `queueInLoop` decides from `m_callingPendingFunctors` whether the loop needs the
  eventfd, and writes it after it has released the mutex.
* **Stale pointers in a round of events.** The list of one `epoll_wait` is served
  channel by channel, while the callbacks change registrations and close connections.
* **Two records of one fact.** A channel's `m_index`, the poller's map and the kernel's
  interest list have to agree; descriptors are reused as soon as they are closed.
* **Close, half-close and writing.** Peer closing, `shutdown()` on any thread, a backlog in
  the output buffer, sends queued by other threads and the server's destructor meet in one
  connection in any order.
* **Failing system calls.** `read` and `write` results are kept in a `size_t`.
* **Starting and stopping threads.** `quit()` against `loop()`, the handshake in
  `EventLoopThread`, destruction order.

What makes the components correct: the loop never sleeps on work and serves functors once,
in order; a registration is the same in all its records and never points at a dead channel;
the buffer is a queue of bytes in bounded memory; a connection loses, repeats and reorders
nothing, always has the interest that its backlog needs, half-closes only when drained, and
goes down exactly once. `PROJECT.json` lists under `hazards` each point of the code where
one of these could go wrong, with the properties that watch it, or the reason none does yet.

## 2. Modules

| Module | Models | Notes |
|---|---|---|
| `TaskQueue` | what `queueInLoop` promises | abstract FIFO of functors |
| `EventLoop` | `EventLoop.cpp` | loop thread, posters, eventfd |
| `EventLoop_proofs` | | theorems |
| `Poller` | `Channel.cpp`, `Poller.cpp`, `EpollPoller.cpp` | all channels of one loop, kernel interest list |
| `Poller_proofs` | | theorems |
| `ByteQueue` | what `Buffer` promises | abstract queue of bytes |
| `Buffer` | `Buffer.h`, `Buffer.cpp` | vector and indices |
| `BufferReadError` | `Buffer::readFd` when `readv` fails | extends `Buffer`; `size_t` arithmetic |
| `Buffer_proofs` | | theorems |
| `EventLoopThread` | `EventLoopThread.cpp`, `Thread.cpp` | composes the thread with `EventLoop` |
| `EventLoopThread_proofs` | | theorems |
| `EventLoopThreadPool` | `EventLoopThreadPool.cpp` | which loop gets the next connection |
| `EventLoopThreadPool_proofs` | | theorems |
| `ConnectionLife` | what `TcpServer` promises of a connection | abstract life cycle |
| `TcpServer` | `TcpServer.cpp`, `Acceptor.cpp` | extends the pool; several connections on several loops |
| `TcpServer_proofs` | | invariants |
| `TcpServerLife_proofs` | | `TcpServer` implements `ConnectionLife`; extends the proofs before |
| `TcpConnection` | `TcpConnection.cpp`, `Channel::handelEventWithGuard`, what `TcpServer` does with one connection | composes loop, channel, buffer |
| `TcpConnection_proofs` | | theorems |

### EventLoop

`pc` is the position of the loop thread in `loop()`: `idle` (before and after), `check`
(the `while` test), `poll` (in `epoll_wait`), `handle` (active channels), `run`
(`doPendingFunctors`). `m_looping` is `pc # "idle"`. `woken` says that the wakeup channel
is among the active channels still to be called. `funcs` is the local batch and `cur` the
functor being run. A poster's `queueInLoop` is two steps, the append under the mutex and
then the write to the eventfd; `quit` is a store and then the write. Calls on the loop
thread (`ownerQueueInLoop`, `ownerQuit`) may happen wherever user code runs: in a channel
callback or in a functor. Append and wake-up are one step there, because only the loop
thread itself reads the counter. `runInLoop` is one of the two things it is in the code:
a plain call on the loop thread, `queueInLoop` elsewhere.

`TaskQueue` is implemented under `queue <- funcs \o m_pendingFunctors`, `cur <- cur`: the
swap under the mutex becomes invisible.

### Poller

The loop thread alternates between `handle` and `functors`. `update` is `epoll_ctl` with
the kernel's errors: adding a descriptor that is present, or changing or deleting one that is
absent, fails; the code answers `LOG_ERROR` for `DEL` and `LOG_FATAL`, which aborts, for the
others (`ctl`). Owners construct a channel on a fresh descriptor, change its interest,
remove it once, destroy it. Destroying closes the descriptor; the kernel then forgets
it and the next `Construct` may reuse it. Removal happens in functors only, because
`TcpServer::removeConnection*` always goes through `queueInLoop`; the mutant that removes
inside a callback shows that `NoStaleDispatch` rests on that. `ready` are the descriptors that
the kernel has something to report for. It changes as it likes (`stir`); `reports` is `epoll_wait`, which
takes as many of them as the event list holds, and `resize` doubles a list that came back full.

### Buffer

The record `buf` is the vector with its two indices, `resize`, `copyTo` and the rest are
the operations as functions of it, and the three actions are the calls a connection makes.
`io` remembers what the last call put or took so that `ByteQueue` can be stated about calls
and not only about contents. Indices are natural numbers: within `TypeOK` and `SizeBounded`
nothing wraps. `BufferReadError` adds the one call that does wrap.

### EventLoopThread

Two threads: `creator` is where the creating thread is in `startLoop` and the destructor,
`worker` where the started thread is in `Thread::start`'s lambda and `threadFunc`. The
`EventLoop` on the worker's stack is an instance of module `EventLoop` with the creator as its
one poster; `alive` says whether it exists, `loop_` whether the pointer of the object is set. The
creator destroys the object whenever it likes after `startLoop`. The user's code may call `quit()` on
the loop it got as well; `userQuit` remembers that it did. `LoopUsable` says when the loop that
`startLoop` returned can be relied on. A call on a loop that is gone is undefined behaviour; the model
follows the outcome in which nothing happens. Of the two builds in the file only the
default one is modelled (`USE_COMPOSIZTION` is undefined by the header).

### EventLoopThreadPool

`loops_` and `next_` are those of the code, with loops numbered from the base loop, 0.
`served` counts what each loop has been given. Starting one thread is `EventLoopThread`, and that
`TcpServer` starts the pool once is the guard of `start`. TLC checks the pool as part of
`TcpServer`, which extends it.

### TcpServer

The module is about ownership: who holds a `TcpConnectionPtr`, from `accept` to the last
release. Loops are the FIFOs that `TaskQueue` promises; `life` says whether a loop runs, has been
told to quit, or is gone. A connection is only its `state` and `index` here, and in `told` what
`connectionCallback_` has reported of it. `Owned` lists the
owners: the map, user code, the guard in `handleClose`, and the functors that bind the shared pointer.
Functors of `send` and `shutdown` (`Bare`) bind the bare `this` and are no owners. `closing` is the connection whose
`handleClose` a loop's thread is in, so that the destructor on the base thread can come between
the down callback and `removeConnection`. What the code runs at once through `runInLoop` on the
base loop is one step, what it queues is two. `erase` is the body of `removeConnectionInLoop`, which both
ways share.

The destructor is as many steps as it takes beside running io loops: `connectDestoryed` is queued
for one connection after the other, then the members go: the pool quits and joins each
thread, whose loop takes its queue along (`loopEnds`), then the acceptor. `destroyServer` comes
after the base loop's `loop()` has returned and `destroyBase` after the server, as the
declarations in `test/main_test.cpp` order them. `start` returns with io loops that are still
`starting`: their functors wait until `enterLoop`. The destructor's `quit()` of such a loop is forgotten, as
`EventLoopThread` shows of one thread; the loop is `deaf` from then on, serves events and functors, and
is joined for ever. Of descriptors only the number is kept; which one a connection
gets, and its reuse, is `Poller`'s. `acceptFails` is the branch for `EMFILE`.

Two threads of the user's, which keep a pointer, act beside the loops: one sends (`threadSend`, `threadRunInLoop`:
test of `m_state`, then queueing), one shuts down (`threadShutdown`, `threadSetState`,
`threadShutdownInLoop`: test, store, queueing). Between any two of these steps the io loop may close the connection
or run its `connectDestoryed`, the server may be destroyed and the loop may end. `shutdown` is the call on the io loop, where
test and store have nothing of the loop's own in between. `revived` holds the connections whose `kDisconnected`
the store of `threadSetState` has overwritten.

`sendInLoop` is reduced to the one thing that matters to the owners: if bytes are left it asks for
`EPOLLOUT`, and that registers a channel again. One that `handleClose` has disabled becomes `added`, which takes a
revived connection; one that `connectDestoryed` has removed becomes `again`. `RemovedForGood` says what the second takes: a
connection that `~TcpServer` destroys while it is
`kDisconnecting` (`connectDestoryed` leaves that state alone, `TcpConnection.cpp:173`), or a revived one. `RegisteredAreOwned` names
the same two as its exceptions: nobody has to hold a channel that came back so. A queued `sendInLoop` whose
connection is freed is undefined behaviour in the code, of which the model follows the
outcome that nothing happens.

`connectDestoryed`, which tests `kConnected` and then stores `kDisconnected`, is one step here and two in
`TcpConnection`. Only a store of `threadSetState` can come in between; it is overwritten, and what is left
is a connection that is down with a `shutdownInLoop` queued, as after a store before `handleClose`.

`ConnectionLife` is implemented with `phase` computed from `state`, `Owned` and `revived`, `told` from the callbacks' history, and `ending`
from `dtor`. As `told` is part of it, a second up or down callback is no stutter but a step that it does not have.
A connection that a late store revives is `spoiled`: it may be told down a second time (finding 3), so nothing is promised of it
but that it stays in existence until its last holder goes. The step `spoil` clears what it was told, and `promised` leaves the rest out.

### TcpConnection

`pc` walks through one round of the loop: `poll`, then the branches of
`handelEventWithGuard` in the code's order (`close`, `error`, `read`, `write`), then
`swap` and the `functors`. A user callback interrupts a handler (`user`); in it, and between
handlers of other channels, code on the loop thread may call `send` and `shutdown`. Other
threads' `send` is test and queueing in two steps; `shutdown` is test, store and
queueing in three (`threadShutdown`, `threadSetState`, `threadRunInLoop`).

A handler is one step up to the user callback inside it. This loses no interleaving: other
threads share only `m_state` and the functor queue with the loop thread, and between two
callbacks a handler makes at most one access to each whose order other threads can observe.
`connectDestoryed`, which tests `m_state` and then stores it, is two steps. Functors queued
during a step by the handler itself go to the end of `pending`, as in the code.

A byte is its sender and its number in that sender's stream, so loss, repetition and
reordering are visible. `Junk` is the byte in front of a message which `sendInLoop` copies
after a refused write. The kernel side (`wire`, `got`, `rcv`, `wrShut`, `soError`, `peer`)
is external: a bounded send buffer, and a peer that reads, sends, closes or resets at any
time. The application is taken to ignore `SIGPIPE`, as `sendInLoop`'s test for `EPIPE`
presumes. The input buffer is not in the state; which bytes are where in it is module `Buffer`,
and the connection hands it to the user. `rcv` counts the pieces of input that wait in the kernel, of which one
`readFd` takes some or all. `notice` is the last of the write-complete and high-water callbacks that was called.

`epoll_wait` returns when the channel is ready or a functor is queued (`poll`), and also for other channels and after its timeout
(`pollOther`), so that other code on the loop thread may act at any time. `EPOLLPRI` (`Channel.cpp:146`), which TCP urgent data raises, is
left out.

`server` is as much of `TcpServer` as one connection sees: alive, connection in the map,
queued `removeConnectionInLoop`. Its destructor quits and joins the io loops (`TcpServer.cpp:38-48`, then the members,
`EventLoopThread.cpp:86-93`), and the base loop has returned before: `loopEnds` may end the loop at any time when `ServerDies`. In `pc =
"ended"` the loop thread does nothing more, and what is queued is dropped. A crash is never a step: where the code may go wrong in a
way that ends the program, the model follows the outcomes in which it goes on.

## 3. Runs

| Run | Question | Bounds |
|---|---|---|
| `event_loop` | no lost wake-up, FIFO, queued functors served, `quit` ends the loop, batches end | 2 posters, 2 functors, 3 waiting, eventfd limit 2 |
| `poller` | registrations agree, `epoll_ctl` never fails, no stale pointer, every ready channel is served | 3 channels, 3 descriptors, event list of 1 growing |
| `buffer` | indices, memory bound, queue of bytes | prepend 1, initial 2, extrabuf 2, 4 bytes held |
| `buffer_read_error` | indices after a failing `readv`: **violated** | as above |
| `event_loop_thread` | the handshake returns a loop that can be used until the destructor, join ends unless `quit()` came too early, the worker does not outlive the object, with user code that calls `quit()` | 1 functor, 2 waiting |
| `event_loop_thread_looping` | "each thread's loop has begun to loop" after the start: **violated** | as above |
| `tcp_server` | the chain of owners, queued sends and half-closes, removed channels, the life and the callbacks of every connection, accepting at the limit of descriptors, the destructor, also before an io loop has begun; whose turn it is | 0 to 2 threads, 3 connections, 2 descriptors, 1 client waiting, 1 send queued per loop, one connection of which user code keeps pointers |
| `tcp_connection` | stream, interest, flow control, input before the end, one close, removal for good, silence after close | 1 other thread, 2 bytes per sender, 2 pieces of input, send buffer 1, high-water mark 2 |
| `tcp_connection_races` | when other threads also call `shutdown`, `~TcpServer` runs early and the loop ends: half-close after the backlog; until the loop ends, backlog drains, shutdown completes, close is served | as `tcp_connection`, messages of 2 bytes only, 1 piece of input |
| `tcp_connection_once` | "only call once" with `shutdown` on other threads: **violated** | messages of 1 byte |
| `tcp_connection_refused` | nothing but message bytes is buffered: **violated** | as `tcp_connection` |
| `tcp_connection_shutdown` | `shutdown` leaves no message behind that was queued before it: **violated** | as `tcp_connection` |

**Why these bounds.** `EventFdMax = 2` is reached, so that the failing write at the limit
(2^64 - 2 in Linux) is among the cases; two posters are the fewest that can be between
append and wake-up together while a third functor is queued by the loop itself.
In `poller` three channels let one be active, one be removed by its functor and one reuse a
descriptor; an event list of 1 is filled and doubled twice. Symmetry is not used, because of the liveness property. In `buffer` every size
exceeds the next smaller one by what it takes to hit each branch: room without moving,
room by moving, growing, an exact fit, and a read that splits over both vectors.
In `tcp_server` two io loops wrap the position, a third connection is accepted only after one of
the first two has been freed, and pools of 0, 1 and 2 threads are all started. `setThreadNum` is called before `start` only; late
calls, which store a number that nothing reads, are part of the pool's proofs. In `tcp_connection` a message of 2 does not fit in the send buffer, so partial writes, refused
writes, backlogs and a crossed high-water mark all occur with two senders; two pieces of input can be left half read when the peer closes. `MaxQueued`,
`MaxBytes`, `MaxInput`, `MaxConns`, `MaxWaiting` and `MaxSends` bound counters that the program leaves unbounded, and `MaxKept` says
of how many connections user code may keep pointers; each appears
in a guard, and by name. With `MaxKept = 1` the two other threads of the user's work on the first connection, sending and shutting it down at
the same time; the later ones are what the first one's descriptor, queues and loops are shared with. `tcp_server` is the largest liveness
run (about 430 000 states, 3 minutes); larger values of its bounds are the proofs' part.

**Deadlock** is checked for `EventLoop`, `Poller` and `Buffer`. It is
switched off for `EventLoopThread` and `TcpServer`, where everything comes to an end, and for `TcpConnection`: when everything is sent and the peer is silent, `epoll_wait` blocks.
It is also off for `buffer_read_error`, which stops at the broken buffer.

**Fairness.** In `EventLoop` the steps of the running loop thread and the eventfd write of a
thread inside `queueInLoop` or `quit` are weakly fair: both are straight-line code of a
scheduled thread, and callbacks are expected to return. Returning from
`epoll_wait` by timeout or other traffic (`pollOther`) is not fair, so what is shown does
not rest on the 10 s timeout, and `loop()` need not be called. In `Poller` the loop's own steps and `epoll_wait` are
weakly fair; owners and the kernel's events are not. In `EventLoopThread` the worker and the creator
inside `startLoop`, a call or the destructor are weakly fair. In `TcpConnection` the
loop thread, queued work of the base loop, threads inside a call, and a peer that reads are
fair; no one is obliged to send, shut down, close or reset, and `pollOther` and `loopEnds` need not happen. That the base loop serves its
queue is `QueuedIsServed` of `EventLoop`; if it has returned, `~TcpServer` comes instead. The fairness of the loop thread ends with the
loop, and the three liveness properties promise nothing after that. In `TcpServer` each running loop and one that is about to run, the acceptor, a loop that was told to quit
(`QuitStopsLoop`) and a destructor that has begun are weakly fair.
Clients, closings, `release`, `destroyServer` and the user's other threads are not: these may stay inside `send` or `shutdown` for ever.

### What the code and its comments disagree on

Each run marked *violated* is an entry of `findings`:

1. **A failing `readv`** (`Buffer.cpp:28`, `buffer_read_error`). The result is a `size_t`,
   `n < 0` is never true, and the writer index ends before the reader index.
2. **A refused `write` in `sendInLoop`** (`TcpConnection.cpp:100`, `tcp_connection_refused`).
   For the same reason the branch for `EWOULDBLOCK` is dead; the message is buffered with
   the byte before it.
3. **`shutdown` off the loop thread** (`TcpConnection.cpp:148`, `tcp_connection_once`). Test
   and store of `m_state` are not atomic. A connection that closed in between comes back to
   `kDisconnecting`, a queued send registers its channel again, and it goes down twice.
4. **`send` on one thread, `shutdown` on another** (`TcpConnection.cpp:158`,
   `tcp_connection_shutdown`). The comment at `TcpConnection.cpp:144-145` says that data may still be on its way when `shutdown` is
   called, and has `handleWrite` finish it. `shutdownInLoop` looks at the output buffer only. In the run another thread's `send` has been accepted,
   has queued `sendInLoop` and returned; `shutdown` on the loop thread then closes the sending side at once, and the message can no
   longer be written.
5. **Started, not looping** (`EventLoopThread.cpp:127`, `event_loop_thread_looping`). The
   promise is set before `loop()`. A `quit()` in that window is overwritten by
   `m_quit = false` (`EventLoop.cpp:68`), and the destructor's `join` does not end. `JoinEnds`
   and `OnlyEarlyQuitLost` say that nothing else makes it hang.

`tcp_connection_races` shows what survives 3 and the server's destructor: the half-close still waits for the
buffer, and backlogs, shutdowns and closes are still served as long as the loop runs. When `~TcpServer` has quit and joined the
loop, what was queued or buffered is dropped. `tcp_server` shows that 3 and `~TcpServer` are all that brings a removed channel back.

The models contain four more points of this kind that have no run of their own. They follow
from the code line by line:

* `queueInLoop` on the loop's own thread skips the eventfd unless functors are being run
  (`EventLoop.cpp:114`). Called before `loop()`, as a thread-init callback may, the functor waits
  for unrelated traffic or the 10 s timeout. `EventLoop` leaves such calls out of its next-state
  relation: its owner calls start with `loop()`.
* A failing `write` in `handleWrite` empties the buffer and reports that everything was sent
  (`TcpConnection.cpp:220`). `TcpConnection` follows it.
* Between the store of `m_quit` and the wake-up in `quit` (`EventLoop.cpp:91`) the worker may leave
  `loop()` and destroy the `EventLoop`. `EventLoopThread` contains the step and lets it do nothing.
* A connection that `~TcpServer` destroys while it is `kDisconnecting` keeps that state. A `send` queued behind
  its `connectDestoryed` registers its channel in the poller again, and nobody removes it: when user code lets go of
  the connection, the poller of a loop that still runs points to a freed channel. The same happens while the server lives to a connection whose
  `kDisconnected` another thread's `shutdown` has overwritten (finding 3). `TcpServer` has the steps
  (`index` is `again`); `RegisteredAreOwned` and `RemovedForGood` say that there is no third way.

## 4. Proofs

For every value of the constants that meets the modules' assumptions:

* **EventLoop**: `TypeCorrect`, `NoLostWakeupHolds`, `ImplementsTaskQueue` (safety). `NoLostWakeup`
  speaks of the sleeping loop only and is not inductive: nothing in it says why the eventfd
  is still readable when the loop gets there. `WakeupKept` does: outside
  the phase `handle`, a functor in the queue has its wake-up on the way. `handle` is exempt,
  since that is where `handleRead` takes the counter, and the swap follows before the next sleep.
  `BatchShape` is needed for the loop's own calls: outside callbacks, user code runs exactly
  when `m_callingPendingFunctors` is set, so such a call writes the eventfd. The step that
  needs the counter to be positive after `wakeup` also covers the write at the limit.
* **Poller**: `TypeCorrect`, `RegistrationHolds`, `CtlNeverFailsHolds`, `NoStaleDispatchHolds` follow
  from `IInv`. `RegistrationAgrees` relates a channel to what its descriptor's entries
  say; to keep it across closing and reuse one needs `Ownership`: descriptors have one
  owner, map and kernel point only at registered channels in use, and what is
  waiting to be dispatched is registered. `CtlSucceeds` is the lemma that turns the
  index into the kernel's precondition.
* **Buffer**: `TypeCorrect`, `SizeBoundedHolds`, `ImplementsByteQueue`. Lemmas say of each helper what
  it does to the readable bytes, the indices and the size (`GrownProperties`,
  `CompactedProperties`, `EnsureProperties`, `AppendHolds`, `ReadFdHolds`, `RetrieveHolds`); the invariant is
  that the buffer is ordered, within `MaxReadable` and within `SizeBound`. The overlap of
  `std::copy` to the front is safe because it copies towards lower addresses, so `compacted` may read
  the content first.

* **EventLoopThread**: `TypeCorrect`, `LoopUsableHolds`, `OnlyEarlyQuitLostHolds`, `ThreadOutlivedHolds`. The invariant
  ties the worker's place to the loop's existence (`LoopOnStack`), the creator's place to
  the worker's (`Handshake`), and says that, as long as `userQuit` is false, the loop lives
  until the destructor's `quit()` (`QuitByDestructor`), and that a call between its store and its wake-up is the user's or the destructor's
  (`CallPending`). It uses no fact about the queue of the loop: only that `loop()`
  returns when `m_quit` is set.
* **EventLoopThreadPool**: `RoundRobinHolds`, also for late calls of `setThreadNum`. Its part `Balanced` alone is
  not inductive; `Rounds` says which loops are one ahead: exactly those before the one whose
  turn it is.

* **TcpServer**: `ServerTypeOKHolds`, `ServerRoundRobin`, `RegisteredAreOwnedHolds`,
  `QueuedSendIsSafeHolds`, `RemovedForGoodHolds`, for any number of loops, connections and queued sends. The invariant
  `SInv` follows the owner. `Chain`: a connection that is registered, or whose `connectEstablished` is queued, is
  held up (`HeldUp`: in the map, in the guard of `handleClose`, or in a queued `removeConnectionInLoop`), or its
  `connectDestoryed` is queued (`Doomed`), unless its loop is gone. `SendsHeld` says the same of queued sends; once nobody
  holds the connection up, each early send must have the `connectDestoryed` behind it (`Covered`), since that functor
  is then its only owner. `QueueFits` ties each queued functor to loop and state of its connection, `EstOrder`
  says that `connectEstablished` runs before anything else of the connection, and `Phases` and `Alive` say which loops run in
  which part of the destructor. `Removed` says of a removed connection that it is down, revived, or destroyed by `~TcpServer`, so that a late send finds
`kDisconnected` otherwise; `Youth` keeps the other threads' calls to connections that have been established, and `Reports` ties the callbacks told to the state.
* **TcpServer implements ConnectionLife**: `ImplementsLifeHolds`. Each step changes the phase of one connection, and what it is told,
  at most, except the end of a loop, which takes a whole queue along. The theorem speaks of the callbacks too, and of `shutdown` on another thread by way of
  `spoil`. A connection leaves the phase it is in when its
  last holder goes, so the lemmas say what a pop (`Popping`) and a push (`Pushing`) do to the set of holders.
* **TcpConnection, the state of the connection**: two invariants. `OpenInv` gives `TypeCorrect`, `InterestTracksBacklog` and
  `ShutdownFlushesHolds` and needs no condition: `Backlog` (interest in `EPOLLOUT` goes with the output buffer as long
  as there was no down callback) says it of destroyed connections too, which `ShutdownFlushes` needs: `connectDestoryed`
  leaves `kDisconnecting` alone, and a late send may still fill the buffer. `DownInv` gives `CloseOnceHolds` and `NothingAfterCloseHolds` when
  `shutdown()` is called on the loop thread only, and `GoneForGoodHolds` and `DataBeforeEndHolds` when the
  server outlives the connection besides. The conditions are the constants `ThreadsShutdown` and
  `ServerDies`; `tcp_connection_once` shows that the first is needed. `Establishing` puts `connectEstablished` in front of the
  queue, `Round` keeps the channel registered while it is served, `Destroying` counts `connectDestoryed` over
  the queue, the batch and the map, and `Serving` says that, while the server lives, only a connection that is down is removed.

* **TcpConnection, the way of the bytes**: `SendInductive` carries `SendInv` along with `OpenInv`, without a condition on who
  shuts down or dies, and gives `StreamIntactHolds` and `FlowControlHolds`. Both properties are stated with positions in
  sequences, so no step needs induction over data.
  `Lined` puts the stream (`wire`, then `output`), the messages of the queued functors and the message in the sender's
  call in one line (`InLine`): within each piece the sender's numbers rise, each piece precedes all later ones, none exceeds
  `sent`, and every number up to `sent` is in some piece. The lemmas `LineRun`, `LinePush`, `LineWrite` and `LineAccept` say how
  running a functor, queueing one, writing past the queue and accepting a message move the line on. Two facts make it inductive (`Cargo`):
  only `sendInLoop` functors carry bytes, and those are of other threads (`Carried`), so that a direct write on the loop thread overtakes
  nothing of its own sender; and a batch is run to its end (`BatchRun`), so that the swap finds none left and
  batch and queue form one FIFO (`Queue`). `SendWrites` and `HandleWrites` reduce the two handlers to what they do to the stream: unless
  a write fails, `sendInLoop` puts the message behind it and `handleWrite` leaves it as it is. For `FlowControl` they also say which notice
  goes with the new buffer (`Fits`); `WarnedTaken` and `Put` follow the last notice through the queue to the callback.
  `LoopSentBeforeShutdownHolds` is the positive side of finding 4: what was sent on the loop thread never waits in the queue, so it
  is on the wire when the sending side is closed, whoever called `shutdown()`.

Every invariant and every action property that a passing run checks is a theorem, and so is each refinement. Model-checked only are the
liveness properties (`QueuedIsServed`, `QuitStopsLoop`, `BatchEnds`, `ReadyIsServed`, `BacklogDrains`, `ShutdownCompletes`,
`CloseIsServed`, `StartReturns`, `JoinEnds`, `AcceptResumes`, `DestructorFreesAll`), since the prover handles neither fairness nor `ENABLED`.

## 5. Not modelled, and why

* Lifetime of the message that `send` binds into a functor: it is the caller's.
* `TcpServer::start` on another thread than the base loop's.
* A `TcpServer` destroyed inside its running base loop: no program here does it, and pending
  removals would run on the destroyed object.
* In `Poller`, an owner that changes a channel's interest after `remove`, or destroys a channel that is registered: what a late send
  does (section 3) is in `TcpServer` only.
* In `EventLoop`, calls on the loop's own thread before `loop()` (section 3).
* `EPOLLPRI` in `handelEventWithGuard`.
* A `sendInLoop` that is queued after `connectDestoryed` was: `QueuedSendIsSafe` excludes it, and it can
  run on a freed connection.
* `InetAddress`, `Timestamp`, `CurrentThread`, `Logger`, `DefaultPoller`, socket options:
  wrappers, conversions and start-up choices without behaviour of their own.
* `spdlog` and `fmt`: vendored logging headers, in three copies, which are nearly all of the lines under `src/`
  (some 70000 of 73000). The library's own code is about 2750 lines. Nothing it does depends on
  what is logged.
* The manual test programs, and `muduo_use`, which uses the original library.

## 6. Plan

Done, in this order: `EventLoop` (everything else relies on its queue), `Poller`, `Buffer`,
`TcpConnection`, `EventLoopThread`, `EventLoopThreadPool`, `TcpServer`, all with proofs. Next:

1. `TcpServer::start` called from another thread: `listen` is queued in the base loop then, and `started_` is set by
   the caller.
2. The connection of `TcpConnection` shown to implement the one that `TcpServer` uses, with `again` for an `index` that a late
   send has made `added` after `connectDestoryed`.
