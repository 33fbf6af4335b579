------------------------------- MODULE Poller -------------------------------
(***************************************************************************)
(* Channel, Poller and EpollPoller: the registration of one loop's         *)
(* channels in its epoll instance (src/src/Channel.cpp, EpollPoller.cpp).  *)
(* Everything runs on the loop thread, in one of two phases: "handle"      *)
(* dispatches the active channels of one epoll_wait, "functors" runs the   *)
(* queued functors.                                                        *)
(*                                                                         *)
(* Owners (TcpConnection, Acceptor, EventLoop) are the environment: they   *)
(* construct a channel on a file descriptor of theirs, change its          *)
(* interest, remove it once, then destroy it and close the descriptor.     *)
(***************************************************************************)
EXTENDS Integers, FiniteSets

CONSTANTS Channel, NoChannel,
          Fd, NoFd,
          InitEventListSize     \* kInitEventListSize, 16 in the code

ASSUME NoChannelAssumption == NoChannel \notin Channel
ASSUME NoFdAssumption == NoFd \notin Fd
ASSUME EventListAssumption == InitEventListSize \in Nat \ {0}

VARIABLES
  phase,
  use,          \* what the owner has done with the channel object
  m_fd,
  m_events,     \* Channel: the interest
  m_index,      \* Channel: kNew, kAdded or kDeleted
  m_channels,   \* Poller: descriptor -> channel
  epollPtr,     \* kernel: data.ptr of the descriptor in the interest list
  epollEvents,  \* kernel: events of the descriptor
  ready,        \* kernel: descriptors of which epoll has something to report
  active,       \* m_activeChannels not yet dispatched
  listSize,     \* EpollPoller: m_events.size()
  ctl           \* the worst outcome of epoll_ctl so far; "fatal" aborts

channelVars == <<use, m_fd>>
pollerVars == <<m_events, m_index, m_channels, epollPtr, epollEvents, ctl>>
pollVars == <<phase, active, listSize, ready>>
vars == <<channelVars, pollerVars, pollVars>>

kReadEvent == {"read"}
kWriteEvent == {"write"}
kNoneEvent == {}
Interest == SUBSET (kReadEvent \cup kWriteEvent)

TypeOK ==
  /\ phase \in {"handle", "functors"}
  /\ use \in [Channel -> {"none", "used", "removed"}]
  /\ m_fd \in [Channel -> Fd \cup {NoFd}]
  /\ m_events \in [Channel -> Interest]
  /\ m_index \in [Channel -> {"new", "added", "deleted"}]
  /\ m_channels \in [Fd -> Channel \cup {NoChannel}]
  /\ epollPtr \in [Fd -> Channel \cup {NoChannel}]
  /\ epollEvents \in [Fd -> Interest]
  /\ active \subseteq Channel
  /\ listSize \in Nat \ {0}
  /\ ready \subseteq Fd
  /\ ctl \in {"ok", "error", "fatal"}

Init ==
  /\ phase = "functors"
  /\ use = [c \in Channel |-> "none"]
  /\ m_fd = [c \in Channel |-> NoFd]
  /\ m_events = [c \in Channel |-> kNoneEvent]
  /\ m_index = [c \in Channel |-> "new"]
  /\ m_channels = [f \in Fd |-> NoChannel]
  /\ epollPtr = [f \in Fd |-> NoChannel]
  /\ epollEvents = [f \in Fd |-> kNoneEvent]
  /\ active = {}
  /\ listSize = InitEventListSize
  /\ ready = {}
  /\ ctl = "ok"
-----------------------------------------------------------------------------
\* EpollPoller::update.  epoll_ctl refuses to add a present descriptor and to
\* change or delete an absent one: an error for DEL, LOG_FATAL for ADD and MOD.
update(op, c, events) ==
  LET f == m_fd[c]
      present == epollPtr[f] # NoChannel
  IN  \/ /\ (op = "ADD") = present
         /\ ctl' = IF op = "DEL" THEN "error" ELSE "fatal"
         /\ UNCHANGED <<epollPtr, epollEvents>>
      \/ /\ (op = "ADD") # present
         /\ epollPtr' = [epollPtr EXCEPT ![f] = IF op = "DEL" THEN NoChannel ELSE c]
         /\ epollEvents' = [epollEvents EXCEPT ![f] = events]
         /\ UNCHANGED ctl

\* Defect: a descriptor once in m_channels is taken to be in the interest list.
updateChannelNoDeleted(c, events) ==
  LET op == IF m_index[c] = "new" THEN "ADD" ELSE IF events = kNoneEvent THEN "DEL" ELSE "MOD"
  IN  /\ m_events' = [m_events EXCEPT ![c] = events]
      /\ update(op, c, events)
      /\ m_channels' = [m_channels EXCEPT ![m_fd[c]] = c]
      /\ m_index' = [m_index EXCEPT ![c] = IF op = "DEL" THEN "deleted" ELSE "added"]

updateChannel(c, events) ==
  /\ m_events' = [m_events EXCEPT ![c] = events]
  /\ \/ /\ m_index[c] # "added"
        /\ m_channels' = IF m_index[c] = "new" THEN [m_channels EXCEPT ![m_fd[c]] = c]
                                               ELSE m_channels
        /\ m_index' = [m_index EXCEPT ![c] = "added"]
        /\ update("ADD", c, events)
     \/ /\ m_index[c] = "added"
        /\ events = kNoneEvent
        /\ m_index' = [m_index EXCEPT ![c] = "deleted"]
        /\ update("DEL", c, events)
        /\ UNCHANGED m_channels
     \/ /\ m_index[c] = "added"
        /\ events # kNoneEvent /\ update("MOD", c, events)
        /\ UNCHANGED <<m_channels, m_index>>

\* Calls of a channel's owner; after LOG_FATAL there is no program left.
OwnerCall(c) == use[c] = "used" /\ ctl # "fatal"

SetInterest(c, events) == /\ OwnerCall(c)
                          /\ updateChannel(c, events)
                          /\ UNCHANGED <<channelVars, pollVars>>

enableReading(c)  == SetInterest(c, m_events[c] \cup kReadEvent)
disableReading(c) == SetInterest(c, m_events[c] \ kReadEvent)
enableWriting(c)  == SetInterest(c, m_events[c] \cup kWriteEvent)
disableWriting(c) == SetInterest(c, m_events[c] \ kWriteEvent)
disableAll(c)     == SetInterest(c, kNoneEvent)

\* EpollPoller::removeChannel on the loop thread.
removeChannel(c) ==
  /\ OwnerCall(c)
  /\ use' = [use EXCEPT ![c] = "removed"]
  /\ m_channels' = [m_channels EXCEPT ![m_fd[c]] = NoChannel]
  /\ IF m_index[c] = "added" THEN update("DEL", c, kNoneEvent)
                             ELSE UNCHANGED <<epollPtr, epollEvents, ctl>>
  /\ m_index' = [m_index EXCEPT ![c] = "new"]
  /\ UNCHANGED <<m_fd, m_events, pollVars>>

\* Defect: a connection is torn down inside the callback that closes it
\* (runInLoop instead of queueInLoop).
removeAtOnce(c) == removeChannel(c)

\* Defect: the descriptor is deleted whatever the index says.
removeAlwaysDel(c) ==
  /\ phase = "functors" /\ OwnerCall(c)
  /\ use' = [use EXCEPT ![c] = "removed"]
  /\ m_channels' = [m_channels EXCEPT ![m_fd[c]] = NoChannel]
  /\ update("DEL", c, kNoneEvent)
  /\ m_index' = [m_index EXCEPT ![c] = "new"]
  /\ UNCHANGED <<m_fd, m_events, pollVars>>

\* Channels are removed by functors only: TcpServer always queues connectDestoryed,
\* and the Acceptor's and the wakeup channel go when their loop is not dispatching.
remove(c) == phase = "functors" /\ removeChannel(c)

\* The owner constructs the channel on a descriptor that is not open yet.
Construct(c, f) ==
  /\ use[c] = "none"
  /\ \A d \in Channel : m_fd[d] # f
  /\ use' = [use EXCEPT ![c] = "used"]
  /\ m_fd' = [m_fd EXCEPT ![c] = f]
  /\ m_events' = [m_events EXCEPT ![c] = kNoneEvent]
  /\ m_index' = [m_index EXCEPT ![c] = "new"]
  /\ UNCHANGED <<m_channels, epollPtr, epollEvents, ctl, pollVars>>

\* The last owner of a channel that is removed, or was never registered, goes away:
\* the descriptor is closed, and the kernel drops it from every interest list.
Destroy(c) ==
  /\ use[c] # "none"
  /\ m_index[c] = "new"
  /\ use' = [use EXCEPT ![c] = "none"]
  /\ m_fd' = [m_fd EXCEPT ![c] = NoFd]
  /\ epollPtr' = [epollPtr EXCEPT ![m_fd[c]] = NoChannel]
  /\ epollEvents' = [epollEvents EXCEPT ![m_fd[c]] = kNoneEvent]
  /\ m_events' = [m_events EXCEPT ![c] = kNoneEvent]
  /\ ready' = ready \ {m_fd[c]}
  /\ UNCHANGED <<m_index, m_channels, ctl, phase, active, listSize>>
-----------------------------------------------------------------------------
\* What epoll could report, external: input, room and errors come to a descriptor and
\* are taken from it at any time.
reports == {epollPtr[f] : f \in ready} \ {NoChannel}

stir(f) == /\ \E c \in Channel : m_fd[c] = f
           /\ ready' \in {ready \cup {f}, ready \ {f}}
           /\ UNCHANGED <<channelVars, pollerVars, phase, active, listSize>>

\* Defect: fillActiveChannels reads past numEvents, where data.ptr is null.
fillPastEnd == active' \in SUBSET (reports \cup {NoChannel})

\* epoll_wait fills the event list as far as there are reports; which of them it takes
\* is the kernel's choice.
fillActiveChannels ==
  /\ active' \in SUBSET reports
  /\ \/ active' = reports /\ Cardinality(reports) <= listSize
     \/ Cardinality(active') = listSize

\* Defect: the event list keeps its size.
resizeNever == UNCHANGED listSize

\* A full event list is doubled.
resize == listSize' = IF Cardinality(active') = listSize THEN 2 * listSize ELSE listSize

\* EpollPoller::poll.
poll == /\ phase = "functors" /\ ctl # "fatal" /\ fillActiveChannels /\ resize
        /\ phase' = "handle"
        /\ UNCHANGED <<channelVars, pollerVars, ready>>

\* EventLoop::loop hands the next active channel its events; the calls its
\* callbacks make are the owner calls above.
handleEvent(c) == /\ phase = "handle" /\ c \in active
                  /\ active' = active \ {c}
                  /\ UNCHANGED <<phase, listSize, ready, channelVars, pollerVars>>

endHandle == /\ phase = "handle" /\ active = {}
             /\ phase' = "functors"
             /\ UNCHANGED <<active, listSize, ready, channelVars, pollerVars>>

ChannelCall(c) == \/ enableReading(c) \/ disableReading(c)
                  \/ enableWriting(c) \/ disableWriting(c)
                  \/ disableAll(c) \/ remove(c)

Next == \/ \E c \in Channel : ChannelCall(c) \/ Destroy(c) \/ handleEvent(c)
        \/ \E c \in Channel, f \in Fd : Construct(c, f)
        \/ \E f \in Fd : stir(f)
        \/ poll
        \/ endHandle

Spec == Init /\ [][Next]_vars

\* The loop goes round: callbacks return, and so do the functors between two polls
\* (BatchEnds of EventLoop).  Nothing is asked of the owners or of the kernel's choice.
FairSpec == Spec /\ WF_vars(poll \/ endHandle \/ \E c \in Channel : handleEvent(c))
-----------------------------------------------------------------------------
Live(c) == use[c] # "none"

hasChannel(c) == m_channels[m_fd[c]] = c

\* m_index, m_channels and the kernel's interest list tell the same story about
\* every channel, through closing and reuse of descriptors: kAdded is registered
\* with the channel's own pointer and present interest, kDeleted is only known to
\* m_channels, kNew to neither (updateChannel, removeChannel).
RegistrationAgrees ==
  \A c \in Channel : Live(c) =>
    /\ m_index[c] # "new" <=> hasChannel(c)
    /\ m_index[c] = "added" <=> epollPtr[m_fd[c]] = c
    /\ m_index[c] = "added" => epollEvents[m_fd[c]] = m_events[c]

\* No sequence of owner calls makes epoll_ctl fail: no LOG_ERROR for DEL, no
\* aborting LOG_FATAL for ADD or MOD (EpollPoller::update).
CtlNeverFails == ctl = "ok"

\* Who may be known where: an open channel has a descriptor of its own; m_channels
\* and the kernel point to channels in use, registered for that descriptor; what
\* waits to be dispatched has been registered (the inductive part of the above).
Ownership ==
  /\ \A c \in Channel : m_fd[c] = NoFd <=> use[c] = "none"
  /\ \A c, d \in Channel : m_fd[c] = m_fd[d] /\ m_fd[c] # NoFd => c = d
  /\ \A c \in Channel : use[c] # "used" => m_index[c] = "new"
  /\ \A f \in Fd : m_channels[f] # NoChannel =>
       m_fd[m_channels[f]] = f /\ m_index[m_channels[f]] # "new"
  /\ \A f \in Fd : epollPtr[f] # NoChannel =>
       m_fd[epollPtr[f]] = f /\ m_index[epollPtr[f]] = "added"
  /\ \A c \in active : m_index[c] # "new"
  /\ phase = "functors" => active = {}

\* A channel waiting to be dispatched is neither removed nor destroyed by the
\* callbacks of the channels dispatched before it, and the kernel never keeps a
\* pointer to a dead one (EventLoop::loop dereferences both).
NoStaleDispatch ==
  /\ \A c \in active : use[c] = "used"
  /\ \A f \in Fd : epollPtr[f] # NoChannel => use[epollPtr[f]] = "used"

\* A channel of which epoll has something to report gets its turn, however many others
\* are ready all the time and whichever the kernel prefers: a list that is too short
\* grows until no ready channel is left out (poll, fillActiveChannels).
ReadyIsServed == \A c \in Channel : (c \in reports) ~> (c \in active \/ c \notin reports)
=============================================================================
