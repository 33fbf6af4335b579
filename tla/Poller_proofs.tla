--------------------------- MODULE Poller_proofs ---------------------------
(***************************************************************************)
(* Proofs about Poller for every set of channels and descriptors.          *)
(***************************************************************************)
EXTENDS Poller, TLAPS

\* The conjunction that every step of the loop keeps.
IInv == TypeOK /\ Ownership /\ RegistrationAgrees /\ CtlNeverFails

\* A channel in use has a descriptor.
LEMMA UsedHasFd ==
  ASSUME TypeOK, Ownership, NEW c \in Channel, use[c] # "none"
  PROVE  m_fd[c] \in Fd
BY NoFdAssumption DEF TypeOK, Ownership

\* The epoll_ctl of a channel's owner succeeds: the index tells what the kernel
\* knows of the descriptor, so ADD meets an absent one and MOD, DEL a present one.
LEMMA CtlSucceeds ==
  ASSUME IInv, NEW c \in Channel, use[c] = "used", NEW op, NEW events,
         (op = "ADD") <=> m_index[c] # "added",
         update(op, c, events)
  PROVE  /\ epollPtr' = [epollPtr EXCEPT ![m_fd[c]] = IF op = "DEL" THEN NoChannel ELSE c]
         /\ epollEvents' = [epollEvents EXCEPT ![m_fd[c]] = events]
         /\ ctl' = ctl
<1>1. m_fd[c] \in Fd
  BY UsedHasFd DEF IInv
<1>2. epollPtr[m_fd[c]] # NoChannel <=> m_index[c] = "added"
  <2>1. CASE m_index[c] = "added"
    BY <2>1, NoChannelAssumption DEF IInv, RegistrationAgrees, Live
  <2>2. CASE m_index[c] # "added"
    <3> SUFFICES ASSUME epollPtr[m_fd[c]] # NoChannel
                 PROVE  FALSE
      BY <2>2
    <3>1. epollPtr[m_fd[c]] \in Channel
      BY <1>1 DEF IInv, TypeOK
    <3>2. /\ m_fd[epollPtr[m_fd[c]]] = m_fd[c]
          /\ m_index[epollPtr[m_fd[c]]] = "added"
      BY <1>1 DEF IInv, Ownership
    <3>3. epollPtr[m_fd[c]] = c
      BY <1>1, <3>1, <3>2, NoFdAssumption DEF IInv, Ownership
    <3>. QED  BY <2>2, <3>2, <3>3
  <2>. QED  BY <2>1, <2>2
<1>. QED  BY <1>2 DEF update

\* What updateChannel does to the registration (updateChannel, update).
LEMMA UpdateEffect ==
  ASSUME IInv, NEW c \in Channel, use[c] = "used", NEW events \in Interest,
         updateChannel(c, events)
  PROVE  \E idx \in {"added", "deleted"} :
           /\ m_index' = [m_index EXCEPT ![c] = idx]
           /\ m_events' = [m_events EXCEPT ![c] = events]
           /\ m_channels' = [m_channels EXCEPT ![m_fd[c]] = c]
           /\ epollPtr' = [epollPtr EXCEPT ![m_fd[c]] = IF idx = "added" THEN c ELSE NoChannel]
           /\ epollEvents' = [epollEvents EXCEPT ![m_fd[c]] = events]
           /\ ctl' = ctl
<1> USE DEF updateChannel
<1>1. m_fd[c] \in Fd /\ m_index[c] \in {"new", "added", "deleted"}
  BY UsedHasFd DEF IInv, TypeOK
<1>2. m_index[c] # "new" => m_channels = [m_channels EXCEPT ![m_fd[c]] = c]
  BY <1>1 DEF IInv, TypeOK, RegistrationAgrees, Live, hasChannel
<1>3. CASE m_index[c] # "added"
  <2>1. update("ADD", c, events) /\ m_index' = [m_index EXCEPT ![c] = "added"]
    BY <1>3
  <2>2. /\ epollPtr' = [epollPtr EXCEPT ![m_fd[c]] = c]
        /\ epollEvents' = [epollEvents EXCEPT ![m_fd[c]] = events]
        /\ ctl' = ctl
    BY <1>3, <2>1, CtlSucceeds, SMT
  <2>3. m_channels' = [m_channels EXCEPT ![m_fd[c]] = c]
    BY <1>2, <1>3
  <2>. QED  BY <2>1, <2>2, <2>3
<1>4. CASE m_index[c] = "added" /\ events = kNoneEvent
  <2>1. update("DEL", c, events) /\ m_index' = [m_index EXCEPT ![c] = "deleted"]
    BY <1>4
  <2>2. /\ epollPtr' = [epollPtr EXCEPT ![m_fd[c]] = NoChannel]
        /\ epollEvents' = [epollEvents EXCEPT ![m_fd[c]] = events]
        /\ ctl' = ctl
    BY <1>4, <2>1, CtlSucceeds
  <2>3. m_channels' = [m_channels EXCEPT ![m_fd[c]] = c]
    BY <1>2, <1>4
  <2>. QED  BY <2>1, <2>2, <2>3
<1>5. CASE m_index[c] = "added" /\ events # kNoneEvent
  <2>1. update("MOD", c, events) /\ m_index' = [m_index EXCEPT ![c] = "added"]
    BY <1>5 DEF IInv, TypeOK
  <2>2. /\ epollPtr' = [epollPtr EXCEPT ![m_fd[c]] = c]
        /\ epollEvents' = [epollEvents EXCEPT ![m_fd[c]] = events]
        /\ ctl' = ctl
    BY <1>5, <2>1, CtlSucceeds, SMT
  <2>3. m_channels' = [m_channels EXCEPT ![m_fd[c]] = c]
    BY <1>2, <1>5
  <2>. QED  BY <2>1, <2>2, <2>3
<1>. QED  BY <1>3, <1>4, <1>5

\* A change of interest keeps the invariant (enableReading .. disableAll).
LEMMA InterestStep ==
  ASSUME IInv, NEW c \in Channel, NEW events \in Interest, SetInterest(c, events)
  PROVE  IInv'
<1>1. use[c] = "used" /\ updateChannel(c, events)
  BY DEF SetInterest, OwnerCall
<1>2. PICK idx \in {"added", "deleted"} :
           /\ m_index' = [m_index EXCEPT ![c] = idx]
           /\ m_events' = [m_events EXCEPT ![c] = events]
           /\ m_channels' = [m_channels EXCEPT ![m_fd[c]] = c]
           /\ epollPtr' = [epollPtr EXCEPT ![m_fd[c]] = IF idx = "added" THEN c ELSE NoChannel]
           /\ epollEvents' = [epollEvents EXCEPT ![m_fd[c]] = events]
           /\ ctl' = ctl
  BY <1>1, UpdateEffect
<1>3. UNCHANGED <<use, m_fd, phase, active, listSize, ready>>
  BY DEF SetInterest, channelVars, pollVars
<1>4. m_fd[c] \in Fd
  BY <1>1, UsedHasFd DEF IInv
<1>5. TypeOK'
  BY <1>2, <1>3, <1>4 DEF IInv, TypeOK
<1>6. Ownership'
  BY <1>1, <1>2, <1>3, <1>4, NoChannelAssumption DEF IInv, TypeOK, Ownership
<1>7. RegistrationAgrees'
  BY <1>2, <1>3, <1>4, NoChannelAssumption
  DEF IInv, TypeOK, Ownership, RegistrationAgrees, Live, hasChannel
<1>8. CtlNeverFails'
  BY <1>2 DEF IInv, CtlNeverFails
<1>. QED  BY <1>5, <1>6, <1>7, <1>8 DEF IInv

\* So does removing a channel: nothing of it stays behind (removeChannel).
LEMMA RemoveStep ==
  ASSUME IInv, NEW c \in Channel, remove(c)
  PROVE  IInv'
<1>1. /\ use[c] = "used" /\ phase = "functors" /\ active = {}
      /\ use' = [use EXCEPT ![c] = "removed"]
      /\ m_channels' = [m_channels EXCEPT ![m_fd[c]] = NoChannel]
      /\ m_index' = [m_index EXCEPT ![c] = "new"]
      /\ UNCHANGED <<m_fd, m_events, phase, active, listSize, ready>>
  BY DEF remove, removeChannel, OwnerCall, pollVars, IInv, Ownership
<1>2. m_fd[c] \in Fd
  BY <1>1, UsedHasFd DEF IInv
<1>3. /\ epollPtr' = [epollPtr EXCEPT ![m_fd[c]] = NoChannel]
      /\ \/ epollEvents' = [epollEvents EXCEPT ![m_fd[c]] = kNoneEvent]
         \/ epollEvents' = epollEvents
      /\ ctl' = ctl
  <2>1. CASE m_index[c] = "added"
    <3>1. update("DEL", c, kNoneEvent)
      BY <2>1 DEF remove, removeChannel
    <3>. QED  BY <1>1, <2>1, <3>1, CtlSucceeds
  <2>2. CASE m_index[c] # "added"
    <3>1. UNCHANGED <<epollPtr, epollEvents, ctl>>
      BY <2>2 DEF remove, removeChannel
    <3>2. epollPtr[m_fd[c]] = NoChannel
      BY <1>1, <1>2, <2>2, NoFdAssumption DEF IInv, TypeOK, Ownership
    <3>. QED  BY <1>2, <3>1, <3>2 DEF IInv, TypeOK
  <2>. QED  BY <2>1, <2>2
<1>4. TypeOK'
  BY <1>1, <1>2, <1>3 DEF IInv, TypeOK, Interest, kNoneEvent
<1>5. Ownership'
  BY <1>1, <1>2, <1>3 DEF IInv, TypeOK, Ownership
<1>6. RegistrationAgrees'
  BY <1>1, <1>2, <1>3, NoChannelAssumption
  DEF IInv, TypeOK, Ownership, RegistrationAgrees, Live, hasChannel
<1>7. CtlNeverFails'
  BY <1>3 DEF IInv, CtlNeverFails
<1>. QED  BY <1>4, <1>5, <1>6, <1>7 DEF IInv

\* A descriptor may be reused as soon as it is closed (the constructor of Channel).
LEMMA ConstructStep ==
  ASSUME IInv, NEW c \in Channel, NEW f \in Fd, Construct(c, f)
  PROVE  IInv'
<1>1. /\ use[c] = "none" /\ m_index[c] = "new"
      /\ \A d \in Channel : m_fd[d] # f
      /\ use' = [use EXCEPT ![c] = "used"]
      /\ m_fd' = [m_fd EXCEPT ![c] = f]
      /\ m_events' = [m_events EXCEPT ![c] = kNoneEvent]
      /\ m_index' = [m_index EXCEPT ![c] = "new"]
      /\ UNCHANGED <<m_channels, epollPtr, epollEvents, ctl, phase, active, listSize, ready>>
  BY DEF Construct, pollVars, IInv, Ownership
<1>2. TypeOK'
  BY <1>1 DEF IInv, TypeOK, Interest, kNoneEvent
<1>3. m_channels[f] = NoChannel /\ epollPtr[f] = NoChannel
  BY <1>1 DEF IInv, TypeOK, Ownership
<1>4. Ownership'
  BY <1>1, NoFdAssumption DEF IInv, TypeOK, Ownership
<1>5. RegistrationAgrees'
  BY <1>1, <1>3, NoChannelAssumption
  DEF IInv, TypeOK, Ownership, RegistrationAgrees, Live, hasChannel
<1>6. CtlNeverFails'
  BY <1>1 DEF IInv, CtlNeverFails
<1>. QED  BY <1>2, <1>4, <1>5, <1>6 DEF IInv

\* Closing the descriptor of a channel that is not registered takes nothing away
\* from the others (~Channel, ~Socket).
LEMMA DestroyStep ==
  ASSUME IInv, NEW c \in Channel, Destroy(c)
  PROVE  IInv'
<1>1. /\ use[c] # "none" /\ m_index[c] = "new"
      /\ use' = [use EXCEPT ![c] = "none"]
      /\ m_fd' = [m_fd EXCEPT ![c] = NoFd]
      /\ epollPtr' = [epollPtr EXCEPT ![m_fd[c]] = NoChannel]
      /\ epollEvents' = [epollEvents EXCEPT ![m_fd[c]] = kNoneEvent]
      /\ m_events' = [m_events EXCEPT ![c] = kNoneEvent]
      /\ ready' = ready \ {m_fd[c]}
      /\ UNCHANGED <<m_index, m_channels, ctl, phase, active, listSize>>
  BY DEF Destroy
<1>2. m_fd[c] \in Fd
  BY <1>1, UsedHasFd DEF IInv
<1>3. TypeOK'
  BY <1>1, <1>2 DEF IInv, TypeOK, Interest, kNoneEvent
<1>4. Ownership'
  BY <1>1, <1>2, NoFdAssumption DEF IInv, TypeOK, Ownership
<1>5. RegistrationAgrees'
  BY <1>1, <1>2, NoChannelAssumption
  DEF IInv, TypeOK, Ownership, RegistrationAgrees, Live, hasChannel
<1>6. CtlNeverFails'
  BY <1>1 DEF IInv, CtlNeverFails
<1>. QED  BY <1>3, <1>4, <1>5, <1>6 DEF IInv

\* Only registered channels are reported, and only once (poll, loop).
LEMMA PollStep ==
  ASSUME IInv,
         poll \/ endHandle \/ (\E c \in Channel : handleEvent(c)) \/ (\E f \in Fd : stir(f))
  PROVE  IInv'
<1>1. UNCHANGED <<use, m_fd, m_events, m_index, m_channels, epollPtr, epollEvents, ctl>>
  BY DEF poll, endHandle, handleEvent, stir, channelVars, pollerVars
<1>2. RegistrationAgrees' /\ CtlNeverFails'
  BY <1>1 DEF IInv, RegistrationAgrees, CtlNeverFails, Live, hasChannel
<1>3. TypeOK' /\ Ownership'
  <2>1. CASE poll
    <3>1. \A c \in active' : \E f \in Fd : epollPtr[f] = c /\ c # NoChannel
      BY <2>1 DEF poll, fillActiveChannels, reports, IInv, TypeOK
    <3>2. active' \subseteq Channel /\ \A c \in active' : m_index[c] = "added"
      BY <3>1 DEF IInv, TypeOK, Ownership
    <3>3. listSize' \in Nat \ {0} /\ phase' = "handle" /\ ready' = ready
      BY <2>1 DEF poll, resize, IInv, TypeOK
    <3>. QED  BY <1>1, <3>2, <3>3 DEF IInv, TypeOK, Ownership
  <2>2. CASE endHandle
    BY <1>1, <2>2 DEF endHandle, IInv, TypeOK, Ownership
  <2>3. ASSUME NEW c \in Channel, handleEvent(c)
        PROVE  TypeOK' /\ Ownership'
    BY <1>1, <2>3 DEF handleEvent, IInv, TypeOK, Ownership
  <2>4. ASSUME NEW f \in Fd, stir(f)
        PROVE  TypeOK' /\ Ownership'
    BY <1>1, <2>4 DEF stir, IInv, TypeOK, Ownership
  <2>. QED  BY <2>1, <2>2, <2>3, <2>4
<1>. QED  BY <1>2, <1>3 DEF IInv
-----------------------------------------------------------------------------
\* The registration of every channel stays consistent, whatever its owner calls.
THEOREM Inductive == Spec => []IInv
<1>1. Init => IInv
  BY NoChannelAssumption, EventListAssumption
  DEF Init, IInv, TypeOK, Ownership, RegistrationAgrees, CtlNeverFails, Live, hasChannel,
      Interest, kNoneEvent
<1>2. IInv /\ [Next]_vars => IInv'
  <2> SUFFICES ASSUME IInv, [Next]_vars
               PROVE  IInv'
    OBVIOUS
  <2>1. ASSUME NEW c \in Channel, ChannelCall(c)
        PROVE  IInv'
    <3>1. m_events[c] \in Interest
      BY DEF IInv, TypeOK
    <3>2. CASE remove(c)
      BY <3>2, RemoveStep
    <3>3. CASE ~remove(c)
      <4>1. PICK events \in Interest : SetInterest(c, events)
        BY <2>1, <3>1, <3>3
        DEF ChannelCall, enableReading, disableReading, enableWriting, disableWriting,
            disableAll, Interest, kReadEvent, kWriteEvent, kNoneEvent
      <4>. QED  BY <4>1, InterestStep
    <3>. QED  BY <3>2, <3>3
  <2>2. ASSUME NEW c \in Channel, Destroy(c)
        PROVE  IInv'
    BY <2>2, DestroyStep
  <2>3. ASSUME NEW c \in Channel, NEW f \in Fd, Construct(c, f)
        PROVE  IInv'
    BY <2>3, ConstructStep
  <2>4. CASE poll \/ endHandle \/ (\E c \in Channel : handleEvent(c)) \/ (\E f \in Fd : stir(f))
    BY <2>4, PollStep
  <2>5. CASE UNCHANGED vars
    BY <2>5 DEF vars, channelVars, pollerVars, pollVars, IInv, TypeOK, Ownership,
                RegistrationAgrees, CtlNeverFails, Live, hasChannel
  <2>. QED  BY <2>1, <2>2, <2>3, <2>4, <2>5 DEF Next
<1>. QED  BY <1>1, <1>2, PTL DEF Spec

\* Every variable keeps its type.
THEOREM TypeCorrect == Spec => []TypeOK
BY Inductive, PTL DEF IInv

\* m_index, m_channels and the interest list agree for every set of channels.
THEOREM RegistrationHolds == Spec => []RegistrationAgrees
BY Inductive, PTL DEF IInv

\* epoll_ctl is never refused (EpollPoller::update).
THEOREM CtlNeverFailsHolds == Spec => []CtlNeverFails
BY Inductive, PTL DEF IInv

\* loop() never dereferences a channel that is gone (EventLoop::loop).
THEOREM NoStaleDispatchHolds == Spec => []NoStaleDispatch
<1>1. IInv => NoStaleDispatch
  <2> SUFFICES ASSUME IInv
               PROVE  NoStaleDispatch
    OBVIOUS
  <2>1. \A c \in active : use[c] = "used"
    BY DEF IInv, TypeOK, Ownership
  <2>2. ASSUME NEW f \in Fd, epollPtr[f] # NoChannel
        PROVE  use[epollPtr[f]] = "used"
    BY <2>2 DEF IInv, TypeOK, Ownership
  <2>. QED  BY <2>1, <2>2 DEF NoStaleDispatch
<1>. QED  BY <1>1, Inductive, PTL
=============================================================================
