------------------------ MODULE TcpConnection_proofs ------------------------
(***************************************************************************)
(* Proofs about TcpConnection for every number of threads and every bound. *)
(* What concerns an open connection holds whatever other threads and the   *)
(* server do; what concerns its end needs that shutdown() is called on the *)
(* loop thread, which is why ThreadsShutdown appears in the statements.    *)
(***************************************************************************)
EXTENDS TcpConnection, SequenceTheorems, TLAPS

\* The functors that queueInLoop adds are functors, and None and Checked are not.
LEMMA Functors ==
  /\ {Established, Destoryed, Shutdown, WriteComplete, HighWater} \subseteq Functor
  /\ \A msg \in Seq(Byte) : Send(msg) \in Functor
  /\ None \notin Functor /\ Checked \notin Functor /\ None # Checked
BY EmptySeq DEF Established, Destoryed, Shutdown, WriteComplete, HighWater, Send, None, Checked,
                Functor, FunctorKind

\* The bytes of a message that send accepts are bytes.
LEMMA MessageType ==
  ASSUME TypeOK, NEW s \in Sender, NEW len \in Lens, sent[s] + len <= MaxBytes
  PROVE  Message(s, len) \in Seq(Byte)
<1>1. len \in Nat /\ sent[s] \in 0 .. MaxBytes /\ MaxBytes \in Nat
  BY BoundAssumption DEF TypeOK
<1>2. \A i \in 1 .. len : [from |-> s, nr |-> sent[s] + i] \in Byte
  BY <1>1 DEF Byte
<1>. QED  BY <1>1, <1>2 DEF Message

\* How much write takes, and that it is what does not stay in rest (sendInLoop,
\* handleWrite): the send buffer is not overrun.
LEMMA WrittenPart ==
  ASSUME NEW w \in Seq(Byte), NEW g \in 0 .. Len(w), NEW bytes \in Seq(Byte),
         NEW room \in Nat, NEW n \in Int, n <= room, n <= Len(bytes)
  PROVE  /\ w \o SubSeq(bytes, 1, n) \in Seq(Byte)
         /\ g \in 0 .. Len(w \o SubSeq(bytes, 1, n))
         /\ Len(w \o SubSeq(bytes, 1, n)) - g <= Len(w) - g + room
<1>1. /\ SubSeq(bytes, 1, n) \in Seq(Byte)
      /\ Len(SubSeq(bytes, 1, n)) = IF 1 <= n THEN n ELSE 0
  <2>1. \A i \in 1 .. n : bytes[i] \in Byte
    BY LenProperties, ElementOfSeq
  <2>. QED  BY <2>1, SubSeqProperties
<1>. QED  BY <1>1, ConcatProperties, LenProperties

\* What stays when room bytes of a message are taken.
LEMMA KeptPart ==
  ASSUME NEW bytes \in Seq(Byte), NEW room \in Nat
  PROVE  /\ SubSeq(bytes, room + 1, Len(bytes)) \in Seq(Byte)
         /\ Len(bytes) - Len(SubSeq(bytes, room + 1, Len(bytes))) <= room
         /\ Len(bytes) - Len(SubSeq(bytes, room + 1, Len(bytes))) \in 0 .. Len(bytes)
<1>1. Len(bytes) \in Nat
  BY LenProperties
<1>2. \A i \in room + 1 .. Len(bytes) : bytes[i] \in Byte
  BY <1>1, ElementOfSeq
<1>. QED  BY <1>1, <1>2, SubSeqProperties
-----------------------------------------------------------------------------
\* A registration that asks for something, or that was there, stays one.
LEMMA SetEventsKeeps ==
  ASSUME TypeOK, NEW interest \in SUBSET {"read", "write"}, SetEvents(interest)
  PROVE  /\ events' = interest /\ index' \in {"new", "added", "deleted"}
         /\ interest # {} => index' = "added"
         /\ index = "added" /\ interest = {} => index' = "deleted"
BY DEF SetEvents, TypeOK

\* Interest in EPOLLOUT goes with what waits in the output buffer.
Backlog == downs = 0 => (isWriting <=> output # << >>)

\* What sendInLoop and handleWrite do to the socket and the buffer when they write
\* out of bytes and keep rest.
LEMMA RoomType == TypeOK => Room \in Nat
<1> SUFFICES ASSUME TypeOK PROVE Room \in Nat
  OBVIOUS
<1>1. wire \in Seq(Byte) /\ got \in 0 .. Len(wire) /\ Len(wire) - got <= SendBuf
  BY DEF TypeOK
<1>2. Len(wire) \in Nat /\ SendBuf \in Nat
  BY <1>1, LenProperties, BoundAssumption
<1>. QED  BY <1>1, <1>2 DEF Room

\* The parts of TypeOK that a write touches.
WriteTypes == /\ output \in Seq(Byte) /\ wire \in Seq(Byte)
              /\ got \in 0 .. Len(wire) /\ Len(wire) - got <= SendBuf
              /\ events \subseteq {"read", "write"} /\ index \in {"new", "added", "deleted"}
              /\ pending \in Seq(Functor) /\ failed \in BOOLEAN /\ soError \in BOOLEAN

\* What sendInLoop leaves of a message, and that it keeps all of it when older bytes
\* wait.
LEMMA RestKept ==
  ASSUME TypeOK, NEW msg \in Seq(Byte)
  PROVE  /\ sendRest(msg) \in Seq(Byte)
         /\ Len(msg) - Len(sendRest(msg)) \in Int
         /\ Len(msg) - Len(sendRest(msg)) <= Len(msg)
         /\ Len(msg) - Len(sendRest(msg)) <= Room
<1>1. Room \in Nat /\ Len(msg) \in Nat
  BY RoomType, LenProperties
<1>2. CASE isWriting \/ output # << >>
  BY <1>1, <1>2 DEF sendRest
<1>3. CASE ~(isWriting \/ output # << >>) /\ WriteFails
  <2>1. <<Junk>> \in Seq(Byte) /\ Len(<<Junk>>) = 1
    BY DEF Byte
  <2>. QED  BY <1>1, <1>3, <2>1, ConcatProperties DEF sendRest
<1>4. CASE ~(isWriting \/ output # << >>) /\ ~WriteFails
  <2>1. sendRest(msg) = SubSeq(msg, Room + 1, Len(msg))
    BY <1>4 DEF sendRest
  <2>2. /\ SubSeq(msg, Room + 1, Len(msg)) \in Seq(Byte)
        /\ Len(msg) - Len(SubSeq(msg, Room + 1, Len(msg))) <= Room
        /\ Len(msg) - Len(SubSeq(msg, Room + 1, Len(msg))) \in 0 .. Len(msg)
    BY <1>1, KeptPart
  <2>. QED  BY <1>1, <2>1, <2>2
<1>. QED  BY <1>2, <1>3, <1>4
\* What sendInLoop does when it writes: types, the interest that the backlog needs,
\* and that a socket shut down before does not take a byte unnoticed.
LEMMA WriteOrKeepKeeps ==
  ASSUME TypeOK, NEW msg \in Seq(Byte), writeOrKeep(msg), got' = got
  PROVE  /\ WriteTypes'
         /\ \E r \in {<< >>, <<WriteComplete>>, <<HighWater>>} : pending' = pending \o r
         /\ UNCHANGED channelVars \/ (events' = events \cup {"write"} /\ index' = "added")
         /\ (isWriting <=> output # << >>) => (isWriting <=> output # << >>)'
         /\ failed => failed'
         /\ (wrShut /\ ~isWriting /\ output = << >> /\ ~failed') => output' = << >>
<1> DEFINE rest == sendRest(msg)
           n == Len(msg) - Len(rest)
<1>1. /\ rest \in Seq(Byte) /\ n \in Int /\ n <= Len(msg) /\ n <= Room /\ Room \in Nat
      /\ wire \in Seq(Byte) /\ got \in 0 .. Len(wire) /\ output \in Seq(Byte)
      /\ pending \in Seq(Functor)
  BY RestKept, RoomType DEF TypeOK
<1>2. /\ wire' = wire \o SubSeq(msg, 1, n)
      /\ output' = output \o rest
      /\ failed' = (failed \/ (~isWriting /\ output = << >> /\ WriteFails))
      /\ soError' = (soError /\ ~(~isWriting /\ output = << >> /\ WriteFails))
      /\ ToBack(IF rest = << >> THEN <<WriteComplete>>
                ELSE IF crosses(rest) THEN <<HighWater>> ELSE << >>)
      /\ askToWrite(rest)
  BY DEF writeOrKeep
<1> HIDE DEF rest, n
<1>3. /\ wire' \in Seq(Byte) /\ got' \in 0 .. Len(wire') /\ Len(wire') - got' <= SendBuf
  <2>1. /\ wire' \in Seq(Byte) /\ got \in 0 .. Len(wire')
        /\ Len(wire') - got <= Len(wire) - got + Room
    BY <1>1, <1>2, WrittenPart
  <2>2. Len(wire) - got + Room = SendBuf
    BY <1>1, LenProperties, BoundAssumption DEF Room
  <2>. QED  BY <2>1, <2>2
<1>4. output' \in Seq(Byte) /\ (output' = << >> <=> output = << >> /\ rest = << >>)
  BY <1>1, <1>2, ConcatProperties, ConcatEqualIffEmpty
<1>5. /\ \E r \in {<< >>, <<WriteComplete>>, <<HighWater>>} : pending' = pending \o r
      /\ pending' \in Seq(Functor)
  <2>1. << >> \in Seq(Functor) /\ <<WriteComplete>> \in Seq(Functor) /\ <<HighWater>> \in Seq(Functor)
    BY Functors
  <2>. QED  BY <1>1, <1>2, <2>1, ConcatProperties DEF ToBack
<1>6. /\ events' \subseteq {"read", "write"} /\ index' \in {"new", "added", "deleted"}
      /\ UNCHANGED channelVars \/ (events' = events \cup {"write"} /\ index' = "added")
      /\ rest = << >> => UNCHANGED channelVars
      /\ rest # << >> => "write" \in events'
  <2>1. CASE rest # << >> /\ ~isWriting
    <3>1. events \cup {"write"} \in SUBSET {"read", "write"} /\ SetEvents(events \cup {"write"})
      BY <1>2, <2>1 DEF askToWrite, TypeOK
    <3>. QED  BY <2>1, <3>1, SetEventsKeeps
  <2>2. CASE ~(rest # << >> /\ ~isWriting)
    BY <1>2, <2>2 DEF askToWrite, TypeOK, channelVars, isWriting
  <2>. QED  BY <2>1, <2>2
<1>7. failed' \in BOOLEAN /\ soError' \in BOOLEAN /\ (failed => failed')
  BY <1>2 DEF TypeOK
<1>8. (isWriting <=> output # << >>) => (isWriting <=> output # << >>)'
  BY <1>4, <1>6 DEF isWriting, channelVars
<1>9. (wrShut /\ ~isWriting /\ output = << >>) => failed'
  BY <1>2 DEF WriteFails
<1>. QED  BY <1>3, <1>4, <1>5, <1>6, <1>7, <1>8, <1>9 DEF WriteTypes
\* sendInLoop does that, or nothing on a connection that is closed.
LEMMA SendInLoopKeeps ==
  ASSUME TypeOK, NEW msg \in Seq(Byte), sendInLoop(msg), got' = got
  PROVE  /\ WriteTypes'
         /\ \E r \in {<< >>, <<WriteComplete>>, <<HighWater>>} : pending' = pending \o r
         /\ UNCHANGED channelVars \/ (events' = events \cup {"write"} /\ index' = "added")
         /\ (isWriting <=> output # << >>) => (isWriting <=> output # << >>)'
         /\ failed => failed'
         /\ (wrShut /\ ~isWriting /\ output = << >>) => failed' \/ output' = << >>
         /\ m_state = "kDisconnected" => UNCHANGED <<channelVars, wire>>
<1>1. CASE m_state = "kDisconnected"
  <2>1. UNCHANGED <<channelVars, output, pending, wire, soError, failed>>
    BY <1>1 DEF sendInLoop
  <2>2. pending' = pending \o << >>
    BY <2>1, ConcatEmptySeq DEF TypeOK
  <2>. QED  BY <2>1, <2>2 DEF WriteTypes, TypeOK, channelVars, isWriting
<1>2. CASE m_state # "kDisconnected"
  <2>1. writeOrKeep(msg)
    BY <1>2 DEF sendInLoop
  <2>. QED  BY <1>2, <2>1, WriteOrKeepKeeps
<1>. QED  BY <1>1, <1>2

\* handleWrite: what is left stays asked for, and a half-close finds nothing left.
LEMMA HandleWriteKeeps ==
  ASSUME TypeOK, isWriting, handleWrite, got' = got
  PROVE  /\ WriteTypes' /\ wrShut' \in BOOLEAN
         /\ \E r \in {<< >>, <<WriteComplete>>, <<HighWater>>} : pending' = pending \o r
         /\ events' \subseteq events /\ ("read" \in events => "read" \in events')
         /\ index = "added" /\ "read" \in events => index' = "added"
         /\ isWriting' <=> output' # << >>
         /\ failed => failed'
         /\ wrShut' => wrShut \/ output' = << >>
<1> DEFINE left == IF WriteFails THEN << >> ELSE SubSeq(output, Room + 1, Len(output))
           n == Len(output) - Len(left)
<1>1. /\ output \in Seq(Byte) /\ Len(output) \in Nat /\ Room \in Nat
      /\ wire \in Seq(Byte) /\ got \in 0 .. Len(wire) /\ Len(wire) - got <= SendBuf
  BY RoomType, LenProperties DEF TypeOK
<1>2. /\ wire' = IF WriteFails THEN wire ELSE wire \o SubSeq(output, 1, n)
      /\ output' = left
      /\ failed' = (failed \/ WriteFails) /\ soError' = (soError /\ ~WriteFails)
      /\ IF left = << >>
           THEN SetEvents(events \ {"write"}) /\ ToBack(<<WriteComplete>>) /\ afterDrain
           ELSE UNCHANGED <<channelVars, pending, wrShut>>
  BY DEF handleWrite
<1>3. /\ output' \in Seq(Byte)
      /\ wire' \in Seq(Byte) /\ got' \in 0 .. Len(wire') /\ Len(wire') - got' <= SendBuf
  <2>1. CASE WriteFails
    BY <1>1, <1>2, <2>1, EmptySeq
  <2>2. CASE ~WriteFails
    <3>1. left = SubSeq(output, Room + 1, Len(output))
      BY <2>2
    <3>2. left \in Seq(Byte) /\ n <= Room /\ n \in 0 .. Len(output)
      BY <1>1, <3>1, KeptPart
    <3>3. wire' = wire \o SubSeq(output, 1, n)
      BY <1>2, <2>2
    <3> HIDE DEF left, n
    <3>4. /\ wire' \in Seq(Byte) /\ got \in 0 .. Len(wire')
          /\ Len(wire') - got <= Len(wire) - got + Room
      BY <1>1, <3>2, <3>3, WrittenPart
    <3>5. Len(wire) - got + Room = SendBuf
      BY <1>1, LenProperties, BoundAssumption DEF Room
    <3>. QED  BY <1>2, <3>2, <3>4, <3>5
  <2>. QED  BY <2>1, <2>2
<1> HIDE DEF left, n
<1>4. CASE left = << >>
  <2>1. events \ {"write"} \in SUBSET {"read", "write"} /\ SetEvents(events \ {"write"})
    BY <1>2, <1>4 DEF TypeOK
  <2>2. events' = events \ {"write"} /\ index' \in {"new", "added", "deleted"}
        /\ (events \ {"write"} # {} => index' = "added")
    BY <2>1, SetEventsKeeps
  <2>3. pending' = pending \o <<WriteComplete>> /\ pending' \in Seq(Functor)
    <3>1. <<WriteComplete>> \in Seq(Functor)
      BY Functors
    <3>2. pending \in Seq(Functor) /\ pending' = pending \o <<WriteComplete>>
      BY <1>2, <1>4 DEF ToBack, TypeOK
    <3>. QED  BY <3>1, <3>2, ConcatProperties
  <2>4. wrShut' \in BOOLEAN
    BY <1>2, <1>4 DEF afterDrain, shutdownInLoop, TypeOK
  <2>. QED  BY <1>2, <1>3, <1>4, <2>2, <2>3, <2>4 DEF WriteTypes, TypeOK, isWriting
<1>5. CASE left # << >>
  <2>1. UNCHANGED <<channelVars, pending, wrShut>>
    BY <1>2, <1>5
  <2>2. pending' = pending \o << >>
    BY <2>1, ConcatEmptySeq DEF TypeOK
  <2>. QED  BY <1>2, <1>3, <1>5, <2>1, <2>2 DEF WriteTypes, TypeOK, isWriting, channelVars
<1>. QED  BY <1>4, <1>5-----------------------------------------------------------------------------
\* An established connection that has not been taken down is registered and reads.
Opened == (m_state \in {"kConnected", "kDisconnecting"} /\ downs = 0 /\ destroys = 0) =>
            index = "added" /\ "read" \in events

\* kDisconnected comes with a down callback, and shutdown() is past its test only
\* after the connection was established.
Told == /\ m_state = "kDisconnected" => downs > 0
        /\ \A t \in Thread : calling[t] = Checked => m_state # "kConnecting"

OpenInv == TypeOK /\ Backlog /\ Opened /\ Told /\ ShutdownFlushes

\* A functor is taken from the batch or put behind the others.
LEMMA QueueTypes ==
  ASSUME TypeOK
  PROVE  /\ batch # << >> => Head(batch) \in Functor /\ Tail(batch) \in Seq(Functor)
         /\ \A f \in Functor : pending \o <<f>> \in Seq(Functor)
         /\ pending \o << >> \in Seq(Functor)
<1>1. pending \in Seq(Functor) /\ batch \in Seq(Functor) /\ << >> \in Seq(Functor)
  BY DEF TypeOK
<1>2. \A f \in Functor : <<f>> \in Seq(Functor)
  OBVIOUS
<1>. QED  BY <1>1, <1>2, ConcatProperties, HeadTailProperties

\* The initial state.
LEMMA OpenInit == Init => OpenInv
<1> SUFFICES ASSUME Init PROVE OpenInv
  OBVIOUS
<1>1. <<Established>> \in Seq(Functor) /\ << >> \in Seq(Functor) /\ << >> \in Seq(Byte) /\ Len(<< >>) = 0
  BY Functors, EmptySeq
<1>2. TypeOK
  <2>1. /\ calling \in [Thread -> Functor \cup {None, Checked}]
        /\ sent \in [Sender -> 0 .. MaxBytes]
    BY BoundAssumption DEF Init
  <2>2. server \in [alive : BOOLEAN, inMap : BOOLEAN, removals : Nat]
    BY DEF Init
  <2>3. /\ output \in Seq(Byte) /\ wire \in Seq(Byte) /\ got \in 0 .. Len(wire)
        /\ Len(wire) - got <= SendBuf /\ pending \in Seq(Functor) /\ batch \in Seq(Functor)
    BY <1>1, BoundAssumption DEF Init
  <2>4. inputs \in 0 .. MaxInput /\ rcv \in 0 .. inputs /\ downs \in Nat /\ destroys \in Nat
    BY BoundAssumption DEF Init
  <2>. QED  BY <2>1, <2>2, <2>3, <2>4 DEF Init, TypeOK, States
<1>3. None # Checked
  BY Functors
<1>. QED  BY <1>2, <1>3 DEF Init, OpenInv, Backlog, Opened, Told, ShutdownFlushes, isWriting

\* handleClose takes the connection down with all that it had registered.
LEMMA HandleCloseKeeps ==
  ASSUME TypeOK, NEW next, handleClose(next)
  PROVE  /\ m_state' = "kDisconnected" /\ events' = {} /\ index' \in {"new", "added", "deleted"}
         /\ index = "added" => index' = "deleted"
         /\ downs' = downs + 1 /\ downs' \in Nat /\ downs' > 0 /\ user' = "down" /\ pc' = next
BY SetEventsKeeps DEF handleClose, disableAll, TypeOK

\* sendInLoop, called from the batch or directly by send.
LEMMA SendKeepsOpen ==
  ASSUME OpenInv, NEW msg \in Seq(Byte), sendInLoop(msg),
         batch' \in Seq(Functor), sent' \in [Sender -> 0 .. MaxBytes],
         UNCHANGED <<m_state, loopVars, calling, server, wrShut, peerVars, notice, downs, destroys>>
  PROVE  OpenInv'
<1>1. TypeOK /\ got' = got
  BY DEF OpenInv, peerVars
<1>2. /\ WriteTypes'
      /\ UNCHANGED channelVars \/ (events' = events \cup {"write"} /\ index' = "added")
      /\ (isWriting <=> output # << >>) => (isWriting <=> output # << >>)'
      /\ failed => failed'
      /\ (wrShut /\ ~isWriting /\ output = << >>) => failed' \/ output' = << >>
  BY <1>1, SendInLoopKeeps
<1>3. UNCHANGED <<m_state, pc, revents, user, calling, server, wrShut, got, rcv, inputs, peer,
                  notice, downs, destroys>>
  BY DEF loopVars, peerVars
<1>4. TypeOK'
  BY <1>1, <1>2, <1>3 DEF TypeOK, WriteTypes
<1>5. Backlog'
  BY <1>2, <1>3 DEF OpenInv, Backlog
<1>6. Opened'
  BY <1>2, <1>3 DEF OpenInv, Opened, channelVars
<1>7. Told'
  BY <1>3 DEF OpenInv, Told
<1>8. ShutdownFlushes'
  <2>1. Backlog /\ ShutdownFlushes
    BY DEF OpenInv
  <2>. QED  BY <1>2, <1>3, <2>1 DEF Backlog, ShutdownFlushes
<1>. QED  BY <1>4, <1>5, <1>6, <1>7, <1>8 DEF OpenInv

\* One round of events, for the open part.
LEMMA RoundOpen ==
  ASSUME OpenInv, poll \/ closeStage \/ errorStage \/ readStage \/ writeStage
  PROVE  OpenInv'
<1> USE DEF OpenInv, Backlog, Opened, Told, ShutdownFlushes, isWriting, States,
            connVars, channelVars, queueVars, outsideVars, peerVars, kernelVars, historyVars
<1>1. CASE poll
  BY <1>1 DEF poll, Reported, TypeOK
<1>2. CASE closeStage
  <2>1. CASE hangsUp /\ handleClose("error")
    BY <1>2, <2>1, HandleCloseKeeps DEF closeStage, TypeOK
  <2>2. CASE pc' = "error" /\ UNCHANGED <<m_state, channelVars, user, downs>>
    BY <1>2, <2>2 DEF closeStage, TypeOK
  <2>. QED  BY <1>2, <2>1, <2>2 DEF closeStage
<1>3. CASE errorStage
  BY <1>3 DEF errorStage, TypeOK
<1>4. CASE readStage
  <2>1. soError' \in BOOLEAN /\ rcv' \in 0 .. inputs'
    <3>1. rcv \in 0 .. inputs /\ inputs' = inputs /\ inputs \in Nat /\ soError \in BOOLEAN
      BY <1>4 DEF readStage, TypeOK
    <3>2. \/ rcv > 0 /\ rcv' \in 0 .. rcv - 1 /\ UNCHANGED soError
          \/ rcv = 0 /\ soError' = FALSE /\ UNCHANGED rcv
          \/ UNCHANGED <<rcv, soError>>
      BY <1>4 DEF readStage, handleRead
    <3>3. soError' \in BOOLEAN
      BY <3>1, <3>2
    <3>4. rcv' \in 0 .. inputs'
      BY <3>1, <3>2
    <3>. QED  BY <3>3, <3>4
  <2>2. CASE handleClose("write")
    BY <1>4, <2>1, <2>2, HandleCloseKeeps DEF readStage, TypeOK
  <2>3. CASE UNCHANGED <<m_state, channelVars, downs>> /\ pc' = "write" /\ user' \in {"callback", user}
    BY <1>4, <2>1, <2>3 DEF readStage, TypeOK
  <2>. QED  BY <1>4, <2>2, <2>3 DEF readStage, handleRead, endOfStream
<1>5. CASE writeStage
  <2>1. CASE "OUT" \in revents /\ "write" \in events /\ handleWrite
    BY <1>5, <2>1, HandleWriteKeeps DEF writeStage, TypeOK, WriteTypes
  <2>2. CASE UNCHANGED <<channelVars, output, pending, wire, wrShut, soError, failed>>
    BY <1>5, <2>2 DEF writeStage, TypeOK
  <2>. QED  BY <1>5, <2>1, <2>2 DEF writeStage
<1>. QED  BY <1>1, <1>2, <1>3, <1>4, <1>5
\* The functors of one batch.
LEMMA FunctorsOpen ==
  ASSUME OpenInv, \/ swap \/ endBatch \/ connectEstablished \/ runSendInLoop
                  \/ runShutdownInLoop \/ runCallback \/ connectDestoryed \/ disconnect
                  \/ callbackReturns
  PROVE  OpenInv'
<1> USE DEF OpenInv, Backlog, Opened, Told, ShutdownFlushes, isWriting, States,
            connVars, channelVars, queueVars, outsideVars, peerVars, kernelVars, historyVars
<1>1. CASE swap
  BY <1>1, EmptySeq DEF swap, TypeOK
<1>2. CASE endBatch
  BY <1>2 DEF endBatch, TypeOK
<1>3. CASE connectEstablished
  <2>1. events \cup {"read"} \in SUBSET {"read", "write"} /\ SetEvents(events \cup {"read"})
    BY <1>3 DEF connectEstablished, TypeOK
  <2>2. events' = events \cup {"read"} /\ index' = "added"
    BY <2>1, SetEventsKeeps
  <2>. QED  BY <1>3, <2>2, QueueTypes DEF connectEstablished, Runs, TypeOK
<1>4. CASE runSendInLoop
  <2>1. /\ Head(batch).msg \in Seq(Byte) /\ sendInLoop(Head(batch).msg)
        /\ batch' \in Seq(Functor)
    BY <1>4, QueueTypes DEF runSendInLoop, Runs, Functor
  <2>2. /\ UNCHANGED <<m_state, loopVars, calling, server, wrShut, peerVars, notice, downs, destroys>>
        /\ sent' = sent
    BY <1>4 DEF runSendInLoop, Runs, loopVars
  <2>3. sent' \in [Sender -> 0 .. MaxBytes]
    BY <2>2 DEF TypeOK
  <2>. QED  BY <2>1, <2>2, <2>3, SendKeepsOpen
<1>5. CASE runShutdownInLoop
  BY <1>5, QueueTypes DEF runShutdownInLoop, shutdownInLoop, Runs, Stage, TypeOK
<1>6. CASE runCallback
  <2>1. /\ Runs("writeComplete") \/ Runs("highWaterMark")
        /\ notice' = Head(batch).run
    BY <1>6 DEF runCallback
  <2>2. batch # << >> /\ batch' = Tail(batch) /\ notice' \in {"writeComplete", "highWaterMark"}
    BY <2>1 DEF Runs
  <2>3. UNCHANGED <<revents, outsideVars, peerVars>>
    BY <2>1 DEF Runs
  <2>. QED  BY <1>6, <2>2, <2>3, QueueTypes DEF runCallback, TypeOK
<1>7. CASE connectDestoryed
  <2>1. CASE m_state = "kConnected"
    BY <1>7, <2>1, QueueTypes DEF connectDestoryed, Runs, Stage, TypeOK
  <2>2. CASE m_state # "kConnected"
    BY <1>7, <2>2, QueueTypes DEF connectDestoryed, Runs, Stage, TypeOK
  <2>. QED  BY <2>1, <2>2
<1>8. CASE disconnect
  BY <1>8 DEF disconnect, TypeOK
<1>9. CASE callbackReturns
  <2>1. server' \in [alive : BOOLEAN, inMap : BOOLEAN, removals : Nat]
    <3>1. server \in [alive : BOOLEAN, inMap : BOOLEAN, removals : Nat] /\ server.removals + 1 \in Nat
      BY DEF TypeOK
    <3>2. server' \in {server, [server EXCEPT !.removals = @ + 1]}
      BY <1>9 DEF callbackReturns
    <3>. QED  BY <3>1, <3>2
  <2>. QED  BY <1>9, <2>1 DEF callbackReturns, TypeOK
<1>. QED  BY <1>1, <1>2, <1>3, <1>4, <1>5, <1>6, <1>7, <1>8, <1>9

\* The calls of send and shutdown on the loop thread and on others.
LEMMA CallsOpen ==
  ASSUME OpenInv, \/ shutdown
                  \/ \E len \in Lens : send(len)
                  \/ \E t \in Thread : \/ \E len \in Lens : threadSend(t, len)
                                       \/ threadShutdown(t) \/ threadSetState(t)
                                       \/ threadRunInLoop(t)
  PROVE  OpenInv'
<1> USE DEF OpenInv, Backlog, Opened, Told, ShutdownFlushes, isWriting, States, connVars,
            channelVars, queueVars, loopVars, outsideVars, peerVars, kernelVars, historyVars
<1>1. CASE shutdown
  BY <1>1 DEF shutdown, shutdownInLoop, TypeOK
<1>2. ASSUME NEW s \in Sender, NEW len \in Lens, SendCall(s, len)
      PROVE  /\ Message(s, len) \in Seq(Byte) /\ m_state = "kConnected"
             /\ sent' \in [Sender -> 0 .. MaxBytes]
  BY <1>2, MessageType, BoundAssumption DEF SendCall, TypeOK
<1>3. ASSUME NEW len \in Lens, send(len)
      PROVE  OpenInv'
  <2>1. /\ Loop \in Sender /\ SendCall(Loop, len) /\ sendInLoop(Message(Loop, len))
        /\ batch' = batch
        /\ UNCHANGED <<m_state, loopVars, calling, server, wrShut, peerVars, notice, downs, destroys>>
    BY <1>3, Zenon DEF send, Sender
  <2>2. batch' \in Seq(Functor)
    BY <2>1 DEF TypeOK
  <2>3. Message(Loop, len) \in Seq(Byte) /\ sent' \in [Sender -> 0 .. MaxBytes]
    BY <1>2, <2>1
  <2>. QED  BY <2>1, <2>2, <2>3, SendKeepsOpen
<1>4. ASSUME NEW t \in Thread, NEW len \in Lens, threadSend(t, len)
      PROVE  OpenInv'
  <2>1. t \in Sender /\ SendCall(t, len)
    BY <1>4 DEF threadSend, Sender
  <2>2. Send(Message(t, len)) \in Functor
    BY <1>2, <2>1, Functors
  <2>. QED  BY <1>2, <1>4, <2>1, <2>2, Functors DEF threadSend, TypeOK
<1>5. ASSUME NEW t \in Thread, threadShutdown(t)
      PROVE  OpenInv'
  BY <1>5 DEF threadShutdown, TypeOK
<1>6. ASSUME NEW t \in Thread, threadSetState(t)
      PROVE  OpenInv'
  BY <1>6, Functors DEF threadSetState, TypeOK
<1>7. ASSUME NEW t \in Thread, threadRunInLoop(t)
      PROVE  OpenInv'
  <2>1. calling[t] \in Functor
    BY <1>7 DEF threadRunInLoop, TypeOK
  <2>. QED  BY <1>7, <2>1, Functors, QueueTypes DEF threadRunInLoop, ToBack, TypeOK
<1>. QED  BY <1>1, <1>3, <1>4, <1>5, <1>6, <1>7

\* The loop when it has nothing to do, the server, the peer and the kernel.
LEMMA OutsideOpen ==
  ASSUME OpenInv, \/ pollOther \/ loopEnds \/ removeConnectionInLoop \/ destroyServer
                  \/ peerReads \/ peerSends \/ peerCloses \/ peerResets
  PROVE  OpenInv'
<1> USE DEF OpenInv, Backlog, Opened, Told, ShutdownFlushes, isWriting, States, connVars,
            channelVars, queueVars, loopVars, outsideVars, historyVars
<1>1. CASE removeConnectionInLoop
  <2>1. server' \in [alive : BOOLEAN, inMap : BOOLEAN, removals : Nat]
    <3>1. /\ server \in [alive : BOOLEAN, inMap : BOOLEAN, removals : Nat]
          /\ server.removals - 1 \in Nat
      BY <1>1 DEF removeConnectionInLoop, TypeOK
    <3>2. server' = [server EXCEPT !.inMap = FALSE, !.removals = @ - 1]
      BY <1>1 DEF removeConnectionInLoop
    <3>. QED  BY <3>1, <3>2
  <2>2. pending' \in Seq(Functor)
    BY <1>1, Functors, QueueTypes DEF removeConnectionInLoop, ToBack
  <2>3. UNCHANGED <<connVars, batch, loopVars, calling, sent, kernelVars, historyVars>>
    BY <1>1 DEF removeConnectionInLoop
  <2>4. TypeOK'
    BY <2>1, <2>2, <2>3 DEF TypeOK, kernelVars, peerVars
  <2>5. Backlog' /\ Opened' /\ Told'
    BY <2>3
  <2>6. ShutdownFlushes'
    BY <2>3 DEF kernelVars
  <2>. QED  BY <2>4, <2>5, <2>6
<1>2. CASE destroyServer
  BY <1>2, Functors, QueueTypes DEF destroyServer, ToBack, TypeOK, kernelVars, peerVars
<1>3. CASE peerReads
  BY <1>3, LenProperties, BoundAssumption DEF peerReads, Environment, TypeOK
<1>4. CASE peerSends
  BY <1>4, BoundAssumption DEF peerSends, Environment, TypeOK
<1>5. CASE peerCloses
  BY <1>5 DEF peerCloses, Environment, TypeOK
<1>6. CASE peerResets
  BY <1>6 DEF peerResets, Environment, TypeOK
<1>7. CASE pollOther \/ loopEnds
  <2>1. /\ UNCHANGED <<connVars, queueVars, revents, user, outsideVars, kernelVars, historyVars>>
        /\ pc' \in {"swap", "ended"}
    BY <1>7 DEF pollOther, loopEnds
  <2>2. TypeOK'
    BY <2>1 DEF TypeOK, kernelVars, peerVars
  <2>3. Backlog' /\ Opened' /\ Told'
    BY <2>1
  <2>4. ShutdownFlushes'
    BY <2>1 DEF kernelVars
  <2>. QED  BY <2>2, <2>3, <2>4
<1>. QED  BY <1>1, <1>2, <1>3, <1>4, <1>5, <1>6, <1>7

\* The invariant of an open connection.
THEOREM OpenInductive == Spec => []OpenInv
<1>1. OpenInv /\ [Next]_vars => OpenInv'
  <2> SUFFICES ASSUME OpenInv, [Next]_vars PROVE OpenInv'
    OBVIOUS
  <2>1. CASE UNCHANGED vars
    BY <2>1 DEF vars, connVars, channelVars, queueVars, loopVars, outsideVars, peerVars,
                kernelVars, historyVars, OpenInv, TypeOK, Backlog, Opened, Told,
                ShutdownFlushes, isWriting
  <2>. QED  BY <2>1, RoundOpen, FunctorsOpen, CallsOpen, OutsideOpen DEF Next, LoopStep
<1>. QED  BY <1>1, OpenInit, PTL DEF Spec

\* Every variable keeps its type, the send buffer its capacity.
THEOREM TypeCorrect == Spec => []TypeOK
<1>1. OpenInv => TypeOK
  BY DEF OpenInv
<1>. QED  BY <1>1, OpenInductive, PTL

\* An open connection waits for EPOLLOUT exactly while something waits to be written.
THEOREM InterestTracksBacklog == Spec => []WriteInterestTracksBacklog
<1>1. OpenInv => WriteInterestTracksBacklog
  BY DEF OpenInv, Backlog, Opened, WriteInterestTracksBacklog
<1>. QED  BY <1>1, OpenInductive, PTL

\* The half-close waits for the output buffer, whichever threads call shutdown().
THEOREM ShutdownFlushesHolds == Spec => []ShutdownFlushes
<1>1. OpenInv => ShutdownFlushes
  BY DEF OpenInv
<1>. QED  BY <1>1, OpenInductive, PTL-----------------------------------------------------------------------------
\* No functor of a kind is queued, at most one is, connectEstablished is the first and
\* only one of its kind.
Absent(q, kind) == \A i \in 1 .. Len(q) : q[i].run # kind
Single(q, kind) == \A i, j \in 1 .. Len(q) : (q[i].run = kind /\ q[j].run = kind) => i = j
First(q) == q # << >> /\ \A i \in 1 .. Len(q) : q[i].run = "connectEstablished" <=> i = 1

\* What taking the first functor does to these.
LEMMA Popped ==
  ASSUME NEW q \in Seq(Functor), q # << >>, NEW kind
  PROVE  /\ Absent(q, kind) => Absent(Tail(q), kind) /\ Head(q).run # kind
         /\ Single(q, kind) => Single(Tail(q), kind)
         /\ Single(q, kind) /\ Head(q).run = kind => Absent(Tail(q), kind)
         /\ First(q) => /\ Absent(Tail(q), "connectEstablished")
                        /\ Head(q).run = "connectEstablished"
<1>1. /\ Len(q) \in Nat \ {0} /\ Len(Tail(q)) = Len(q) - 1 /\ Head(q) = q[1]
      /\ \A i \in 1 .. Len(Tail(q)) : Tail(q)[i] = q[i + 1]
  BY HeadTailProperties, EmptySeq
<1>. QED  BY <1>1 DEF Absent, Single, First

\* What queueing functors behind others does.
LEMMA Pushed ==
  ASSUME NEW q \in Seq(Functor), NEW r \in Seq(Functor), NEW kind
  PROVE  /\ Absent(q, kind) /\ Absent(r, kind) => Absent(q \o r, kind)
         /\ Single(q, kind) /\ Absent(r, kind) => Single(q \o r, kind)
         /\ Absent(q, kind) /\ Single(r, kind) => Single(q \o r, kind)
         /\ First(q) /\ Absent(r, "connectEstablished") => First(q \o r)
<1>1. /\ Len(q) \in Nat /\ Len(r) \in Nat /\ Len(q \o r) = Len(q) + Len(r)
      /\ \A i \in 1 .. Len(q) + Len(r) :
           (q \o r)[i] = IF i <= Len(q) THEN q[i] ELSE r[i - Len(q)]
  BY ConcatProperties, LenProperties
<1>2. q # << >> => q \o r # << >> /\ Len(q) > 0
  BY <1>1, EmptySeq, ConcatEqualIffEmpty
<1>3. Absent(q, kind) /\ Absent(r, kind) => Absent(q \o r, kind)
  BY <1>1 DEF Absent
<1>4. Single(q, kind) /\ Absent(r, kind) => Single(q \o r, kind)
  BY <1>1 DEF Absent, Single
<1>5. Absent(q, kind) /\ Single(r, kind) => Single(q \o r, kind)
  <2> SUFFICES ASSUME Absent(q, kind), Single(r, kind),
                      NEW i \in 1 .. Len(q \o r), NEW j \in 1 .. Len(q \o r),
                      (q \o r)[i].run = kind, (q \o r)[j].run = kind
               PROVE  i = j
    BY DEF Single
  <2>1. /\ i - Len(q) \in 1 .. Len(r) /\ r[i - Len(q)].run = kind
        /\ j - Len(q) \in 1 .. Len(r) /\ r[j - Len(q)].run = kind
    BY <1>1 DEF Absent
  <2>2. i - Len(q) = j - Len(q)
    BY <2>1 DEF Single
  <2>. QED  BY <1>1, <2>2
<1>6. First(q) /\ Absent(r, "connectEstablished") => First(q \o r)
  BY <1>1, <1>2 DEF Absent, First
<1>. QED  BY <1>3, <1>4, <1>5, <1>6

\* The queue that is empty, and one of one functor.
LEMMA Empty ==
  ASSUME NEW kind
  PROVE  Absent(<< >>, kind) /\ Single(<< >>, kind)
BY DEF Absent, Single

LEMMA One ==
  ASSUME NEW f \in Functor, NEW kind
  PROVE  /\ <<f>> \in Seq(Functor) /\ Single(<<f>>, kind)
         /\ f.run # kind => Absent(<<f>>, kind)
BY DEF Absent, Single

-----------------------------------------------------------------------------
\* When shutdown() is called on the loop thread only, other threads just send.
Quiet == \A t \in Thread : calling[t] # None => calling[t].run = "sendInLoop"

\* connectEstablished comes first, once, and nothing happens to the connection before.
Establishing ==
  /\ m_state = "kConnecting" =>
       /\ pc \in {"poll", "swap", "functors", "ended"} /\ user = "none"
       /\ index = "new" /\ events = {} /\ downs = 0 /\ destroys = 0
       /\ \A t \in Thread : calling[t] = None
       /\ \/ batch = << >> /\ First(pending)
          \/ First(batch) /\ Absent(pending, "connectEstablished")
  /\ m_state # "kConnecting" =>
       Absent(batch, "connectEstablished") /\ Absent(pending, "connectEstablished")

\* A batch is run to its end before the next epoll_wait.
Idle == pc \notin {"functors", "disconnect"} => batch = << >>

\* A connection goes down once and is not registered from then on.
Down == downs > 0 => downs = 1 /\ m_state = "kDisconnected" /\ events = {} /\ index # "added"

\* While a round serves the channel it is registered, unless the round took it down
\* before it came to the input.
Round ==
  /\ (pc \in {"close", "error", "read", "write"} /\ downs = 0) => index = "added"
  /\ downs > 0 => /\ pc # "close"
                  /\ pc \in {"error", "read"} => "IN" \notin revents

\* connectDestoryed is queued once, when the connection leaves connections_.
Destroying ==
  /\ pc = "disconnect" =>
       /\ m_state = "kConnected" /\ user = "none" /\ destroys = 0 /\ ~server.inMap
       /\ Absent(batch, "connectDestoryed") /\ Absent(pending, "connectDestoryed")
  /\ server.inMap => destroys = 0
  /\ server.inMap \/ destroys > 0 =>
       Absent(batch, "connectDestoryed") /\ Absent(pending, "connectDestoryed")
  /\ destroys <= 1
  /\ Single(batch, "connectDestoryed") /\ Single(pending, "connectDestoryed")
  /\ Absent(batch, "connectDestoryed") \/ Absent(pending, "connectDestoryed")

\* As long as the server lives, only a connection that is down is removed, once, and
\* one goes down only when the peer has ended and its input is read.
Serving ==
  /\ ServerDies \/ server.alive
  /\ user = "down" => downs = 1
  /\ ~server.alive => ~server.inMap
  /\ server.alive =>
       /\ server.removals > 0 =>
            server.removals = 1 /\ server.inMap /\ downs > 0 /\ user # "down"
       /\ ~server.inMap => downs = 1 /\ user # "down"
       /\ destroys > 0 => index = "new"
       /\ downs > 0 => peer # "open" /\ (peer = "closed" => rcv = 0)
       /\ (pc = "close" /\ "HUP" \in revents) => "IN" \in revents

\* Input that epoll_wait reported is there when handleRead comes to it.
Input == ("IN" \in revents /\ pc \in {"close", "error", "read"}) => rcv > 0 \/ peer # "open"

DownInv == /\ Quiet /\ Establishing /\ Idle /\ Down /\ Round
           /\ Destroying /\ Serving /\ Input

\* The initial state.
LEMMA DownInit == Init => DownInv
<1> SUFFICES ASSUME Init PROVE DownInv
  OBVIOUS
<1>1. First(pending) /\ batch = << >>
  BY DEF Init, First, Established
<1>2. /\ Absent(batch, "connectDestoryed") /\ Single(batch, "connectDestoryed")
      /\ Absent(pending, "connectDestoryed") /\ Single(pending, "connectDestoryed")
  <2>1. /\ Established \in Functor /\ Established.run # "connectDestoryed"
    BY Functors DEF Established
  <2>2. pending = <<Established>> /\ batch = << >>
    BY DEF Init
  <2>. QED  BY <2>1, <2>2, Empty, One
<1>3. Quiet /\ Establishing /\ Idle /\ Down /\ Round /\ Input
  BY <1>1 DEF Init, Quiet, Establishing, Idle, Down, Round, Input
<1>4. Destroying
  BY <1>2 DEF Init, Destroying
<1>5. Serving
  BY DEF Init, Serving
<1>. QED  BY <1>3, <1>4, <1>5 DEF DownInv

\* The functors that a write queues are neither connectEstablished nor connectDestoryed.
LEMMA NoticesQueued ==
  ASSUME TypeOK, \E r \in {<< >>, <<WriteComplete>>, <<HighWater>>} : pending' = pending \o r,
         NEW kind \in {"connectEstablished", "connectDestoryed"}
  PROVE  /\ Absent(pending, kind) => Absent(pending', kind)
         /\ Single(pending, kind) => Single(pending', kind)
<1>1. PICK r \in {<< >>, <<WriteComplete>>, <<HighWater>>} : pending' = pending \o r
  OBVIOUS
<1>2. r \in Seq(Functor) /\ Absent(r, kind)
  <2>1. /\ WriteComplete \in Functor /\ WriteComplete.run # kind
        /\ HighWater \in Functor /\ HighWater.run # kind
    BY Functors DEF WriteComplete, HighWater
  <2>. QED  BY <2>1, EmptySeq, Empty, One
<1>. QED  BY <1>1, <1>2, Pushed DEF TypeOK

\* One round of events, for the end of the connection.
LEMMA RoundDown ==
  ASSUME OpenInv, DownInv, poll \/ closeStage \/ errorStage \/ readStage \/ writeStage
  PROVE  DownInv'
<1> USE DEF DownInv, Quiet, Establishing, Idle, Down, Round, Destroying, Serving, Input,
            connVars, channelVars, queueVars, outsideVars, peerVars, kernelVars, historyVars
<1>1. CASE poll
  BY <1>1 DEF poll, Reported, OpenInv, Opened, Told, TypeOK, States, Readable, HungUp
<1>2. CASE closeStage
  <2>1. CASE hangsUp /\ handleClose("error")
    BY <1>2, <2>1, HandleCloseKeeps DEF closeStage, Stage, hangsUp, OpenInv, TypeOK
  <2>2. CASE pc' = "error" /\ UNCHANGED <<m_state, channelVars, user, downs>>
    BY <1>2, <2>2 DEF closeStage, Stage
  <2>. QED  BY <1>2, <2>1, <2>2 DEF closeStage
<1>3. CASE errorStage
  BY <1>3 DEF errorStage, Stage
<1>4. CASE readStage
  <2>2. CASE "IN" \in revents /\ handleClose("write") /\ rcv = 0 /\ rcv' = 0
    BY <1>4, <2>2, HandleCloseKeeps DEF readStage, Stage, OpenInv, TypeOK
  <2>3. CASE "IN" \in revents /\ UNCHANGED <<m_state, channelVars, downs>> /\ pc' = "write" /\ user' = "callback"
    BY <1>4, <2>3 DEF readStage, Stage
  <2>4. CASE pc' = "write" /\ UNCHANGED <<m_state, channelVars, user, downs, rcv>>
    BY <1>4, <2>4 DEF readStage, Stage
  <2>. QED  BY <1>4, <2>2, <2>3, <2>4 DEF readStage, handleRead, endOfStream, OpenInv, TypeOK
<1>5. CASE writeStage
  <2>1. CASE "OUT" \in revents /\ isWriting /\ handleWrite
    <3>1. got' = got /\ TypeOK
      BY <1>5 DEF writeStage, OpenInv
    <3>2. /\ \A kind \in {"connectEstablished", "connectDestoryed"} :
              /\ Absent(pending, kind) => Absent(pending', kind)
              /\ Single(pending, kind) => Single(pending', kind)
          /\ events' \subseteq events
      BY <2>1, <3>1, HandleWriteKeeps, NoticesQueued
    <3>3. downs = 0 /\ destroys \in Nat /\ pc = "write"
      BY <1>5, <2>1, <3>1 DEF isWriting, TypeOK, writeStage, Stage
    <3>4. destroys = 0 \/ ~server.alive
      BY <3>3
    <3>. QED  BY <1>5, <3>2, <3>3, <3>4 DEF writeStage, Stage
  <2>2. CASE UNCHANGED <<channelVars, output, pending, wire, wrShut, soError, failed>>
    BY <1>5, <2>2 DEF writeStage, Stage
  <2>. QED  BY <1>5, <2>1, <2>2 DEF writeStage
<1>. QED  BY <1>1, <1>2, <1>3, <1>4, <1>5
\* The functors of one batch.
LEMMA FunctorsDown ==
  ASSUME OpenInv, DownInv,
         \/ swap \/ endBatch \/ connectEstablished \/ runSendInLoop
         \/ runShutdownInLoop \/ runCallback \/ connectDestoryed \/ disconnect
         \/ callbackReturns
  PROVE  DownInv'
<1> USE DEF DownInv, Quiet, Establishing, Idle, Down, Round, Destroying, Serving, Input, Stage,
            connVars, channelVars, queueVars, outsideVars, peerVars, kernelVars, historyVars
<1>0. /\ TypeOK /\ downs \in Nat /\ destroys \in Nat
      /\ \A kind \in FunctorKind : Absent(<< >>, kind) /\ Single(<< >>, kind)
      /\ {"connectEstablished", "connectDestoryed"} \subseteq FunctorKind
  BY Empty DEF OpenInv, TypeOK, FunctorKind
<1> DEFINE keeps(q, p) ==
             \A kind \in {"connectEstablished", "connectDestoryed"} :
               /\ Absent(q, kind) => Absent(p, kind)
               /\ Single(q, kind) => Single(p, kind)
\* What running a functor does to the batch.
<1>a. ASSUME NEW k \in FunctorKind, Runs(k)
      PROVE  /\ pc = "functors" /\ user = "none" /\ keeps(batch, batch')
             /\ UNCHANGED <<revents, outsideVars, peerVars>>
             /\ m_state = "kConnecting" => k = "connectEstablished"
             /\ First(batch) => Absent(batch', "connectEstablished")
             /\ k \in {"connectEstablished", "connectDestoryed"} => ~Absent(batch, k)
             /\ k = "connectDestoryed" /\ Single(batch, k) => Absent(batch', k)
  <2>1. /\ pc = "functors" /\ user = "none" /\ UNCHANGED <<revents, outsideVars, peerVars>>
        /\ batch \in Seq(Functor) /\ batch # << >> /\ Head(batch).run = k /\ batch' = Tail(batch)
    BY <1>a, <1>0 DEF Runs, TypeOK
  <2>. QED  BY <2>1, Popped
<1>1. CASE swap
  <2>1. batch = << >> /\ batch' = pending /\ pending' = << >>
    BY <1>1 DEF swap
  <2>2. /\ Absent(pending', "connectEstablished") /\ Absent(pending', "connectDestoryed")
        /\ Single(pending', "connectDestoryed") /\ ~First(batch)
    BY <2>1, Empty DEF First
  <2>. QED  BY <1>1, <2>1, <2>2 DEF swap
<1>2. CASE endBatch
  BY <1>2 DEF endBatch
<1>3. CASE connectEstablished
  <2>1. events \cup {"read"} \in SUBSET {"read", "write"} /\ SetEvents(events \cup {"read"})
    BY <1>3 DEF connectEstablished, OpenInv, TypeOK
  <2>2. events' = events \cup {"read"} /\ index' = "added"
    BY <1>0, <2>1, SetEventsKeeps
  <2>3. Runs("connectEstablished") /\ "connectEstablished" \in FunctorKind
    BY <1>3 DEF connectEstablished, FunctorKind
  <2>4. /\ m_state = "kConnecting" /\ Absent(pending, "connectEstablished")
        /\ Absent(batch', "connectEstablished")
    BY <1>0, <1>a, <2>3
  <2>5. /\ pending' = pending /\ pc' = "functors" /\ m_state' = "kConnected"
        /\ user' = "callback" /\ keeps(batch, batch')
        /\ UNCHANGED <<revents, outsideVars, peerVars, downs, destroys>>
    BY <1>3, <1>a, <2>3 DEF connectEstablished
  <2>. QED  BY <2>2, <2>4, <2>5
<1>4. CASE runSendInLoop
  <2>1. /\ Head(batch).msg \in Seq(Byte) /\ sendInLoop(Head(batch).msg) /\ got' = got
        /\ Runs("sendInLoop") /\ "sendInLoop" \in FunctorKind
    BY <1>0, <1>4, QueueTypes DEF runSendInLoop, Runs, Functor, FunctorKind
  <2>2. /\ \E r \in {<< >>, <<WriteComplete>>, <<HighWater>>} : pending' = pending \o r
        /\ UNCHANGED channelVars \/ (events' = events \cup {"write"} /\ index' = "added")
        /\ m_state = "kDisconnected" => UNCHANGED channelVars
    BY <1>0, <2>1, SendInLoopKeeps
  <2>3. keeps(pending, pending')
    BY <1>0, <2>2, NoticesQueued
  <2>4. m_state # "kConnecting" /\ keeps(batch, batch') /\ pc = "functors" /\ user = "none"
        /\ UNCHANGED <<revents, outsideVars, peerVars>>
    BY <1>a, <2>1
  <2>5. UNCHANGED <<m_state, pc, user, downs, destroys>>
    BY <1>4 DEF runSendInLoop
  <2>. QED  BY <1>0, <2>2, <2>3, <2>4, <2>5
<1>5. CASE runShutdownInLoop
  <2>1. Runs("shutdownInLoop") /\ "shutdownInLoop" \in FunctorKind
    BY <1>5 DEF runShutdownInLoop, FunctorKind
  <2>. QED  BY <1>5, <1>a, <2>1 DEF runShutdownInLoop
<1>6. CASE runCallback
  <2>1. PICK k \in {"writeComplete", "highWaterMark"} : Runs(k)
    BY <1>6 DEF runCallback
  <2>2. k \in FunctorKind
    BY DEF FunctorKind
  <2>. QED  BY <1>6, <1>a, <2>1, <2>2 DEF runCallback
<1>7. CASE connectDestoryed
  <2>1. Runs("connectDestoryed") /\ "connectDestoryed" \in FunctorKind
    BY <1>7 DEF connectDestoryed, FunctorKind
  <2>2. /\ m_state # "kConnecting" /\ keeps(batch, batch') /\ pc = "functors" /\ user = "none"
        /\ Absent(batch', "connectDestoryed") /\ Absent(pending, "connectDestoryed")
        /\ destroys = 0 /\ ~server.inMap
        /\ UNCHANGED <<revents, outsideVars, peerVars>>
    BY <1>0, <1>a, <2>1
  <2>3. UNCHANGED <<m_state, events, pending, user, downs>>
    BY <1>7 DEF connectDestoryed
  <2>4. CASE m_state = "kConnected"
    BY <1>7, <2>2, <2>3, <2>4 DEF connectDestoryed
  <2>5. CASE m_state # "kConnected"
    <3>1. index' = "new" /\ destroys' = 1 /\ pc' = pc
      BY <1>7, <2>2, <2>5 DEF connectDestoryed
    <3>. QED  BY <2>2, <2>3, <3>1
  <2>. QED  BY <2>4, <2>5
<1>8. CASE disconnect
  BY <1>0, <1>8 DEF disconnect
<1>9. CASE callbackReturns
  BY <1>0, <1>9 DEF callbackReturns, TypeOK
<1>. QED  BY <1>1, <1>2, <1>3, <1>4, <1>5, <1>6, <1>7, <1>8, <1>9
\* The calls of send and shutdown, with shutdown() on the loop thread only.
LEMMA CallsDown ==
  ASSUME ~ThreadsShutdown, OpenInv, DownInv,
         \/ shutdown
         \/ \E len \in Lens : send(len)
         \/ \E t \in Thread : \/ \E len \in Lens : threadSend(t, len)
                              \/ threadShutdown(t) \/ threadSetState(t)
                              \/ threadRunInLoop(t)
  PROVE  DownInv'
<1> USE DEF DownInv, Quiet, Establishing, Idle, Down, Round, Destroying, Serving, Input, LoopTurn,
            connVars, channelVars, queueVars, loopVars, outsideVars, peerVars, kernelVars,
            historyVars
<1>0. /\ TypeOK /\ calling \in [Thread -> Functor \cup {None, Checked}]
      /\ pending \in Seq(Functor) /\ downs \in Nat /\ destroys \in Nat
  BY DEF OpenInv, TypeOK
<1>1. CASE shutdown
  BY <1>1 DEF shutdown
<1>2. ASSUME NEW len \in Lens, send(len)
      PROVE  DownInv'
  <2>1. /\ Loop \in Sender /\ m_state = "kConnected" /\ sent[Loop] + len <= MaxBytes
        /\ sendInLoop(Message(Loop, len)) /\ got' = got
    BY <1>2 DEF send, SendCall, Sender
  <2>2. /\ \E r \in {<< >>, <<WriteComplete>>, <<HighWater>>} : pending' = pending \o r
        /\ UNCHANGED channelVars \/ (events' = events \cup {"write"} /\ index' = "added")
    BY <1>0, <2>1, MessageType, SendInLoopKeeps
  <2>3. \A kind \in {"connectEstablished", "connectDestoryed"} :
          /\ Absent(pending, kind) => Absent(pending', kind)
          /\ Single(pending, kind) => Single(pending', kind)
    BY <1>0, <2>2, NoticesQueued
  <2>4. UNCHANGED <<m_state, batch, pc, revents, user, calling, server, rcv, peer, downs, destroys>>
    BY <1>2 DEF send
  <2>. QED  BY <1>0, <2>1, <2>2, <2>3, <2>4
<1>3. ASSUME NEW t \in Thread, NEW len \in Lens, threadSend(t, len)
      PROVE  DownInv'
  BY <1>0, <1>3 DEF threadSend, SendCall, Send
<1>4. ASSUME NEW t \in Thread, threadShutdown(t)
      PROVE  DownInv'
  BY <1>4 DEF threadShutdown
<1>5. ASSUME NEW t \in Thread, threadSetState(t)
      PROVE  DownInv'
  BY <1>5, Functors DEF threadSetState, Checked
<1>6. ASSUME NEW t \in Thread, threadRunInLoop(t)
      PROVE  DownInv'
  <2>1. /\ calling[t] \in Functor /\ calling[t].run = "sendInLoop" /\ m_state # "kConnecting"
        /\ pending' = pending \o <<calling[t]>>
    BY <1>0, <1>6 DEF threadRunInLoop, ToBack
  <2>2. /\ <<calling[t]>> \in Seq(Functor) /\ Absent(<<calling[t]>>, "connectEstablished")
        /\ Absent(<<calling[t]>>, "connectDestoryed")
    BY <2>1, One
  <2>3. \A kind \in {"connectEstablished", "connectDestoryed"} :
          /\ Absent(pending, kind) => Absent(pending', kind)
          /\ Single(pending, kind) => Single(pending', kind)
    BY <1>0, <2>1, <2>2, Pushed
  <2>4. /\ calling' = [calling EXCEPT ![t] = None]
        /\ UNCHANGED <<connVars, batch, loopVars, server, kernelVars, historyVars>>
    BY <1>6 DEF threadRunInLoop
  <2>. QED  BY <1>0, <2>1, <2>3, <2>4
<1>. QED  BY <1>1, <1>2, <1>3, <1>4, <1>5, <1>6

\* The loop when it has nothing to do, the server, the peer and the kernel.
LEMMA OutsideDown ==
  ASSUME OpenInv, DownInv, \/ pollOther \/ loopEnds \/ removeConnectionInLoop \/ destroyServer
                           \/ peerReads \/ peerSends \/ peerCloses \/ peerResets
  PROVE  DownInv'
<1> USE DEF DownInv, Quiet, Establishing, Idle, Down, Round, Destroying, Serving, Input,
            connVars, channelVars, queueVars, loopVars, outsideVars, historyVars
<1>0. /\ TypeOK /\ server \in [alive : BOOLEAN, inMap : BOOLEAN, removals : Nat]
      /\ pending \in Seq(Functor) /\ rcv \in Nat /\ downs \in Nat /\ destroys \in Nat
  BY BoundAssumption DEF OpenInv, TypeOK
\* connectDestoryed is put behind the others.
<1>a. ASSUME pending' = pending \o <<Destoryed>>
      PROVE  /\ First(pending) => First(pending')
             /\ Absent(pending, "connectEstablished") => Absent(pending', "connectEstablished")
             /\ Absent(pending, "connectDestoryed") => Single(pending', "connectDestoryed")
  <2>1. /\ Destoryed \in Functor /\ Destoryed.run = "connectDestoryed"
    BY Functors DEF Destoryed
  <2>2. /\ <<Destoryed>> \in Seq(Functor) /\ Absent(<<Destoryed>>, "connectEstablished")
        /\ Single(<<Destoryed>>, "connectDestoryed")
    BY <2>1, One
  <2>. QED  BY <1>0, <1>a, <2>2, Pushed
<1>1. CASE removeConnectionInLoop
  <2>1. /\ server.alive /\ server.removals > 0
        /\ pending' = pending \o <<Destoryed>>
        /\ server' = [server EXCEPT !.inMap = FALSE, !.removals = @ - 1]
        /\ UNCHANGED <<connVars, batch, loopVars, calling, kernelVars, historyVars>>
    BY <1>1 DEF removeConnectionInLoop, ToBack
  <2>2. /\ server'.alive /\ ~server'.inMap /\ server'.removals = 0
        /\ downs = 1 /\ user # "down" /\ m_state = "kDisconnected" /\ server.inMap
    BY <1>0, <2>1
  <2>. QED  BY <1>a, <2>1, <2>2 DEF kernelVars, peerVars
<1>2. CASE destroyServer
  <2>1. /\ ServerDies /\ server' = [alive |-> FALSE, inMap |-> FALSE, removals |-> 0]
        /\ pending' = pending \o (IF server.inMap THEN <<Destoryed>> ELSE << >>)
        /\ UNCHANGED <<connVars, batch, loopVars, calling, kernelVars, historyVars>>
    BY <1>2 DEF destroyServer, ToBack
  <2>2. CASE server.inMap
    BY <1>a, <2>1, <2>2 DEF kernelVars, peerVars
  <2>3. CASE ~server.inMap
    <3>1. pending' = pending
      BY <1>0, <2>1, <2>3, ConcatEmptySeq
    <3>. QED  BY <2>1, <2>3, <3>1 DEF kernelVars, peerVars
  <2>. QED  BY <2>2, <2>3
<1>3. CASE peerReads
  BY <1>3 DEF peerReads, Environment
<1>4. CASE peerSends
  BY <1>0, <1>4 DEF peerSends, Environment
<1>5. CASE peerCloses
  BY <1>5 DEF peerCloses, Environment
<1>6. CASE peerResets
  BY <1>6 DEF peerResets, Environment
<1>7. CASE pollOther \/ loopEnds
  BY <1>7 DEF pollOther, loopEnds, queueVars, outsideVars, kernelVars, peerVars
<1>. QED  BY <1>1, <1>2, <1>3, <1>4, <1>5, <1>6, <1>7

\* The invariant of the end of a connection.
THEOREM DownInductive == ~ThreadsShutdown => (Spec => [](OpenInv /\ DownInv))
<1> SUFFICES ASSUME ~ThreadsShutdown PROVE Spec => [](OpenInv /\ DownInv)
  OBVIOUS
<1>1. Init => OpenInv /\ DownInv
  BY OpenInit, DownInit
<1>2. OpenInv /\ DownInv /\ OpenInv' /\ [Next]_vars => DownInv'
  <2> SUFFICES ASSUME OpenInv, DownInv, [Next]_vars PROVE DownInv'
    OBVIOUS
  <2>1. CASE UNCHANGED vars
    BY <2>1 DEF vars, connVars, channelVars, queueVars, loopVars, outsideVars, peerVars,
                kernelVars, historyVars, DownInv, Quiet, Establishing, Idle, Down, Round,
                Destroying, Serving, Input
  <2>. QED  BY <2>1, RoundDown, FunctorsDown, CallsDown, OutsideDown DEF Next, LoopStep
<1>. QED  BY <1>1, <1>2, OpenInductive, PTL DEF Spec-----------------------------------------------------------------------------
\* The user is told once that the connection is down, connectDestoryed runs once, also
\* if ~TcpServer runs early.
THEOREM CloseOnceHolds == ~ThreadsShutdown => (Spec => []CloseOnce)
<1> SUFFICES ASSUME ~ThreadsShutdown PROVE Spec => []CloseOnce
  OBVIOUS
<1>1. OpenInv /\ DownInv => CloseOnce
  BY DEF OpenInv, TypeOK, DownInv, Down, Destroying, CloseOnce
<1>2. Spec => [](OpenInv /\ DownInv)
  BY DownInductive
<1>. QED  BY <1>1, <1>2, PTL

\* A connection that is down writes nothing, whatever was queued before.
THEOREM NothingAfterCloseHolds == ~ThreadsShutdown => (Spec => NothingAfterClose)
<1> SUFFICES ASSUME ~ThreadsShutdown PROVE Spec => NothingAfterClose
  OBVIOUS
<1>1. OpenInv /\ DownInv /\ [Next]_vars => [downs > 0 => UNCHANGED wire]_vars
  <2> SUFFICES ASSUME OpenInv, DownInv, Next, downs > 0
               PROVE  UNCHANGED wire
    BY DEF vars
  <2>1. TypeOK /\ m_state = "kDisconnected" /\ ~isWriting
    BY DEF OpenInv, DownInv, Down, isWriting
  <2>2. ASSUME NEW msg, sendInLoop(msg) PROVE UNCHANGED wire
    BY <2>1, <2>2 DEF sendInLoop
  <2>3. CASE LoopStep
    BY <2>1, <2>2, <2>3
       DEF LoopStep, poll, closeStage, errorStage, readStage, writeStage, swap, endBatch,
           connectEstablished, runSendInLoop, runShutdownInLoop, runCallback, connectDestoryed,
           disconnect, callbackReturns, kernelVars
  <2>4. CASE \/ pollOther \/ loopEnds
             \/ shutdown \/ removeConnectionInLoop \/ destroyServer
             \/ peerReads \/ peerSends \/ peerCloses \/ peerResets
    BY <2>1, <2>4 DEF pollOther, loopEnds, shutdown, removeConnectionInLoop, destroyServer,
                      peerReads, peerSends, peerCloses, peerResets, Environment, kernelVars
  <2>5. CASE \/ \E len \in Lens : send(len)
             \/ \E t \in Thread : \/ \E len \in Lens : threadSend(t, len)
                                  \/ threadShutdown(t) \/ threadSetState(t)
                                  \/ threadRunInLoop(t)
    BY <2>1, <2>5 DEF send, threadSend, SendCall, threadShutdown, threadSetState,
                      threadRunInLoop, kernelVars
  <2>. QED  BY <2>3, <2>4, <2>5 DEF Next
<1>2. Spec => [](OpenInv /\ DownInv)
  BY DownInductive
<1>. QED  BY <1>1, <1>2, PTL DEF Spec, NothingAfterClose

\* Unless ~TcpServer runs before, connectDestoryed takes the channel out of the poller for
\* good.
THEOREM GoneForGoodHolds == ~ThreadsShutdown /\ ~ServerDies => (Spec => []GoneForGood)
<1> SUFFICES ASSUME ~ThreadsShutdown, ~ServerDies PROVE Spec => []GoneForGood
  OBVIOUS
<1>1. OpenInv /\ DownInv => GoneForGood
  BY DEF DownInv, Serving, GoneForGood
<1>2. Spec => [](OpenInv /\ DownInv)
  BY DownInductive
<1>. QED  BY <1>1, <1>2, PTL

\* Unless ~TcpServer runs before, the user has all the input of a peer that closed before
\* he is told of the end.
THEOREM DataBeforeEndHolds == ~ThreadsShutdown /\ ~ServerDies => (Spec => []DataBeforeEnd)
<1> SUFFICES ASSUME ~ThreadsShutdown, ~ServerDies PROVE Spec => []DataBeforeEnd
  OBVIOUS
<1>1. OpenInv /\ DownInv => DataBeforeEnd
  BY DEF DownInv, Serving, DataBeforeEnd
<1>2. Spec => [](OpenInv /\ DownInv)
  BY DownInductive
<1>. QED  BY <1>1, <1>2, PTL
-----------------------------------------------------------------------------
\* The numbers of the bytes of s in x go up to n at most; there is none of s in x.
UpTo(s, x, n) == \A i \in 1 .. Len(x) : x[i].from = s => x[i].nr <= n
Free(s, x) == \A i \in 1 .. Len(x) : x[i].from # s

\* A sequence of bytes that were sent.
Clean(x) == \A i \in 1 .. Len(x) : x[i] # Junk

\* Where the elements of two sequences are in their concatenation.
LEMMA Places ==
  ASSUME NEW S, NEW x \in Seq(S), NEW y \in Seq(S)
  PROVE  /\ \A i \in 1 .. Len(x) : i \in 1 .. Len(x \o y) /\ (x \o y)[i] = x[i]
         /\ \A i \in 1 .. Len(y) : Len(x) + i \in 1 .. Len(x \o y) /\ (x \o y)[Len(x) + i] = y[i]
         /\ \A i \in 1 .. Len(x \o y) :
              \/ i \in 1 .. Len(x) /\ (x \o y)[i] = x[i]
              \/ i - Len(x) \in 1 .. Len(y) /\ (x \o y)[i] = y[i - Len(x)]
<1>1. /\ Len(x) \in Nat /\ Len(y) \in Nat /\ Len(x \o y) = Len(x) + Len(y)
      /\ \A i \in 1 .. Len(x) + Len(y) :
           (x \o y)[i] = IF i <= Len(x) THEN x[i] ELSE y[i - Len(x)]
  BY ConcatProperties, LenProperties
<1>2. ASSUME NEW i \in 1 .. Len(x) PROVE i \in 1 .. Len(x \o y) /\ (x \o y)[i] = x[i]
  BY <1>1
<1>3. ASSUME NEW i \in 1 .. Len(y)
      PROVE  Len(x) + i \in 1 .. Len(x \o y) /\ (x \o y)[Len(x) + i] = y[i]
  <2>1. /\ Len(x) + i \in 1 .. Len(x) + Len(y) /\ ~(Len(x) + i <= Len(x))
        /\ (Len(x) + i) - Len(x) = i
    BY <1>1
  <2>. QED  BY <1>1, <2>1
<1>4. ASSUME NEW i \in 1 .. Len(x \o y)
      PROVE  \/ i \in 1 .. Len(x) /\ (x \o y)[i] = x[i]
             \/ i - Len(x) \in 1 .. Len(y) /\ (x \o y)[i] = y[i - Len(x)]
  BY <1>1
<1>. QED  BY <1>2, <1>3, <1>4

\* Bytes put behind others.
LEMMA Joined ==
  ASSUME NEW s, NEW x \in Seq(Byte), NEW y \in Seq(Byte)
  PROVE  /\ Rising(s, x) /\ Rising(s, y) /\ Precedes(s, x, y) => Rising(s, x \o y)
         /\ \A z : Precedes(s, x, z) /\ Precedes(s, y, z) => Precedes(s, x \o y, z)
         /\ \A n : UpTo(s, x, n) /\ UpTo(s, y, n) => UpTo(s, x \o y, n)
         /\ \A n : Has(s, x \o y, n) <=> Has(s, x, n) \/ Has(s, y, n)
<1> DEFINE w == x \o y
<1>1. /\ \A i \in 1 .. Len(x) : i \in 1 .. Len(w) /\ w[i] = x[i]
      /\ \A i \in 1 .. Len(y) : Len(x) + i \in 1 .. Len(w) /\ w[Len(x) + i] = y[i]
      /\ \A i \in 1 .. Len(w) : \/ i \in 1 .. Len(x) /\ w[i] = x[i]
                                \/ i - Len(x) \in 1 .. Len(y) /\ w[i] = y[i - Len(x)]
      /\ Len(x) \in Nat /\ Len(y) \in Nat
  BY Places, LenProperties
<1> HIDE DEF w
<1>2. ASSUME Rising(s, x), Rising(s, y), Precedes(s, x, y) PROVE Rising(s, w)
  <2> SUFFICES ASSUME NEW i \in 1 .. Len(w), NEW j \in 1 .. Len(w), i < j,
                      w[i].from = s, w[j].from = s
               PROVE  w[i].nr < w[j].nr
    BY DEF Rising
  <2>1. CASE i \in 1 .. Len(x) /\ w[i] = x[i] /\ j \in 1 .. Len(x) /\ w[j] = x[j]
    BY <1>2, <2>1 DEF Rising
  <2>2. CASE /\ i \in 1 .. Len(x) /\ w[i] = x[i]
             /\ j - Len(x) \in 1 .. Len(y) /\ w[j] = y[j - Len(x)]
    BY <1>2, <2>2 DEF Precedes
  <2>3. CASE /\ i - Len(x) \in 1 .. Len(y) /\ w[i] = y[i - Len(x)]
             /\ j - Len(x) \in 1 .. Len(y) /\ w[j] = y[j - Len(x)]
    <3>1. i - Len(x) < j - Len(x)
      BY <1>1
    <3>. QED  BY <1>2, <2>3, <3>1 DEF Rising
  <2>4. ~(i - Len(x) \in 1 .. Len(y) /\ j \in 1 .. Len(x))
    BY <1>1
  <2>. QED  BY <1>1, <2>1, <2>2, <2>3, <2>4
<1>3. ASSUME NEW z, Precedes(s, x, z), Precedes(s, y, z) PROVE Precedes(s, w, z)
  <2> SUFFICES ASSUME NEW i \in 1 .. Len(w), NEW j \in 1 .. Len(z), w[i].from = s, z[j].from = s
               PROVE  w[i].nr < z[j].nr
    BY DEF Precedes
  <2>1. CASE i \in 1 .. Len(x) /\ w[i] = x[i]
    BY <1>3, <2>1 DEF Precedes
  <2>2. CASE i - Len(x) \in 1 .. Len(y) /\ w[i] = y[i - Len(x)]
    BY <1>3, <2>2 DEF Precedes
  <2>. QED  BY <1>1, <2>1, <2>2
<1>4. ASSUME NEW n, UpTo(s, x, n), UpTo(s, y, n) PROVE UpTo(s, w, n)
  <2> SUFFICES ASSUME NEW i \in 1 .. Len(w), w[i].from = s
               PROVE  w[i].nr <= n
    BY DEF UpTo
  <2>1. CASE i \in 1 .. Len(x) /\ w[i] = x[i]
    BY <1>4, <2>1 DEF UpTo
  <2>2. CASE i - Len(x) \in 1 .. Len(y) /\ w[i] = y[i - Len(x)]
    BY <1>4, <2>2 DEF UpTo
  <2>. QED  BY <1>1, <2>1, <2>2
<1>5. ASSUME NEW n PROVE Has(s, w, n) <=> Has(s, x, n) \/ Has(s, y, n)
  <2>1. ASSUME NEW i \in 1 .. Len(w), w[i].from = s, w[i].nr = n
        PROVE  Has(s, x, n) \/ Has(s, y, n)
    <3>1. CASE i \in 1 .. Len(x) /\ w[i] = x[i]
      BY <2>1, <3>1 DEF Has
    <3>2. CASE i - Len(x) \in 1 .. Len(y) /\ w[i] = y[i - Len(x)]
      BY <2>1, <3>2 DEF Has
    <3>. QED  BY <1>1, <3>1, <3>2
  <2>2. ASSUME NEW i \in 1 .. Len(x), x[i].from = s, x[i].nr = n PROVE Has(s, w, n)
    BY <1>1, <2>2 DEF Has
  <2>3. ASSUME NEW i \in 1 .. Len(y), y[i].from = s, y[i].nr = n PROVE Has(s, w, n)
    BY <1>1, <2>3 DEF Has
  <2>4. Has(s, w, n) => Has(s, x, n) \/ Has(s, y, n)
    BY <2>1 DEF Has
  <2>5. Has(s, x, n) \/ Has(s, y, n) => Has(s, w, n)
    BY <2>2, <2>3 DEF Has
  <2>. QED  BY <2>4, <2>5
<1>. QED  BY <1>2, <1>3, <1>4, <1>5 DEF w

\* Bytes of others than s.
LEMMA FreeOf ==
  ASSUME NEW s, NEW x, Free(s, x)
  PROVE  /\ Rising(s, x)
         /\ \A z : Precedes(s, x, z) /\ Precedes(s, z, x)
         /\ \A n : UpTo(s, x, n) /\ ~Has(s, x, n)
BY DEF Free, Rising, Precedes, UpTo, Has

\* The bytes 1 .. n of s, in order: first those in w, then in the functors of q, then in c.
InLine(s, w, q, c, n) ==
  /\ Rising(s, w) /\ Rising(s, c) /\ Precedes(s, w, c) /\ UpTo(s, w, n) /\ UpTo(s, c, n)
  /\ \A k \in 1 .. Len(q) : /\ Rising(s, q[k].msg) /\ Precedes(s, w, q[k].msg)
                            /\ Precedes(s, q[k].msg, c) /\ UpTo(s, q[k].msg, n)
  /\ \A k, l \in 1 .. Len(q) : k < l => Precedes(s, q[k].msg, q[l].msg)
  /\ \A m \in 1 .. n : Has(s, w, m) \/ Has(s, c, m) \/ \E k \in 1 .. Len(q) : Has(s, q[k].msg, m)

\* The first functor's message is written.
LEMMA LineRun ==
  ASSUME NEW s, NEW w \in Seq(Byte), NEW q \in Seq(Functor), q # << >>, NEW c, NEW n,
         InLine(s, w, q, c, n)
  PROVE  InLine(s, w \o Head(q).msg, Tail(q), c, n)
<1> DEFINE h == Head(q).msg
           t == Tail(q)
           v == w \o h
<1>1. /\ Len(q) \in Nat \ {0} /\ Len(t) = Len(q) - 1 /\ h = q[1].msg /\ 1 \in 1 .. Len(q)
      /\ \A k \in 1 .. Len(t) : t[k] = q[k + 1] /\ k + 1 \in 1 .. Len(q) /\ 1 < k + 1
  <2>1. /\ Len(q) \in Nat \ {0} /\ Len(t) = Len(q) - 1 /\ Head(q) = q[1]
        /\ \A k \in 1 .. Len(t) : t[k] = q[k + 1]
    BY HeadTailProperties, EmptySeq
  <2> HIDE DEF t
  <2>2. \A k \in 1 .. Len(t) : k + 1 \in 1 .. Len(q) /\ 1 < k + 1
    BY <2>1
  <2>. QED  BY <2>1, <2>2
<1>2. h \in Seq(Byte)
  <2>1. q[1] \in Functor
    BY <1>1, ElementOfSeq
  <2>2. q[1].msg \in Seq(Byte)
    BY <2>1 DEF Functor
  <2>. QED  BY <1>1, <2>2
<1>3. /\ Rising(s, w) /\ Rising(s, h) /\ Precedes(s, w, h) => Rising(s, v)
      /\ \A z : Precedes(s, w, z) /\ Precedes(s, h, z) => Precedes(s, v, z)
      /\ UpTo(s, w, n) /\ UpTo(s, h, n) => UpTo(s, v, n)
      /\ \A m : Has(s, v, m) <=> Has(s, w, m) \/ Has(s, h, m)
  BY <1>2, Joined
<1> HIDE DEF h, t, v
<1>4. Rising(s, v) /\ Rising(s, c) /\ Precedes(s, v, c) /\ UpTo(s, v, n) /\ UpTo(s, c, n)
  BY <1>1, <1>3 DEF InLine
<1>5. ASSUME NEW k \in 1 .. Len(t)
      PROVE  /\ Rising(s, t[k].msg) /\ Precedes(s, v, t[k].msg)
             /\ Precedes(s, t[k].msg, c) /\ UpTo(s, t[k].msg, n)
  <2>1. t[k] = q[k + 1] /\ k + 1 \in 1 .. Len(q) /\ 1 < k + 1
    BY <1>1
  <2>2. /\ Rising(s, q[k + 1].msg) /\ Precedes(s, w, q[k + 1].msg)
        /\ Precedes(s, q[k + 1].msg, c) /\ UpTo(s, q[k + 1].msg, n)
        /\ Precedes(s, h, q[k + 1].msg)
    BY <1>1, <2>1 DEF InLine
  <2>. QED  BY <1>3, <2>1, <2>2
<1>6. ASSUME NEW k \in 1 .. Len(t), NEW l \in 1 .. Len(t), k < l
      PROVE  Precedes(s, t[k].msg, t[l].msg)
  <2>1. /\ t[k] = q[k + 1] /\ k + 1 \in 1 .. Len(q)
        /\ t[l] = q[l + 1] /\ l + 1 \in 1 .. Len(q)
    BY <1>1
  <2>2. k + 1 < l + 1
    BY <1>6
  <2>. QED  BY <2>1, <2>2 DEF InLine
<1>7. ASSUME NEW m \in 1 .. n
      PROVE  Has(s, v, m) \/ Has(s, c, m) \/ \E k \in 1 .. Len(t) : Has(s, t[k].msg, m)
  <2>1. ASSUME NEW k \in 1 .. Len(q), Has(s, q[k].msg, m)
        PROVE  Has(s, v, m) \/ \E i \in 1 .. Len(t) : Has(s, t[i].msg, m)
    <3>1. CASE k = 1
      BY <1>1, <1>3, <2>1, <3>1
    <3>2. CASE k # 1
      <4>1. k - 1 \in 1 .. Len(t) /\ (k - 1) + 1 = k
        BY <1>1, <3>2
      <4>2. t[k - 1] = q[k]
        BY <1>1, <4>1
      <4>. QED  BY <2>1, <4>1, <4>2
    <3>. QED  BY <3>1, <3>2
  <2>2. Has(s, w, m) \/ Has(s, c, m) \/ \E k \in 1 .. Len(q) : Has(s, q[k].msg, m)
    BY DEF InLine
  <2>. QED  BY <1>3, <2>1, <2>2
<1>8. InLine(s, v, t, c, n)
  BY <1>4, <1>5, <1>6, <1>7 DEF InLine
<1>. QED  BY <1>8 DEF h, t, v

\* A functor is queued behind the others: the call of s itself, or one of another sender.
LEMMA LinePush ==
  ASSUME NEW s, NEW w, NEW q \in Seq(Functor), NEW f \in Functor, NEW c, NEW d, NEW n,
         InLine(s, w, q, c, n),
         \/ f.msg = c /\ Free(s, d)
         \/ Free(s, f.msg) /\ d = c
  PROVE  InLine(s, w, q \o <<f>>, d, n)
<1> DEFINE p == q \o <<f>>
           last == Len(q) + 1
<1>1. <<f>> \in Seq(Functor) /\ Len(<<f>>) = 1 /\ <<f>>[1] = f /\ Len(q) \in Nat
  BY LenProperties
<1>2. /\ Len(p) = Len(q) + 1 /\ p[last] = f /\ last \in 1 .. Len(p)
      /\ \A k \in 1 .. Len(q) : p[k] = q[k] /\ k \in 1 .. Len(p) /\ k < last
      /\ \A k \in 1 .. Len(p) : k \in 1 .. Len(q) \/ k = last
  BY <1>1, ConcatProperties
<1> HIDE DEF p, last
<1>3. \A z : Free(s, z) => /\ Rising(s, z) /\ UpTo(s, z, n)
                           /\ \A y : Precedes(s, z, y) /\ Precedes(s, y, z)
  BY FreeOf
<1>4. /\ Rising(s, d) /\ Precedes(s, w, d) /\ UpTo(s, d, n)
      /\ Rising(s, f.msg) /\ Precedes(s, w, f.msg) /\ UpTo(s, f.msg, n) /\ Precedes(s, f.msg, d)
      /\ \A k \in 1 .. Len(q) : Precedes(s, q[k].msg, f.msg) /\ Precedes(s, q[k].msg, d)
  <2>1. CASE f.msg = c /\ Free(s, d)
    BY <1>3, <2>1 DEF InLine
  <2>2. CASE Free(s, f.msg) /\ d = c
    BY <1>3, <2>2 DEF InLine
  <2>. QED  BY <2>1, <2>2
<1>5. Rising(s, w) /\ UpTo(s, w, n)
  BY DEF InLine
<1>6. ASSUME NEW k \in 1 .. Len(p)
      PROVE  /\ Rising(s, p[k].msg) /\ Precedes(s, w, p[k].msg)
             /\ Precedes(s, p[k].msg, d) /\ UpTo(s, p[k].msg, n)
  <2>1. CASE k \in 1 .. Len(q)
    BY <1>2, <1>4, <2>1 DEF InLine
  <2>2. CASE k = last
    BY <1>2, <1>4, <2>2
  <2>. QED  BY <1>2, <2>1, <2>2
<1>7. ASSUME NEW k \in 1 .. Len(p), NEW l \in 1 .. Len(p), k < l
      PROVE  Precedes(s, p[k].msg, p[l].msg)
  <2>1. k \in 1 .. Len(q)
    BY <1>1, <1>2, <1>7 DEF last
  <2>2. CASE l \in 1 .. Len(q)
    BY <1>2, <1>7, <2>1, <2>2 DEF InLine
  <2>3. CASE l = last
    BY <1>2, <1>4, <2>1, <2>3
  <2>. QED  BY <1>2, <2>2, <2>3
<1>8. ASSUME NEW m \in 1 .. n
      PROVE  Has(s, w, m) \/ Has(s, d, m) \/ \E k \in 1 .. Len(p) : Has(s, p[k].msg, m)
  <2>1. Has(s, c, m) => Has(s, d, m) \/ Has(s, f.msg, m)
    OBVIOUS
  <2>2. Has(s, f.msg, m) => \E k \in 1 .. Len(p) : Has(s, p[k].msg, m)
    BY <1>2
  <2>3. ASSUME NEW k \in 1 .. Len(q), Has(s, q[k].msg, m)
        PROVE  \E l \in 1 .. Len(p) : Has(s, p[l].msg, m)
    BY <1>2, <2>3
  <2>4. Has(s, w, m) \/ Has(s, c, m) \/ \E k \in 1 .. Len(q) : Has(s, q[k].msg, m)
    BY DEF InLine
  <2>. QED  BY <2>1, <2>2, <2>3, <2>4
<1>9. InLine(s, w, p, d, n)
  BY <1>4, <1>5, <1>6, <1>7, <1>8 DEF InLine
<1>. QED  BY <1>9 DEF p

\* What is written at once, ahead of a queue that has nothing of its sender's.
LEMMA LineWrite ==
  ASSUME NEW s, NEW w \in Seq(Byte), NEW q, NEW y \in Seq(Byte), NEW c, NEW d, NEW n,
         InLine(s, w, q, c, n),
         \/ Free(s, y) /\ d = c
         \/ y = c /\ Free(s, d) /\ \A k \in 1 .. Len(q) : Free(s, q[k].msg)
  PROVE  InLine(s, w \o y, q, d, n)
<1> DEFINE v == w \o y
<1>1. /\ Rising(s, w) /\ Rising(s, y) /\ Precedes(s, w, y) => Rising(s, v)
      /\ \A z : Precedes(s, w, z) /\ Precedes(s, y, z) => Precedes(s, v, z)
      /\ UpTo(s, w, n) /\ UpTo(s, y, n) => UpTo(s, v, n)
      /\ \A m : Has(s, v, m) <=> Has(s, w, m) \/ Has(s, y, m)
  BY Joined
<1> HIDE DEF v
<1>2. \A z : Free(s, z) => /\ Rising(s, z) /\ UpTo(s, z, n)
                           /\ \A x : Precedes(s, z, x) /\ Precedes(s, x, z)
  BY FreeOf
<1>3. ASSUME Free(s, y), d = c PROVE InLine(s, v, q, d, n)
  <2>1. /\ Rising(s, y) /\ UpTo(s, y, n)
        /\ \A x : Precedes(s, y, x) /\ Precedes(s, x, y)
    BY <1>2, <1>3
  <2>. QED  BY <1>1, <1>3, <2>1 DEF InLine
<1>4. ASSUME y = c, Free(s, d), \A k \in 1 .. Len(q) : Free(s, q[k].msg)
      PROVE  InLine(s, v, q, d, n)
  <2>1. /\ Rising(s, d) /\ UpTo(s, d, n) /\ Precedes(s, v, d)
        /\ \A k \in 1 .. Len(q) : Precedes(s, v, q[k].msg) /\ Precedes(s, q[k].msg, d)
    BY <1>2, <1>4
  <2>2. Rising(s, v) /\ UpTo(s, v, n)
    BY <1>1, <1>4 DEF InLine
  <2>3. \A m \in 1 .. n : Has(s, v, m) \/ Has(s, d, m) \/ \E k \in 1 .. Len(q) : Has(s, q[k].msg, m)
    BY <1>1, <1>4 DEF InLine
  <2>. QED  BY <2>1, <2>2, <2>3 DEF InLine
<1>5. InLine(s, v, q, d, n)
  BY <1>3, <1>4
<1>. QED  BY <1>5 DEF v

\* A message as send makes it: len bytes of s, numbered on from n.
Fresh(s, n, len) == [i \in 1 .. len |-> [from |-> s, nr |-> n + i]]

\* It comes after all that s has sent, and is not another sender's.
LEMMA FreshFollows ==
  ASSUME NEW s \in Sender, NEW n \in Nat, NEW len \in Nat
  PROVE  /\ Rising(s, Fresh(s, n, len)) /\ UpTo(s, Fresh(s, n, len), n + len)
         /\ \A m \in n + 1 .. n + len : Has(s, Fresh(s, n, len), m)
         /\ \A x \in Seq(Byte) : UpTo(s, x, n) => /\ Precedes(s, x, Fresh(s, n, len))
                                                  /\ UpTo(s, x, n + len)
         /\ \A z : z # s => Free(z, Fresh(s, n, len))
         /\ Clean(Fresh(s, n, len))
<1> DEFINE m == Fresh(s, n, len)
<1>1. Len(m) = len /\ \A i \in 1 .. len : m[i].from = s /\ m[i].nr = n + i
  BY DEF Fresh
<1> HIDE DEF m
<1>2. Rising(s, m)
  BY <1>1 DEF Rising
<1>3. UpTo(s, m, n + len)
  BY <1>1 DEF UpTo
<1>4. ASSUME NEW k \in n + 1 .. n + len PROVE Has(s, m, k)
  <2>1. k - n \in 1 .. len /\ n + (k - n) = k
    OBVIOUS
  <2>. QED  BY <1>1, <2>1 DEF Has
<1>5. ASSUME NEW x \in Seq(Byte), UpTo(s, x, n)
      PROVE  Precedes(s, x, m) /\ UpTo(s, x, n + len)
  <2>1. ASSUME NEW i \in 1 .. Len(x), x[i].from = s
        PROVE  x[i].nr \in Int /\ x[i].nr <= n
    <3>1. x[i] \in Byte
      BY ElementOfSeq
    <3>2. x[i].nr \in Int
      BY <3>1, BoundAssumption DEF Byte, Junk
    <3>. QED  BY <1>5, <2>1, <3>2 DEF UpTo
  <2>2. Precedes(s, x, m)
    <3> SUFFICES ASSUME NEW i \in 1 .. Len(x), NEW j \in 1 .. Len(m), x[i].from = s
                 PROVE  x[i].nr < m[j].nr
      BY DEF Precedes
    <3>1. j \in Nat /\ j > 0 /\ m[j].nr = n + j
      BY <1>1
    <3>. QED  BY <2>1, <3>1
  <2>3. UpTo(s, x, n + len)
    <3> SUFFICES ASSUME NEW i \in 1 .. Len(x), x[i].from = s
                 PROVE  x[i].nr <= n + len
      BY DEF UpTo
    <3>. QED  BY <2>1
  <2>. QED  BY <2>2, <2>3
<1>6. ASSUME NEW z, z # s PROVE Free(z, m)
  BY <1>1, <1>6 DEF Free
<1>7. Clean(m)
  <2>1. \A i \in 1 .. len : m[i].nr # Junk.nr
    BY <1>1 DEF Junk
  <2>. QED  BY <1>1, <2>1 DEF Clean
<1>. QED  BY <1>2, <1>3, <1>4, <1>5, <1>6, <1>7 DEF m

\* A sender without a call calls send.
LEMMA LineAccept ==
  ASSUME NEW s \in Sender, NEW w \in Seq(Byte), NEW q \in Seq(Functor), NEW n \in Nat,
         NEW len \in Nat, InLine(s, w, q, << >>, n)
  PROVE  InLine(s, w, q, Fresh(s, n, len), n + len)
<1> DEFINE m == Fresh(s, n, len)
<1>1. /\ Rising(s, m) /\ UpTo(s, m, n + len)
      /\ \A k \in n + 1 .. n + len : Has(s, m, k)
      /\ \A x \in Seq(Byte) : UpTo(s, x, n) => Precedes(s, x, m) /\ UpTo(s, x, n + len)
  BY FreshFollows
<1> HIDE DEF m
<1>2. \A k \in 1 .. Len(q) : q[k].msg \in Seq(Byte)
  <2>1. \A k \in 1 .. Len(q) : q[k] \in Functor
    BY ElementOfSeq
  <2>. QED  BY <2>1 DEF Functor
<1>3. Rising(s, w) /\ Precedes(s, w, m) /\ UpTo(s, w, n + len)
  BY <1>1 DEF InLine
<1>4. ASSUME NEW k \in 1 .. Len(q)
      PROVE  /\ Rising(s, q[k].msg) /\ Precedes(s, w, q[k].msg)
             /\ Precedes(s, q[k].msg, m) /\ UpTo(s, q[k].msg, n + len)
  BY <1>1, <1>2 DEF InLine
<1>5. \A k, l \in 1 .. Len(q) : k < l => Precedes(s, q[k].msg, q[l].msg)
  BY DEF InLine
<1>6. ASSUME NEW j \in 1 .. n + len
      PROVE  Has(s, w, j) \/ Has(s, m, j) \/ \E k \in 1 .. Len(q) : Has(s, q[k].msg, j)
  <2>1. CASE j <= n
    <3>1. j \in 1 .. n
      BY <2>1
    <3>2. ~Has(s, << >>, j)
      BY DEF Has
    <3>. QED  BY <3>1, <3>2 DEF InLine
  <2>2. CASE ~(j <= n)
    BY <1>1, <2>2
  <2>. QED  BY <2>1, <2>2
<1>7. InLine(s, w, q, m, n + len)
  BY <1>1, <1>3, <1>4, <1>5, <1>6 DEF InLine
<1>. QED  BY <1>7 DEF m

\* A functor is taken from the front of the queue though part of it is not swapped out yet.
LEMMA TailOfConcat ==
  ASSUME NEW S, NEW x \in Seq(S), NEW y \in Seq(S), x # << >>
  PROVE  x \o y # << >> /\ Head(x \o y) = Head(x) /\ Tail(x \o y) = Tail(x) \o y
<1>1. /\ Len(x) \in Nat \ {0} /\ Len(y) \in Nat /\ x \o y \in Seq(S)
      /\ Len(x \o y) = Len(x) + Len(y)
      /\ \A i \in 1 .. Len(x) + Len(y) :
           (x \o y)[i] = IF i <= Len(x) THEN x[i] ELSE y[i - Len(x)]
  BY ConcatProperties, LenProperties, EmptySeq
<1>2. x \o y # << >>
  BY <1>1, EmptySeq
<1>3. Head(x \o y) = Head(x)
  BY <1>1
<1>4. /\ Tail(x) \in Seq(S) /\ Len(Tail(x)) = Len(x) - 1
      /\ \A i \in 1 .. Len(x) - 1 : Tail(x)[i] = x[i + 1]
  BY HeadTailProperties
<1>5. /\ Tail(x \o y) \in Seq(S) /\ Len(Tail(x \o y)) = Len(x) + Len(y) - 1
      /\ \A i \in 1 .. Len(x) + Len(y) - 1 : Tail(x \o y)[i] = (x \o y)[i + 1]
  BY <1>1, <1>2, HeadTailProperties
<1>6. /\ Tail(x) \o y \in Seq(S) /\ Len(Tail(x) \o y) = (Len(x) - 1) + Len(y)
      /\ \A i \in 1 .. (Len(x) - 1) + Len(y) :
           (Tail(x) \o y)[i] = IF i <= Len(x) - 1 THEN Tail(x)[i] ELSE y[i - (Len(x) - 1)]
  <2> DEFINE t == Tail(x)
  <2>1. t \in Seq(S) /\ Len(t) = Len(x) - 1
    BY <1>4
  <2> HIDE DEF t
  <2>2. /\ t \o y \in Seq(S) /\ Len(t \o y) = Len(t) + Len(y)
        /\ \A i \in 1 .. Len(t) + Len(y) : (t \o y)[i] = IF i <= Len(t) THEN t[i] ELSE y[i - Len(t)]
    BY <2>1, ConcatProperties
  <2>. QED  BY <2>1, <2>2 DEF t
<1>7. ASSUME NEW i \in 1 .. Len(x) + Len(y) - 1
      PROVE  Tail(x \o y)[i] = (Tail(x) \o y)[i]
  <2>1. i + 1 \in 1 .. Len(x) + Len(y) /\ i \in 1 .. (Len(x) - 1) + Len(y)
    BY <1>1
  <2>2. CASE i <= Len(x) - 1
    <3>1. i + 1 <= Len(x) /\ i \in 1 .. Len(x) - 1
      BY <1>1, <2>2
    <3>. QED  BY <1>1, <1>4, <1>5, <1>6, <2>1, <2>2, <3>1
  <2>3. CASE ~(i <= Len(x) - 1)
    <3>1. ~(i + 1 <= Len(x)) /\ (i + 1) - Len(x) = i - (Len(x) - 1)
      BY <1>1, <2>3
    <3>. QED  BY <1>1, <1>5, <1>6, <2>1, <2>3, <3>1
  <2>. QED  BY <2>2, <2>3
<1>8. Tail(x \o y) = Tail(x) \o y
  <2> DEFINE a == Tail(x \o y)
             b == Tail(x) \o y
  <2>1. /\ a \in Seq(S) /\ b \in Seq(S) /\ Len(a) = Len(b)
        /\ \A i \in 1 .. Len(a) : a[i] = b[i]
    BY <1>1, <1>5, <1>6, <1>7
  <2> HIDE DEF a, b
  <2>2. a = b
    BY <2>1, SeqEqual
  <2>. QED  BY <2>2 DEF a, b
<1>. QED  BY <1>2, <1>3, <1>8
-----------------------------------------------------------------------------
\* A queued functor that sends has a message of other threads; the others have none.
Carried(f) == IF f.run = "sendInLoop"
                THEN /\ f.msg # << >> /\ Clean(f.msg)
                     /\ \A i \in 1 .. Len(f.msg) : f.msg[i].from \in Thread
                ELSE f.msg = << >>
AllCarried(q) == \A k \in 1 .. Len(q) : Carried(q[k])

\* What Warned says of a queue and the notice called last.
WarnedBy(q, last) ==
  \/ \E i \in 1 .. Len(q) : /\ q[i].run = "highWaterMark"
                            /\ \A j \in i + 1 .. Len(q) : q[j].run # "writeComplete"
  \/ last = "highWaterMark" /\ \A i \in 1 .. Len(q) : q[i].run # "writeComplete"

\* The functors without a message.
LEMMA Plain ==
  /\ \A f \in {Established, Destoryed, Shutdown, WriteComplete, HighWater} :
       f \in Functor /\ Carried(f) /\ f.msg = << >>
  /\ Carried(None) /\ Carried(Checked) /\ None.msg = << >> /\ Checked.msg = << >>
  /\ \A s : Free(s, << >>)
<1>1. \A f \in {Established, Destoryed, Shutdown, WriteComplete, HighWater} : f \in Functor
  BY Functors
<1>2. \A f \in {Established, Destoryed, Shutdown, WriteComplete, HighWater} :
        Carried(f) /\ f.msg = << >>
  BY DEF Established, Destoryed, Shutdown, WriteComplete, HighWater, Carried
<1>3. Carried(None) /\ Carried(Checked) /\ None.msg = << >> /\ Checked.msg = << >>
  BY DEF None, Checked, Carried
<1>4. \A s : Free(s, << >>)
  BY DEF Free
<1>. QED  BY <1>1, <1>2, <1>3, <1>4

\* A functor is taken from the front.
LEMMA Taken ==
  ASSUME NEW q \in Seq(Functor), q # << >>, AllCarried(q)
  PROVE  Carried(Head(q)) /\ AllCarried(Tail(q))
<1>1. /\ Len(q) \in Nat \ {0} /\ Len(Tail(q)) = Len(q) - 1 /\ Head(q) = q[1]
      /\ \A k \in 1 .. Len(Tail(q)) : Tail(q)[k] = q[k + 1]
  BY HeadTailProperties, EmptySeq
<1>2. 1 \in 1 .. Len(q) /\ \A k \in 1 .. Len(Tail(q)) : k + 1 \in 1 .. Len(q)
  BY <1>1
<1>. QED  BY <1>1, <1>2 DEF AllCarried

\* A notice called was the last one of all as long as none follows it in the queue.
LEMMA WarnedTaken ==
  ASSUME NEW q \in Seq(Functor), q # << >>, NEW last
  PROVE  LET next == IF Head(q).run \in {"writeComplete", "highWaterMark"} THEN Head(q).run ELSE last
         IN  WarnedBy(Tail(q), next) <=> WarnedBy(q, last)
<1> DEFINE next == IF Head(q).run \in {"writeComplete", "highWaterMark"} THEN Head(q).run ELSE last
           t == Tail(q)
<1>1. /\ Len(q) \in Nat \ {0} /\ Len(t) = Len(q) - 1 /\ Head(q) = q[1]
      /\ \A k \in 1 .. Len(t) : t[k] = q[k + 1]
  BY HeadTailProperties, EmptySeq
<1>2. /\ q[1].run = "writeComplete" => next = "writeComplete"
      /\ q[1].run = "highWaterMark" => next = "highWaterMark"
      /\ q[1].run \notin {"writeComplete", "highWaterMark"} => next = last
  BY <1>1
<1> HIDE DEF next, t
<1>3. \A k \in 1 .. Len(t) : k + 1 \in 1 .. Len(q)
  BY <1>1
<1>4. \A k \in 1 .. Len(q) : k = 1 \/ (k - 1 \in 1 .. Len(t) /\ q[k] = t[k - 1])
  <2> SUFFICES ASSUME NEW k \in 1 .. Len(q), k # 1
               PROVE  k - 1 \in 1 .. Len(t) /\ q[k] = t[k - 1]
    OBVIOUS
  <2>1. k - 1 \in 1 .. Len(t) /\ (k - 1) + 1 = k
    BY <1>1
  <2>. QED  BY <1>1, <2>1
\* No notice that all is written in t, and in q.
<1>5. (\A i \in 1 .. Len(q) : q[i].run # "writeComplete")
        <=> q[1].run # "writeComplete" /\ \A i \in 1 .. Len(t) : t[i].run # "writeComplete"
  <2>1. 1 \in 1 .. Len(q)
    BY <1>1
  <2>2. ASSUME \A i \in 1 .. Len(q) : q[i].run # "writeComplete"
        PROVE  \A i \in 1 .. Len(t) : t[i].run # "writeComplete"
    BY <1>1, <1>3, <2>2
  <2>3. ASSUME q[1].run # "writeComplete", \A i \in 1 .. Len(t) : t[i].run # "writeComplete",
               NEW i \in 1 .. Len(q)
        PROVE  q[i].run # "writeComplete"
    BY <1>4, <2>3
  <2>. QED  BY <2>1, <2>2, <2>3
<1>6. ASSUME NEW i \in 1 .. Len(t),
             \A j \in i + 1 .. Len(t) : t[j].run # "writeComplete"
      PROVE  \A j \in (i + 1) + 1 .. Len(q) : q[j].run # "writeComplete"
  <2> SUFFICES ASSUME NEW j \in (i + 1) + 1 .. Len(q)
               PROVE  q[j].run # "writeComplete"
    OBVIOUS
  <2>1. j \in 1 .. Len(q) /\ j # 1 /\ j - 1 \in i + 1 .. Len(t)
    BY <1>1
  <2>. QED  BY <1>4, <1>6, <2>1
<1>7. ASSUME NEW i \in 1 .. Len(t),
             \A j \in (i + 1) + 1 .. Len(q) : q[j].run # "writeComplete"
      PROVE  \A j \in i + 1 .. Len(t) : t[j].run # "writeComplete"
  <2> SUFFICES ASSUME NEW j \in i + 1 .. Len(t)
               PROVE  t[j].run # "writeComplete"
    OBVIOUS
  <2>1. j + 1 \in (i + 1) + 1 .. Len(q) /\ j \in 1 .. Len(t)
    BY <1>1
  <2>. QED  BY <1>1, <1>7, <2>1
<1>8. ASSUME WarnedBy(t, next) PROVE WarnedBy(q, last)
  <2>1. ASSUME NEW i \in 1 .. Len(t), t[i].run = "highWaterMark",
               \A j \in i + 1 .. Len(t) : t[j].run # "writeComplete"
        PROVE  WarnedBy(q, last)
    <3>1. \A j \in (i + 1) + 1 .. Len(q) : q[j].run # "writeComplete"
      BY <1>6, <2>1
    <3>2. i + 1 \in 1 .. Len(q) /\ q[i + 1].run = "highWaterMark"
      BY <1>1, <1>3, <2>1
    <3>. QED  BY <3>1, <3>2 DEF WarnedBy
  <2>2. ASSUME next = "highWaterMark", \A i \in 1 .. Len(t) : t[i].run # "writeComplete"
        PROVE  WarnedBy(q, last)
    <3>1. q[1].run # "writeComplete"
      BY <1>2, <2>2
    <3>2. \A i \in 1 .. Len(q) : q[i].run # "writeComplete"
      BY <1>5, <2>2, <3>1
    <3>3. CASE last = "highWaterMark"
      BY <3>2, <3>3 DEF WarnedBy
    <3>4. CASE q[1].run = "highWaterMark"
      <4>1. 1 \in 1 .. Len(q) /\ \A j \in 1 + 1 .. Len(q) : j \in 1 .. Len(q)
        BY <1>1
      <4>. QED  BY <3>2, <3>4, <4>1 DEF WarnedBy
    <3>. QED  BY <1>2, <2>2, <3>1, <3>3, <3>4
  <2>. QED  BY <1>8, <2>1, <2>2 DEF WarnedBy
<1>9. ASSUME WarnedBy(q, last) PROVE WarnedBy(t, next)
  <2>1. ASSUME NEW i \in 1 .. Len(q), q[i].run = "highWaterMark",
               \A j \in i + 1 .. Len(q) : q[j].run # "writeComplete"
        PROVE  WarnedBy(t, next)
    <3>1. CASE i = 1
      <4>1. next = "highWaterMark"
        BY <1>2, <2>1, <3>1
      <4>2. \A k \in 1 .. Len(t) : t[k].run # "writeComplete"
        <5> SUFFICES ASSUME NEW k \in 1 .. Len(t) PROVE t[k].run # "writeComplete"
          OBVIOUS
        <5>1. k + 1 \in i + 1 .. Len(q)
          BY <1>1, <3>1
        <5>. QED  BY <1>1, <2>1, <5>1
      <4>. QED  BY <4>1, <4>2 DEF WarnedBy
    <3>2. CASE i # 1
      <4>1. i - 1 \in 1 .. Len(t) /\ q[i] = t[i - 1] /\ (i - 1) + 1 = i
        BY <1>4, <3>2
      <4>2. \A j \in ((i - 1) + 1) + 1 .. Len(q) : q[j].run # "writeComplete"
        BY <2>1, <4>1
      <4>3. \A j \in (i - 1) + 1 .. Len(t) : t[j].run # "writeComplete"
        BY <1>7, <4>1, <4>2
      <4>. QED  BY <2>1, <4>1, <4>3 DEF WarnedBy
    <3>. QED  BY <3>1, <3>2
  <2>2. ASSUME last = "highWaterMark", \A i \in 1 .. Len(q) : q[i].run # "writeComplete"
        PROVE  WarnedBy(t, next)
    <3>1. q[1].run # "writeComplete" /\ \A i \in 1 .. Len(t) : t[i].run # "writeComplete"
      BY <1>5, <2>2
    <3>2. next = "highWaterMark"
      BY <1>2, <2>2, <3>1
    <3>. QED  BY <3>1, <3>2 DEF WarnedBy
  <2>. QED  BY <1>9, <2>1, <2>2 DEF WarnedBy
<1>. QED  BY <1>8, <1>9 DEF next, t

\* A functor is queued behind the others.
LEMMA Put ==
  ASSUME NEW q \in Seq(Functor), NEW f \in Functor
  PROVE  /\ AllCarried(q) /\ Carried(f) => AllCarried(q \o <<f>>)
         /\ \A last :
              /\ f.run = "writeComplete" => ~WarnedBy(q \o <<f>>, last)
              /\ f.run = "highWaterMark" => WarnedBy(q \o <<f>>, last)
              /\ f.run \notin {"writeComplete", "highWaterMark"} =>
                   (WarnedBy(q \o <<f>>, last) <=> WarnedBy(q, last))
<1> DEFINE p == q \o <<f>>
           end == Len(q) + 1
<1>1. <<f>> \in Seq(Functor) /\ Len(<<f>>) = 1 /\ <<f>>[1] = f /\ Len(q) \in Nat
  BY LenProperties
<1>2. /\ Len(p) = Len(q) + 1 /\ p[end] = f /\ end \in 1 .. Len(p)
      /\ \A k \in 1 .. Len(q) : p[k] = q[k] /\ k \in 1 .. Len(p) /\ k < end
      /\ \A k \in 1 .. Len(p) : k \in 1 .. Len(q) \/ k = end
  BY <1>1, ConcatProperties
<1> HIDE DEF p
<1>3. AllCarried(q) /\ Carried(f) => AllCarried(p)
  BY <1>2 DEF AllCarried
<1>4. ASSUME NEW last, f.run = "writeComplete" PROVE ~WarnedBy(p, last)
  <2>1. \A i \in 1 .. Len(p) : p[i].run = "highWaterMark" => end \in i + 1 .. Len(p)
    BY <1>1, <1>2, <1>4
  <2>. QED  BY <1>2, <1>4, <2>1 DEF WarnedBy
<1>5. ASSUME NEW last, f.run = "highWaterMark" PROVE WarnedBy(p, last)
  <2>1. \A j \in end + 1 .. Len(p) : FALSE
    BY <1>1, <1>2
  <2>. QED  BY <1>2, <1>5, <2>1 DEF WarnedBy
<1>6. ASSUME NEW last, f.run \notin {"writeComplete", "highWaterMark"}
      PROVE  WarnedBy(p, last) <=> WarnedBy(q, last)
  <2>1. (\A i \in 1 .. Len(p) : p[i].run # "writeComplete")
          <=> \A i \in 1 .. Len(q) : q[i].run # "writeComplete"
    BY <1>2, <1>6
  <2>2. ASSUME NEW i \in 1 .. Len(q)
        PROVE  (\A j \in i + 1 .. Len(p) : p[j].run # "writeComplete")
                 <=> \A j \in i + 1 .. Len(q) : q[j].run # "writeComplete"
    <3>1. \A j \in i + 1 .. Len(p) : j \in i + 1 .. Len(q) \/ j = end
      BY <1>1, <1>2
    <3>2. \A j \in i + 1 .. Len(q) : j \in 1 .. Len(q) /\ j \in i + 1 .. Len(p)
      BY <1>1, <1>2
    <3>. QED  BY <1>2, <1>6, <3>1, <3>2
  <2>3. (\E i \in 1 .. Len(p) : /\ p[i].run = "highWaterMark"
                                /\ \A j \in i + 1 .. Len(p) : p[j].run # "writeComplete")
          <=> \E i \in 1 .. Len(q) : /\ q[i].run = "highWaterMark"
                                     /\ \A j \in i + 1 .. Len(q) : q[j].run # "writeComplete"
    <3>1. \A i \in 1 .. Len(p) : p[i].run = "highWaterMark" => i \in 1 .. Len(q) /\ p[i] = q[i]
      BY <1>2, <1>6
    <3>2. \A i \in 1 .. Len(q) : i \in 1 .. Len(p) /\ p[i] = q[i]
      BY <1>2
    <3>. QED  BY <2>2, <3>1, <3>2
  <2>. QED  BY <2>1, <2>3 DEF WarnedBy
<1>. QED  BY <1>3, <1>4, <1>5, <1>6 DEF p
-----------------------------------------------------------------------------
\* How the queue changes: functors are put behind, and one may be taken from the batch.
LEMMA QueueShape ==
  ASSUME TypeOK, NEW r \in Seq(Functor), pending' = pending \o r
  PROVE  /\ Queue \in Seq(Functor)
         /\ batch' = batch => Queue' = Queue \o r
         /\ batch # << >> /\ batch' = Tail(batch) =>
              /\ Queue # << >> /\ Head(Queue) = Head(batch) /\ Tail(Queue) \in Seq(Functor)
              /\ Queue' = Tail(Queue) \o r
<1>1. batch \in Seq(Functor) /\ pending \in Seq(Functor)
  BY DEF TypeOK
<1>2. Queue = batch \o pending /\ Queue' = batch' \o (pending \o r)
  BY DEF Queue
<1>3. Queue \in Seq(Functor)
  BY <1>1, <1>2, ConcatProperties
<1>4. ASSUME batch' = batch PROVE Queue' = Queue \o r
  <2>1. batch \o (pending \o r) = (batch \o pending) \o r
    BY <1>1, ConcatAssociative
  <2>. QED  BY <1>2, <1>4, <2>1
<1>5. ASSUME batch # << >>, batch' = Tail(batch)
      PROVE  /\ Queue # << >> /\ Head(Queue) = Head(batch) /\ Tail(Queue) \in Seq(Functor)
             /\ Queue' = Tail(Queue) \o r
  <2>1. Tail(batch) \in Seq(Functor)
    BY <1>1, <1>5, HeadTailProperties
  <2>2. Queue # << >> /\ Head(Queue) = Head(batch) /\ Tail(Queue) = Tail(batch) \o pending
    BY <1>1, <1>2, <1>5, TailOfConcat
  <2>3. Tail(batch) \o (pending \o r) = (Tail(batch) \o pending) \o r
    BY <1>1, <2>1, ConcatAssociative
  <2>4. Tail(Queue) \in Seq(Functor)
    BY <1>1, <2>1, <2>2, ConcatProperties
  <2>5. Queue' = Tail(batch) \o (pending \o r)
    BY <1>2, <1>5
  <2>. QED  BY <2>2, <2>3, <2>4, <2>5
<1>. QED  BY <1>3, <1>4, <1>5

\* Functors without a message disturb no line.
Others == {<< >>, <<WriteComplete>>, <<HighWater>>, <<Destoryed>>}

LEMMA OthersPut ==
  ASSUME NEW q \in Seq(Functor), NEW r \in Others
  PROVE  /\ r \in Seq(Functor)
         /\ AllCarried(q) => AllCarried(q \o r)
         /\ \A s, w, c, n : InLine(s, w, q, c, n) => InLine(s, w, q \o r, c, n)
<1>1. CASE r = << >>
  BY <1>1, EmptySeq, ConcatEmptySeq
<1>2. ASSUME NEW f \in {WriteComplete, HighWater, Destoryed}, r = <<f>>
      PROVE  /\ r \in Seq(Functor)
             /\ AllCarried(q) => AllCarried(q \o r)
             /\ \A s, w, c, n : InLine(s, w, q, c, n) => InLine(s, w, q \o r, c, n)
  <2>1. f \in Functor /\ Carried(f) /\ \A s : Free(s, f.msg)
    BY Plain
  <2>2. <<f>> \in Seq(Functor)
    BY <2>1
  <2>3. AllCarried(q) => AllCarried(q \o <<f>>)
    BY <2>1, Put
  <2>4. ASSUME NEW s, NEW w, NEW c, NEW n, InLine(s, w, q, c, n)
        PROVE  InLine(s, w, q \o <<f>>, c, n)
    BY <2>1, <2>4, LinePush
  <2>. QED  BY <1>2, <2>2, <2>3, <2>4
<1>. QED  BY <1>1, <1>2 DEF Others

\* What a step does to the buffer and to the notices that it queues.
Fits(r) ==
  \/ r = <<WriteComplete>> /\ output' = << >>
  \/ r = <<HighWater>> /\ output' # << >>
  \/ /\ r = << >>
     /\ Len(output') >= HighWaterMark => Len(output) >= HighWaterMark
     /\ output # << >> => output' # << >>

\* A step that does so keeps the flow controlled.
LEMMA FlowStep ==
  ASSUME FlowControl, NEW q \in Seq(Functor), NEW r, Fits(r), Queue' = q \o r,
         WarnedBy(q, notice') <=> WarnedBy(Queue, notice)
  PROVE  FlowControl'
<1>1. (Warned <=> WarnedBy(Queue, notice)) /\ (Warned' <=> WarnedBy(Queue', notice'))
  BY DEF Warned, WarnedBy
<1>2. CASE r = <<WriteComplete>> /\ output' = << >>
  <2>1. WriteComplete \in Functor /\ WriteComplete.run = "writeComplete"
    BY Functors DEF WriteComplete
  <2>2. ~WarnedBy(q \o <<WriteComplete>>, notice')
    BY <2>1, Put
  <2>3. ~(Len(output') >= HighWaterMark)
    BY <1>2, EmptySeq, BoundAssumption
  <2>. QED  BY <1>1, <1>2, <2>2, <2>3 DEF FlowControl
<1>3. CASE r = <<HighWater>> /\ output' # << >>
  <2>1. HighWater \in Functor /\ HighWater.run = "highWaterMark"
    BY Functors DEF HighWater
  <2>2. WarnedBy(q \o <<HighWater>>, notice')
    BY <2>1, Put
  <2>. QED  BY <1>1, <1>3, <2>2 DEF FlowControl
<1>4. CASE /\ r = << >>
           /\ Len(output') >= HighWaterMark => Len(output) >= HighWaterMark
           /\ output # << >> => output' # << >>
  <2>1. q \o r = q
    BY <1>4, ConcatEmptySeq
  <2>2. Warned' <=> Warned
    BY <1>1, <2>1
  <2>. QED  BY <1>4, <2>2 DEF FlowControl
<1>. QED  BY <1>2, <1>3, <1>4 DEF Fits

\* A message cut where the room ends.
LEMMA CutInTwo ==
  ASSUME NEW bytes \in Seq(Byte), NEW room \in Nat, NEW rest,
         rest = SubSeq(bytes, room + 1, Len(bytes))
  PROVE  /\ rest \in Seq(Byte) /\ SubSeq(bytes, 1, Len(bytes) - Len(rest)) \in Seq(Byte)
         /\ SubSeq(bytes, 1, Len(bytes) - Len(rest)) \o rest = bytes
         /\ Len(rest) <= Len(bytes)
<1>1. Len(bytes) \in Nat /\ \A i \in 1 .. Len(bytes) : bytes[i] \in Byte
  BY LenProperties, ElementOfSeq
<1>2. rest \in Seq(Byte) /\ Len(bytes) - Len(rest) \in 0 .. Len(bytes) /\ Len(rest) \in Nat
  BY KeptPart, LenProperties
<1>3. Len(rest) = IF room + 1 <= Len(bytes) THEN Len(bytes) - (room + 1) + 1 ELSE 0
  <2>1. \A i \in room + 1 .. Len(bytes) : bytes[i] \in Byte
    BY <1>1
  <2>. QED  BY <1>1, <2>1, SubSeqProperties
<1> DEFINE n == Len(bytes) - Len(rest)
<1>4. rest = SubSeq(bytes, n + 1, Len(bytes))
  <2>1. CASE room + 1 <= Len(bytes)
    <3>1. n = room
      BY <1>1, <1>3, <2>1
    <3>. QED  BY <3>1
  <2>2. CASE ~(room + 1 <= Len(bytes))
    <3>1. Len(rest) = 0 /\ n = Len(bytes)
      BY <1>1, <1>3, <2>2
    <3>2. rest = << >>
      BY <1>2, <3>1, EmptySeq
    <3>3. SubSeq(bytes, n + 1, Len(bytes)) = << >>
      <4>1. Len(bytes) \in Nat /\ n = Len(bytes)
        BY <3>1, LenProperties
      <4> HIDE DEF n
      <4>2. n + 1 \in Int /\ Len(bytes) \in Int /\ Len(bytes) < n + 1
        BY <4>1
      <4>. QED  BY <4>2, SubSeqEmpty
    <3>. QED  BY <3>2, <3>3
  <2>. QED  BY <2>1, <2>2
<1>5. n \in 0 .. Len(bytes)
  BY <1>2
<1> HIDE DEF n
<1>6. SubSeq(bytes, 1, n) \in Seq(Byte)
  <2>1. \A i \in 1 .. n : bytes[i] \in Byte
    BY <1>1, <1>5
  <2>. QED  BY <1>1, <1>5, <2>1, SubSeqProperties
<1>7. SubSeq(bytes, 1, n) \o rest = bytes
  <2>1. /\ 1 \in 1 .. Len(bytes) + 1 /\ n \in 1 - 1 .. Len(bytes)
        /\ Len(bytes) \in n .. Len(bytes)
    BY <1>1, <1>5
  <2>2. SubSeq(bytes, 1, n) \o SubSeq(bytes, n + 1, Len(bytes)) = SubSeq(bytes, 1, Len(bytes))
    BY <2>1, ConcatAdjacentSubSeq
  <2>3. SubSeq(bytes, 1, Len(bytes)) = bytes
    BY SubSeqFull
  <2>. QED  BY <1>4, <2>2, <2>3
<1>8. Len(rest) <= Len(bytes)
  BY <1>1, <1>2
<1>. QED  BY <1>2, <1>6, <1>7, <1>8 DEF n

\* sendInLoop on an open connection: unless the write fails, the message comes behind all
\* that was written and buffered, and the notice queued fits what is buffered then.
LEMMA SendWrites ==
  ASSUME TypeOK, NEW msg \in Seq(Byte), msg # << >>, writeOrKeep(msg)
  PROVE  /\ failed => failed'
         /\ ~failed' => wire' \o output' = (wire \o output) \o msg
         /\ \E r \in Others : pending' = pending \o r /\ Fits(r)
<1> DEFINE rest == sendRest(msg)
           taken == SubSeq(msg, 1, Len(msg) - Len(rest))
<1>1. /\ rest \in Seq(Byte) /\ wire \in Seq(Byte) /\ output \in Seq(Byte)
      /\ Room \in Nat /\ Len(msg) \in Nat
  BY RestKept, RoomType, LenProperties DEF TypeOK
<1>2. /\ wire' = wire \o taken /\ output' = output \o rest
      /\ failed' = (failed \/ (~isWriting /\ output = << >> /\ WriteFails))
      /\ pending' = pending \o (IF rest = << >> THEN <<WriteComplete>>
                                ELSE IF crosses(rest) THEN <<HighWater>> ELSE << >>)
  BY DEF writeOrKeep, ToBack
<1>3. isWriting \/ output # << >> => rest = msg
  BY DEF sendRest
<1>4. ~isWriting /\ output = << >> /\ ~WriteFails => rest = SubSeq(msg, Room + 1, Len(msg))
  BY DEF sendRest
<1>5. ASSUME ~failed' PROVE wire' \o output' = (wire \o output) \o msg
  <2>1. CASE isWriting \/ output # << >>
    <3>1. rest = msg /\ Len(msg) - Len(rest) = 0
      BY <1>1, <1>3, <2>1
    <3>2. taken = << >>
      BY <3>1, SubSeqEmpty
    <3>3. wire' = wire
      BY <1>1, <1>2, <3>2, ConcatEmptySeq
    <3>4. output' = output \o msg
      BY <1>2, <3>1
    <3>5. wire \o (output \o msg) = (wire \o output) \o msg
      BY <1>1, ConcatAssociative
    <3>. QED  BY <3>3, <3>4, <3>5
  <2>2. CASE ~(isWriting \/ output # << >>)
    <3>1. ~WriteFails /\ output = << >>
      BY <1>2, <1>5, <2>2
    <3>2. rest = SubSeq(msg, Room + 1, Len(msg))
      BY <1>4, <2>2, <3>1
    <3>3. taken \in Seq(Byte) /\ taken \o rest = msg
      BY <1>1, <3>2, CutInTwo
    <3>4. output' = rest /\ wire \o output = wire
      BY <1>1, <1>2, <3>1, ConcatEmptySeq
    <3> HIDE DEF rest, taken
    <3>5. (wire \o taken) \o rest = wire \o (taken \o rest)
      <4>1. wire \in Seq(Byte) /\ taken \in Seq(Byte) /\ rest \in Seq(Byte)
        BY <1>1, <3>3
      <4>. QED  BY <4>1, ConcatAssociative
    <3>. QED  BY <1>2, <3>3, <3>4, <3>5
  <2>. QED  BY <2>1, <2>2
<1> HIDE DEF rest, taken
<1>6. output' \in Seq(Byte) /\ (output' = << >> <=> output = << >> /\ rest = << >>)
  BY <1>1, <1>2, ConcatProperties, ConcatEqualIffEmpty
<1>7. CASE rest = << >>
  <2>1. output = << >>
    BY <1>3, <1>7
  <2>2. Fits(<<WriteComplete>>) /\ <<WriteComplete>> \in Others
    BY <1>6, <1>7, <2>1 DEF Fits, Others
  <2>3. pending' = pending \o <<WriteComplete>>
    BY <1>2, <1>7
  <2>. QED  BY <1>2, <1>5, <2>2, <2>3
<1>8. CASE rest # << >> /\ crosses(rest)
  <2>1. Fits(<<HighWater>>) /\ <<HighWater>> \in Others
    BY <1>6, <1>8 DEF Fits, Others
  <2>2. pending' = pending \o <<HighWater>>
    BY <1>2, <1>8
  <2>. QED  BY <1>2, <1>5, <2>1, <2>2
<1>9. CASE rest # << >> /\ ~crosses(rest)
  <2>1. Len(output') >= HighWaterMark => Len(output) >= HighWaterMark
    <3>1. Len(output) \in Nat /\ HighWaterMark \in Nat
      BY <1>1, LenProperties, BoundAssumption
    <3>. QED  BY <1>2, <1>9, <3>1 DEF crosses
  <2>2. Fits(<< >>) /\ << >> \in Others
    BY <1>6, <1>9, <2>1 DEF Fits, Others
  <2>3. pending' = pending \o << >>
    BY <1>2, <1>9
  <2>. QED  BY <1>2, <1>5, <2>2, <2>3
<1>. QED  BY <1>7, <1>8, <1>9

\* handleWrite: unless the write fails, what is written and buffered stays what it was.
LEMMA HandleWrites ==
  ASSUME TypeOK, handleWrite
  PROVE  /\ failed => failed'
         /\ ~failed' => wire' \o output' = wire \o output
         /\ \E r \in Others : pending' = pending \o r /\ Fits(r)
<1> DEFINE left == IF WriteFails THEN << >> ELSE SubSeq(output, Room + 1, Len(output))
           taken == SubSeq(output, 1, Len(output) - Len(left))
<1>1. output \in Seq(Byte) /\ wire \in Seq(Byte) /\ Room \in Nat /\ pending \in Seq(Functor)
  BY RoomType DEF TypeOK
<1>2. /\ wire' = IF WriteFails THEN wire ELSE wire \o taken
      /\ output' = left /\ failed' = (failed \/ WriteFails)
      /\ left = << >> => pending' = pending \o <<WriteComplete>>
      /\ left # << >> => pending' = pending
  BY DEF handleWrite, ToBack
<1>3. ASSUME ~WriteFails
      PROVE  left \in Seq(Byte) /\ taken \in Seq(Byte) /\ taken \o left = output /\ Len(left) <= Len(output)
  <2>1. left = SubSeq(output, Room + 1, Len(output))
    BY <1>3
  <2> HIDE DEF left
  <2>. QED  BY <1>1, <2>1, CutInTwo
<1>4. WriteFails => left = << >>
  OBVIOUS
<1> HIDE DEF left, taken
<1>5. ASSUME ~failed' PROVE wire' \o output' = wire \o output
  <2>1. ~WriteFails
    BY <1>2, <1>5
  <2>2. wire \in Seq(Byte) /\ taken \in Seq(Byte) /\ left \in Seq(Byte)
    BY <1>1, <1>3, <2>1
  <2>3. (wire \o taken) \o left = wire \o (taken \o left)
    BY <2>2, ConcatAssociative
  <2>. QED  BY <1>2, <1>3, <2>1, <2>3
<1>6. CASE left = << >>
  <2>1. Fits(<<WriteComplete>>) /\ <<WriteComplete>> \in Others
    BY <1>2, <1>6 DEF Fits, Others
  <2>. QED  BY <1>2, <1>5, <1>6, <2>1
<1>7. CASE left # << >>
  <2>1. Len(output') >= HighWaterMark => Len(output) >= HighWaterMark
    <3>1. Len(left) <= Len(output) /\ Len(left) \in Nat /\ Len(output) \in Nat
      BY <1>1, <1>3, <1>4, <1>7, LenProperties
    <3>. QED  BY <1>2, <3>1, BoundAssumption
  <2>2. Fits(<< >>) /\ << >> \in Others
    BY <1>2, <1>7, <2>1 DEF Fits, Others
  <2>3. pending' = pending \o << >>
    BY <1>1, <1>2, <1>7, ConcatEmptySeq
  <2>. QED  BY <1>2, <1>5, <2>2, <2>3
<1>. QED  BY <1>6, <1>7
-----------------------------------------------------------------------------
\* A batch is run to its end before the next epoll_wait.
BatchRun == pc \notin {"functors", "disconnect"} => batch = << >>

\* What the functors carry, those queued and those that a thread is about to queue.
Holds(t, f) == /\ Carried(f) /\ \A i \in 1 .. Len(f.msg) : f.msg[i].from = t
               /\ f.run \in {"none", "checked", "sendInLoop", "shutdownInLoop"}
Cargo == BatchRun /\ AllCarried(Queue) /\ \A t \in Thread : Holds(t, calling[t])

\* Every sender's bytes are in line on their way to the wire.
Lined == (~failed /\ downs = 0) =>
           /\ Clean(wire \o output)
           /\ \A s \in Sender : InLine(s, wire \o output, Queue, Calling(s), sent[s])

\* The stream stays clean when a message is put behind it.
LEMMA CleanJoin ==
  ASSUME NEW x \in Seq(Byte), NEW y \in Seq(Byte), Clean(x), Clean(y)
  PROVE  Clean(x \o y)
<1> DEFINE w == x \o y
<1>1. \A i \in 1 .. Len(w) : \/ i \in 1 .. Len(x) /\ w[i] = x[i]
                             \/ i - Len(x) \in 1 .. Len(y) /\ w[i] = y[i - Len(x)]
  BY Places
<1> HIDE DEF w
<1>2. Clean(w)
  BY <1>1 DEF Clean
<1>. QED  BY <1>2 DEF w

SendInv == Cargo /\ Lined /\ FlowControl

\* What is typed in the state.
LEMMA LineTypes ==
  ASSUME TypeOK
  PROVE  /\ Queue \in Seq(Functor) /\ wire \o output \in Seq(Byte)
         /\ \A s \in Sender : Calling(s) \in Seq(Byte) /\ sent[s] \in Nat
<1>1. Queue \in Seq(Functor)
  BY ConcatProperties DEF Queue, TypeOK
<1>2. wire \o output \in Seq(Byte)
  BY ConcatProperties DEF TypeOK
<1>3. \A s \in Sender : sent[s] \in Nat
  BY BoundAssumption DEF TypeOK
<1>4. ASSUME NEW s \in Sender PROVE Calling(s) \in Seq(Byte)
  <2>1. CASE s = Loop
    BY <2>1, EmptySeq DEF Calling
  <2>2. CASE s # Loop
    <3>1. calling[s] \in Functor \cup {None, Checked}
      BY <2>2 DEF TypeOK, Sender
    <3>2. \A f \in Functor : f.msg \in Seq(Byte)
      BY DEF Functor
    <3>3. None.msg \in Seq(Byte) /\ Checked.msg \in Seq(Byte)
      BY Plain, EmptySeq
    <3>4. calling[s].msg \in Seq(Byte)
      BY <3>1, <3>2, <3>3
    <3>. QED  BY <2>2, <3>4 DEF Calling
  <2>. QED  BY <2>1, <2>2
<1>. QED  BY <1>1, <1>2, <1>3, <1>4

\* A step that takes what m holds from the front of the queue, if anything, and puts it
\* behind what was buffered, unless a write fails or the connection is down.
LEMMA StepKeeps ==
  ASSUME TypeOK, SendInv, BatchRun',
         NEW q \in Seq(Functor), AllCarried(q), NEW r \in Others, Queue' = q \o r, Fits(r),
         WarnedBy(q, notice') <=> WarnedBy(Queue, notice),
         NEW m \in Seq(Byte), Clean(m),
         sent' = sent, failed => failed', downs' = 0 => downs = 0,
         ~failed' /\ downs' = 0 => wire' \o output' = (wire \o output) \o m,
         \A s \in Sender : \A w \in Seq(Byte) : \A c, n :
           InLine(s, w, Queue, c, n) => InLine(s, w \o m, q, c, n),
         \A t \in Thread : Holds(t, calling'[t]) /\ calling'[t].msg = calling[t].msg
  PROVE  SendInv'
<1>1. AllCarried(Queue)'
  <2>1. AllCarried(q \o r)
    BY OthersPut
  <2>2. AllCarried(Queue')
    BY <2>1
  <2>. QED  BY <2>2 DEF AllCarried, Carried
<1>2. FlowControl'
  BY FlowStep DEF SendInv
<1>3. Lined'
  <2>0. ASSUME ~failed', downs' = 0 PROVE Clean(wire \o output)'
    <3>1. Clean(wire \o output) /\ wire \o output \in Seq(Byte)
      BY <2>0, LineTypes DEF SendInv, Lined
    <3>2. Clean((wire \o output) \o m)
      BY <3>1, CleanJoin
    <3>3. Clean(wire' \o output')
      BY <2>0, <3>2
    <3>. QED  BY <3>3 DEF Clean, Junk
  <2> SUFFICES ASSUME ~failed', downs' = 0, NEW s \in Sender
               PROVE  InLine(s, wire \o output, Queue, Calling(s), sent[s])'
    BY <2>0 DEF Lined
  <2>1. InLine(s, wire \o output, Queue, Calling(s), sent[s])
    BY DEF SendInv, Lined
  <2>2. InLine(s, (wire \o output) \o m, q, Calling(s), sent[s])
    BY <2>1, LineTypes
  <2>3. InLine(s, wire' \o output', q, Calling(s), sent[s])
    BY <2>2
  <2>4. InLine(s, wire' \o output', q \o r, Calling(s), sent[s])
    BY <2>3, OthersPut
  <2>5. Calling(s)' = Calling(s)
    BY DEF Calling, Sender
  <2>6. InLine(s, wire' \o output', Queue', Calling(s)', sent'[s])
    BY <2>4, <2>5
  <2>. QED  BY <2>6 DEF InLine, Rising, Precedes, UpTo, Has
<1>4. Cargo'
  BY <1>1 DEF Cargo, Holds, Carried
<1>. QED  BY <1>2, <1>3, <1>4 DEF SendInv
\* A step that takes no functor and queues only functors without a message.
LEMMA AddKeeps ==
  ASSUME TypeOK, SendInv, BatchRun', NEW r \in Others, Queue' = Queue \o r, Fits(r),
         UNCHANGED <<notice, sent>>, failed => failed', downs' = 0 => downs = 0,
         ~failed' /\ downs' = 0 => wire' \o output' = wire \o output,
         \A t \in Thread : Holds(t, calling'[t]) /\ calling'[t].msg = calling[t].msg
  PROVE  SendInv'
<1>1. Queue \in Seq(Functor) /\ AllCarried(Queue) /\ wire \o output \in Seq(Byte)
  BY LineTypes DEF SendInv, Cargo
<1>2. \A w \in Seq(Byte) : w \o << >> = w
  BY ConcatEmptySeq
<1>3. \A s \in Sender : \A w \in Seq(Byte) : \A c, n :
        InLine(s, w, Queue, c, n) => InLine(s, w \o << >>, Queue, c, n)
  BY <1>2
<1>4. ~failed' /\ downs' = 0 => wire' \o output' = (wire \o output) \o << >>
  BY <1>1, <1>2
<1>5. << >> \in Seq(Byte) /\ Clean(<< >>)
  BY DEF Clean
<1>. QED  BY <1>1, <1>3, <1>4, <1>5, StepKeeps

\* A step that does not touch the stream, and may queue connectDestoryed.
LEMMA StillKeeps ==
  ASSUME TypeOK, SendInv, BatchRun', Queue' = Queue \/ Queue' = Queue \o <<Destoryed>>,
         UNCHANGED <<wire, output, notice, sent>>, failed => failed', downs' = 0 => downs = 0,
         \A t \in Thread : Holds(t, calling'[t]) /\ calling'[t].msg = calling[t].msg
  PROVE  SendInv'
<1>1. Queue \in Seq(Functor) /\ AllCarried(Queue) /\ wire \o output \in Seq(Byte)
  BY LineTypes DEF SendInv, Cargo
<1>2. << >> \in Others /\ <<Destoryed>> \in Others /\ Fits(<< >>)
  BY DEF Others, Fits
<1>3. CASE Queue' = Queue
  <2>1. Queue' = Queue \o << >>
    BY <1>1, <1>3, ConcatEmptySeq
  <2>. QED  BY <1>2, <2>1, AddKeeps
<1>4. CASE Queue' = Queue \o <<Destoryed>>
  <2> DEFINE q == Queue \o <<Destoryed>>
  <2>1. /\ <<Destoryed>> \in Seq(Functor) /\ AllCarried(q)
        /\ \A s, w, c, n : InLine(s, w, Queue, c, n) => InLine(s, w, q, c, n)
    BY <1>1, <1>2, OthersPut
  <2>2. q \in Seq(Functor)
    BY <1>1, <2>1, ConcatProperties
  <2>3. Queue' = q \o << >>
    BY <1>4, <2>2, ConcatEmptySeq
  <2>4. Destoryed \in Functor /\ Destoryed.run \notin {"writeComplete", "highWaterMark"}
    BY Plain DEF Destoryed
  <2>5. WarnedBy(q, notice') <=> WarnedBy(Queue, notice)
    BY <1>1, <2>4, Put
  <2> HIDE DEF q
  <2>6. \A w \in Seq(Byte) : w \o << >> = w
    BY ConcatEmptySeq
  <2>7. \A s \in Sender : \A w \in Seq(Byte) : \A c, n :
          InLine(s, w, Queue, c, n) => InLine(s, w \o << >>, q, c, n)
    BY <2>1, <2>6
  <2>8. ~failed' /\ downs' = 0 => wire' \o output' = (wire \o output) \o << >>
    BY <1>1, <2>6
  <2>9. << >> \in Seq(Byte) /\ Clean(<< >>)
    BY DEF Clean
  <2>. QED  BY <1>2, <2>1, <2>2, <2>3, <2>5, <2>7, <2>8, <2>9, StepKeeps
<1>. QED  BY <1>3, <1>4

\* A functor is run: its message, if it has one, comes behind what was buffered.
LEMMA TakeKeeps ==
  ASSUME TypeOK, SendInv, BatchRun', batch # << >>, batch' = Tail(batch),
         NEW r \in Others, pending' = pending \o r, Fits(r),
         notice' = IF Head(batch).run \in {"writeComplete", "highWaterMark"} THEN Head(batch).run
                                                                            ELSE notice,
         UNCHANGED <<sent, calling>>, failed => failed', downs' = 0 => downs = 0,
         ~failed' /\ downs' = 0 => wire' \o output' = (wire \o output) \o Head(batch).msg
  PROVE  SendInv'
<1>1. /\ Queue \in Seq(Functor) /\ AllCarried(Queue)
      /\ \A t \in Thread : Holds(t, calling[t])
  BY LineTypes DEF SendInv, Cargo
<1>2. r \in Seq(Functor)
  BY <1>1, OthersPut
<1>3. /\ Queue # << >> /\ Head(Queue) = Head(batch) /\ Tail(Queue) \in Seq(Functor)
      /\ Queue' = Tail(Queue) \o r
  BY <1>2, QueueShape
<1>4. AllCarried(Tail(Queue))
  BY <1>1, <1>3, Taken
<1>5. WarnedBy(Tail(Queue), notice') <=> WarnedBy(Queue, notice)
  BY <1>1, <1>3, WarnedTaken
<1>6. \A s \in Sender : \A w \in Seq(Byte) : \A c, n :
        InLine(s, w, Queue, c, n) => InLine(s, w \o Head(batch).msg, Tail(Queue), c, n)
  BY <1>1, <1>3, LineRun
<1>7. \A t \in Thread : Holds(t, calling'[t]) /\ calling'[t].msg = calling[t].msg
  BY <1>1
<1>8. Head(batch).msg \in Seq(Byte) /\ Clean(Head(batch).msg)
  <2>1. Head(batch) \in Functor /\ Carried(Head(batch))
    BY <1>1, <1>3, QueueTypes, Taken
  <2>. QED  BY <2>1 DEF Functor, Carried, Clean
<1>. QED  BY <1>3, <1>4, <1>5, <1>6, <1>7, <1>8, StepKeeps
\* One round of events.
LEMMA RoundSends ==
  ASSUME OpenInv, SendInv, poll \/ closeStage \/ errorStage \/ readStage \/ writeStage
  PROVE  SendInv'
<1>1. TypeOK /\ BatchRun /\ \A t \in Thread : Holds(t, calling[t])
  BY DEF OpenInv, SendInv, Cargo
<1>2. downs \in Nat
  BY <1>1 DEF TypeOK
<1>3. UNCHANGED <<calling, sent, notice, batch>>
  BY DEF poll, closeStage, errorStage, readStage, writeStage, queueVars, outsideVars, historyVars
<1>4. BatchRun'
  <2>1. pc \notin {"functors", "disconnect"}
    BY DEF poll, closeStage, errorStage, readStage, writeStage, Stage
  <2>. QED  BY <1>1, <1>3, <2>1 DEF BatchRun
<1>5. \A t \in Thread : Holds(t, calling'[t]) /\ calling'[t].msg = calling[t].msg
  BY <1>1, <1>3
<1>6. CASE poll \/ closeStage \/ errorStage \/ readStage
  <2>1. UNCHANGED <<wire, output, pending, failed>>
    BY <1>6 DEF poll, closeStage, errorStage, readStage, connVars, queueVars, kernelVars, historyVars
  <2>2. downs' \in {downs, downs + 1}
    BY <1>6 DEF poll, closeStage, errorStage, readStage, handleRead, endOfStream, handleClose, historyVars
  <2>3. downs' = 0 => downs = 0
    BY <1>2, <2>2
  <2>4. Queue' = Queue
    BY <1>3, <2>1 DEF Queue
  <2>. QED  BY <1>1, <1>3, <1>4, <1>5, <2>1, <2>3, <2>4, StillKeeps
<1>7. CASE writeStage
  <2>1. downs' = downs
    BY <1>7 DEF writeStage
  <2>2. CASE handleWrite
    <3>1. /\ failed => failed'
          /\ ~failed' => wire' \o output' = wire \o output
      BY <1>1, <2>2, HandleWrites
    <3>2. PICK r \in Others : pending' = pending \o r /\ Fits(r)
      BY <1>1, <2>2, HandleWrites
    <3>3. r \in Seq(Functor)
      BY EmptySeq, OthersPut
    <3>4. Queue' = Queue \o r
      BY <1>1, <1>3, <3>2, <3>3, QueueShape
    <3>. QED  BY <1>1, <1>3, <1>4, <1>5, <2>1, <3>1, <3>2, <3>4, AddKeeps
  <2>3. CASE UNCHANGED <<channelVars, output, pending, wire, wrShut, soError, failed>>
    <3>1. Queue' = Queue
      BY <1>3, <2>3 DEF Queue
    <3>. QED  BY <1>1, <1>3, <1>4, <1>5, <2>1, <2>3, <3>1, StillKeeps
  <2>. QED  BY <1>7, <2>2, <2>3 DEF writeStage
<1>. QED  BY <1>6, <1>7

\* The functors of one batch.
LEMMA FunctorsSend ==
  ASSUME OpenInv, SendInv,
         \/ swap \/ endBatch \/ connectEstablished \/ runSendInLoop
         \/ runShutdownInLoop \/ runCallback \/ connectDestoryed \/ disconnect
         \/ callbackReturns
  PROVE  SendInv'
<1>1. /\ TypeOK /\ BatchRun /\ AllCarried(Queue) /\ \A t \in Thread : Holds(t, calling[t])
      /\ batch \in Seq(Functor) /\ pending \in Seq(Functor) /\ Queue \in Seq(Functor)
  BY LineTypes DEF OpenInv, SendInv, Cargo, TypeOK
<1>2. << >> \in Others /\ pending \o << >> = pending
  BY <1>1, ConcatEmptySeq DEF Others
<1>3. UNCHANGED <<calling, sent>>
  BY DEF swap, endBatch, connectEstablished, runSendInLoop, runShutdownInLoop, runCallback,
         connectDestoryed, disconnect, callbackReturns, Runs, outsideVars
<1>4. \A t \in Thread : Holds(t, calling'[t]) /\ calling'[t].msg = calling[t].msg
  BY <1>1, <1>3
<1>5. CASE swap
  <2>1. batch = << >> /\ batch' = pending /\ pending' = << >> /\ pc' = "functors"
    BY <1>1, <1>5 DEF swap, Stage, BatchRun
  <2>2. Queue' = Queue
    BY <1>1, <2>1, ConcatEmptySeq DEF Queue
  <2>3. UNCHANGED <<wire, output, notice, failed, downs>> /\ BatchRun'
    BY <1>5, <2>1 DEF swap, connVars, kernelVars, historyVars, BatchRun
  <2>. QED  BY <1>1, <1>3, <1>4, <2>2, <2>3, StillKeeps
<1>6. CASE endBatch \/ disconnect \/ callbackReturns
  <2>1. /\ UNCHANGED <<wire, output, notice, failed, batch, pending>>
        /\ downs' \in {downs, downs + 1} /\ downs \in Nat
    BY <1>1, <1>6 DEF endBatch, disconnect, callbackReturns, connVars, queueVars, kernelVars,
                      historyVars, TypeOK
  <2>2. Queue' = Queue /\ (downs' = 0 => downs = 0)
    BY <2>1 DEF Queue
  <2>3. BatchRun'
    BY <1>1, <1>6, <2>1 DEF endBatch, disconnect, callbackReturns, BatchRun
  <2>. QED  BY <1>1, <1>3, <1>4, <2>1, <2>2, <2>3, StillKeeps
\* One functor.
<1>7. ASSUME NEW kind, Runs(kind), pc' \in {pc, "disconnect"}
      PROVE  /\ batch # << >> /\ batch' = Tail(batch) /\ Head(batch).run = kind /\ BatchRun'
             /\ Carried(Head(batch)) /\ Head(batch) \in Functor
  <2>1. batch # << >> /\ batch' = Tail(batch) /\ Head(batch).run = kind /\ pc = "functors"
    BY <1>7 DEF Runs, Stage
  <2>2. BatchRun'
    BY <1>7, <2>1 DEF BatchRun
  <2>3. Queue # << >> /\ Head(Queue) = Head(batch)
    BY <1>1, <2>1, TailOfConcat DEF Queue
  <2>4. Carried(Head(Queue))
    BY <1>1, <2>3, Taken
  <2>5. Head(batch) \in Functor
    BY <1>1, <2>1, QueueTypes
  <2>. QED  BY <2>1, <2>2, <2>3, <2>4, <2>5
<1>8. CASE connectEstablished \/ runShutdownInLoop \/ connectDestoryed
  <2>1. PICK kind \in {"connectEstablished", "shutdownInLoop", "connectDestoryed"} : Runs(kind)
    BY <1>8 DEF connectEstablished, runShutdownInLoop, connectDestoryed
  <2>2. UNCHANGED <<wire, output, pending, notice, failed, downs>> /\ pc' \in {pc, "disconnect"}
    BY <1>8 DEF connectEstablished, runShutdownInLoop, connectDestoryed, connVars, historyVars
  <2>3. /\ batch # << >> /\ batch' = Tail(batch) /\ Head(batch).run = kind /\ BatchRun'
        /\ Carried(Head(batch))
    BY <1>7, <2>1, <2>2
  <2>4. Head(batch).msg = << >>
    BY <2>3 DEF Carried
  <2>5. wire \o output \in Seq(Byte) /\ (wire \o output) \o << >> = wire \o output
    BY <1>1, LineTypes, ConcatEmptySeq
  <2>6. Fits(<< >>)
    BY <2>2 DEF Fits
  <2>. QED  BY <1>1, <1>2, <1>3, <2>2, <2>3, <2>4, <2>5, <2>6, TakeKeeps
<1>9. CASE runCallback
  <2>1. PICK kind \in {"writeComplete", "highWaterMark"} : Runs(kind)
    BY <1>9 DEF runCallback
  <2>2. UNCHANGED <<wire, output, pending, failed, downs>> /\ pc' = pc /\ notice' = Head(batch).run
    BY <1>9 DEF runCallback, connVars
  <2>3. /\ batch # << >> /\ batch' = Tail(batch) /\ Head(batch).run = kind /\ BatchRun'
        /\ Carried(Head(batch))
    BY <1>7, <2>1, <2>2
  <2>4. Head(batch).msg = << >>
    BY <2>3 DEF Carried
  <2>5. wire \o output \in Seq(Byte) /\ (wire \o output) \o << >> = wire \o output
    BY <1>1, LineTypes, ConcatEmptySeq
  <2>6. Fits(<< >>)
    BY <2>2 DEF Fits
  <2>. QED  BY <1>1, <1>2, <1>3, <2>2, <2>3, <2>4, <2>5, <2>6, TakeKeeps
<1>10. CASE runSendInLoop
  <2>1. Runs("sendInLoop") /\ pc' = pc /\ sendInLoop(Head(batch).msg) /\ UNCHANGED <<notice, downs>>
    BY <1>10 DEF runSendInLoop
  <2>2. /\ batch # << >> /\ batch' = Tail(batch) /\ Head(batch).run = "sendInLoop" /\ BatchRun'
        /\ Carried(Head(batch)) /\ Head(batch) \in Functor
    BY <1>7, <2>1
  <2>3. Head(batch).msg # << >> /\ Head(batch).msg \in Seq(Byte)
    BY <2>2 DEF Carried, Functor
  <2>4. CASE m_state = "kDisconnected" /\ UNCHANGED <<channelVars, output, pending, wire, soError, failed>>
    <3>1. downs' # 0 /\ downs # 0
      BY <2>1, <2>4, BoundAssumption DEF OpenInv, Told
    <3>2. Fits(<< >>) /\ (failed => failed')
      BY <2>4 DEF Fits
    <3>. QED  BY <1>1, <1>2, <1>3, <2>1, <2>2, <2>4, <3>1, <3>2, TakeKeeps
  <2>5. CASE writeOrKeep(Head(batch).msg)
    <3>1. /\ failed => failed'
          /\ ~failed' => wire' \o output' = (wire \o output) \o Head(batch).msg
      BY <1>1, <2>3, <2>5, SendWrites
    <3>2. PICK r \in Others : pending' = pending \o r /\ Fits(r)
      BY <1>1, <2>3, <2>5, SendWrites
    <3>. QED  BY <1>1, <1>3, <2>1, <2>2, <3>1, <3>2, TakeKeeps
  <2>. QED  BY <2>1, <2>4, <2>5 DEF sendInLoop
<1>. QED  BY <1>5, <1>6, <1>8, <1>9, <1>10
\* send on the loop thread.
LEMMA SendSends ==
  ASSUME OpenInv, SendInv, NEW len \in Lens, send(len)
  PROVE  SendInv'
<1> DEFINE n == sent[Loop]
           msg == Fresh(Loop, n, len)
<1>1. /\ TypeOK /\ BatchRun /\ AllCarried(Queue) /\ \A t \in Thread : Holds(t, calling[t])
      /\ Queue \in Seq(Functor) /\ wire \o output \in Seq(Byte)
  BY LineTypes DEF OpenInv, SendInv, Cargo
<1>2. /\ Loop \in Sender /\ n \in Nat /\ len \in Nat \ {0} /\ n + len <= MaxBytes
      /\ sent' = [sent EXCEPT ![Loop] = @ + len]
  BY <1>1, LineTypes, BoundAssumption DEF send, SendCall, Sender
<1>3. /\ UNCHANGED <<batch, pc, calling, notice, downs>> /\ writeOrKeep(msg)
  <2>1. Message(Loop, len) = msg
    BY DEF Message, Fresh
  <2>2. m_state # "kDisconnected" /\ sendInLoop(Message(Loop, len))
    BY DEF send, SendCall
  <2>. QED  BY <2>1, <2>2 DEF send, sendInLoop, loopVars
<1>4. msg \in Seq(Byte) /\ msg # << >> /\ Clean(msg) /\ \A s : s # Loop => Free(s, msg)
  <2>1. Message(Loop, len) \in Seq(Byte)
    BY <1>1, <1>2, MessageType
  <2>2. Len(msg) = len
    BY <1>2 DEF Fresh
  <2>. QED  BY <1>2, <2>1, <2>2, FreshFollows, EmptySeq DEF Message, Fresh
<1> HIDE DEF msg
<1>5. /\ failed => failed'
      /\ ~failed' => wire' \o output' = (wire \o output) \o msg
  BY <1>1, <1>3, <1>4, SendWrites
<1>6. PICK r \in Others : pending' = pending \o r /\ Fits(r)
  BY <1>1, <1>3, <1>4, SendWrites
<1>7. Queue' = Queue \o r
  BY <1>1, <1>3, <1>6, OthersPut, QueueShape
<1>8. Cargo'
  <2>1. AllCarried(Queue \o r)
    BY <1>1, OthersPut
  <2>2. AllCarried(Queue')
    BY <1>7, <2>1
  <2>. QED  BY <1>1, <1>3, <2>2 DEF Cargo, BatchRun, AllCarried, Holds, Carried
<1>9. FlowControl'
  BY <1>1, <1>3, <1>6, <1>7, FlowStep DEF SendInv
<1>10. Lined'
  <2>0. ASSUME ~failed', downs' = 0 PROVE Clean(wire \o output)'
    <3>1. Clean(wire \o output)
      BY <1>3, <1>5, <2>0 DEF SendInv, Lined
    <3>2. Clean((wire \o output) \o msg)
      BY <1>1, <1>4, <3>1, CleanJoin
    <3>3. Clean(wire' \o output')
      BY <1>5, <2>0, <3>2
    <3>. QED  BY <3>3 DEF Clean, Junk
  <2> SUFFICES ASSUME ~failed', downs' = 0, NEW s \in Sender
               PROVE  InLine(s, wire \o output, Queue, Calling(s), sent[s])'
    BY <2>0 DEF Lined
  <2>1. InLine(s, wire \o output, Queue, Calling(s), sent[s])
    BY <1>3, <1>5 DEF SendInv, Lined
  <2>2. Calling(s)' = Calling(s)
    BY <1>3 DEF Calling
  <2>3. InLine(s, (wire \o output) \o msg, Queue, Calling(s), sent'[s])
    <3>1. CASE s = Loop
      <4>1. Calling(s) = << >> /\ sent'[s] = n + len
        BY <1>1, <1>2, <3>1 DEF Calling, TypeOK
      <4>2. InLine(Loop, wire \o output, Queue, << >>, n)
        BY <2>1, <3>1, <4>1
      <4>3. InLine(Loop, wire \o output, Queue, msg, n + len)
        BY <1>1, <1>2, <4>2, LineAccept DEF msg
      <4>4. \A k \in 1 .. Len(Queue) : Free(Loop, Queue[k].msg)
        BY <1>1, LoopAssumption DEF AllCarried, Carried, Free
      <4>5. Free(Loop, << >>)
        BY Plain
      <4>6. InLine(Loop, (wire \o output) \o msg, Queue, << >>, n + len)
        BY <1>1, <1>4, <4>3, <4>4, <4>5, LineWrite
      <4>. QED  BY <3>1, <4>1, <4>6
    <3>2. CASE s # Loop
      <4>1. sent'[s] = sent[s]
        BY <1>1, <1>2, <3>2 DEF TypeOK
      <4>2. InLine(s, (wire \o output) \o msg, Queue, Calling(s), sent[s])
        BY <1>1, <1>4, <2>1, <3>2, LineWrite
      <4>. QED  BY <4>1, <4>2
    <3>. QED  BY <3>1, <3>2
  <2>4. InLine(s, (wire \o output) \o msg, Queue \o r, Calling(s), sent'[s])
    BY <1>1, <2>3, OthersPut
  <2>5. InLine(s, wire' \o output', Queue', Calling(s)', sent'[s])
    BY <1>5, <1>7, <2>2, <2>4
  <2>. QED  BY <2>5 DEF InLine, Rising, Precedes, UpTo, Has
<1>. QED  BY <1>8, <1>9, <1>10 DEF SendInv

\* A step of another thread: the flow of the connection's own notices is not touched.
LEMMA ThreadFlow ==
  ASSUME TypeOK, FlowControl, UNCHANGED <<output, notice>>, NEW q \in Seq(Functor), Queue' = q,
         WarnedBy(q, notice) <=> WarnedBy(Queue, notice)
  PROVE  FlowControl'
<1>1. q \o << >> = q /\ Fits(<< >>)
  BY ConcatEmptySeq DEF Fits
<1>. QED  BY <1>1, FlowStep

\* send on another thread accepts a message.
LEMMA ThreadSends ==
  ASSUME OpenInv, SendInv, NEW t \in Thread, NEW len \in Lens, threadSend(t, len)
  PROVE  SendInv'
<1> DEFINE n == sent[t]
           msg == Fresh(t, n, len)
<1>1. /\ TypeOK /\ BatchRun /\ AllCarried(Queue) /\ \A u \in Thread : Holds(u, calling[u])
      /\ Queue \in Seq(Functor) /\ wire \o output \in Seq(Byte)
  BY LineTypes DEF OpenInv, SendInv, Cargo
<1>2. /\ t \in Sender /\ t # Loop /\ n \in Nat /\ len \in Nat \ {0}
      /\ sent' = [sent EXCEPT ![t] = @ + len] /\ calling[t] = None
  BY <1>1, LineTypes, LoopAssumption, BoundAssumption DEF threadSend, SendCall, Sender
<1>3. /\ calling' = [calling EXCEPT ![t] = Send(msg)]
      /\ UNCHANGED <<batch, pending, pc, wire, output, notice, failed, downs>>
  BY DEF threadSend, Message, Fresh, connVars, queueVars, loopVars, kernelVars, historyVars
<1>4. Queue' = Queue
  BY <1>3 DEF Queue
<1>5. Holds(t, Send(msg))
  <2>1. Len(msg) = len /\ \A i \in 1 .. len : msg[i].from = t
    BY <1>2 DEF Fresh
  <2> HIDE DEF msg
  <2>2. msg # << >>
    BY <1>2, <2>1, EmptySeq
  <2>3. Clean(msg)
    BY <1>2, FreshFollows DEF msg
  <2>. QED  BY <2>1, <2>2, <2>3 DEF Holds, Carried, Send
<1>6. \A u \in Thread : calling'[u] = IF u = t THEN Send(msg) ELSE calling[u]
  BY <1>1, <1>3 DEF TypeOK
<1> HIDE DEF msg
<1>7. Cargo'
  <2>1. \A u \in Thread : Holds(u, calling'[u])
    BY <1>1, <1>5, <1>6
  <2>. QED  BY <1>1, <1>3, <1>4, <2>1 DEF Cargo, BatchRun, AllCarried, Holds, Carried
<1>8. FlowControl'
  BY <1>1, <1>3, <1>4, ThreadFlow DEF SendInv
<1>9. Lined'
  <2>0. ASSUME ~failed', downs' = 0 PROVE Clean(wire \o output)'
    BY <1>3, <2>0 DEF SendInv, Lined, Clean, Junk
  <2> SUFFICES ASSUME ~failed', downs' = 0, NEW s \in Sender
               PROVE  InLine(s, wire \o output, Queue, Calling(s), sent[s])'
    BY <2>0 DEF Lined
  <2>1. InLine(s, wire \o output, Queue, Calling(s), sent[s])
    BY <1>3 DEF SendInv, Lined
  <2>2. InLine(s, wire \o output, Queue, Calling(s)', sent'[s])
    <3>1. CASE s = t
      <4>1. Calling(s) = << >> /\ Calling(s)' = msg /\ sent'[s] = n + len
        BY <1>1, <1>2, <1>6, <3>1, Plain DEF Calling, Send, TypeOK
      <4>2. InLine(t, wire \o output, Queue, << >>, n)
        BY <2>1, <3>1, <4>1
      <4>3. InLine(t, wire \o output, Queue, msg, n + len)
        BY <1>1, <1>2, <4>2, LineAccept DEF msg
      <4>. QED  BY <3>1, <4>1, <4>3
    <3>2. CASE s # t
      <4>1. Calling(s)' = Calling(s) /\ sent'[s] = sent[s]
        BY <1>1, <1>2, <1>6, <3>2 DEF Calling, Sender, TypeOK
      <4>. QED  BY <2>1, <4>1
    <3>. QED  BY <3>1, <3>2
  <2>3. InLine(s, wire' \o output', Queue', Calling(s)', sent'[s])
    BY <1>3, <1>4, <2>2
  <2>. QED  BY <2>3 DEF InLine, Rising, Precedes, UpTo, Has
<1>. QED  BY <1>7, <1>8, <1>9 DEF SendInv

\* send or shutdown on another thread queues the rest of its work.
LEMMA ThreadQueues ==
  ASSUME OpenInv, SendInv, NEW t \in Thread, threadRunInLoop(t)
  PROVE  SendInv'
<1> DEFINE f == calling[t]
<1>1. /\ TypeOK /\ BatchRun /\ AllCarried(Queue) /\ \A u \in Thread : Holds(u, calling[u])
      /\ Queue \in Seq(Functor) /\ wire \o output \in Seq(Byte)
  BY LineTypes DEF OpenInv, SendInv, Cargo
<1>2. f \in Functor /\ t \in Sender /\ t # Loop
  BY <1>1, LoopAssumption DEF threadRunInLoop, TypeOK, Sender
<1>3. /\ calling' = [calling EXCEPT ![t] = None] /\ pending' = pending \o <<f>>
      /\ UNCHANGED <<batch, pc, wire, output, sent, notice, failed, downs>>
  BY DEF threadRunInLoop, ToBack, connVars, loopVars, kernelVars, historyVars
<1>4. \A u \in Thread : calling'[u] = IF u = t THEN None ELSE calling[u]
  BY <1>1, <1>3 DEF TypeOK
<1> HIDE DEF f
<1>5. <<f>> \in Seq(Functor)
  BY <1>2
<1>6. Queue' = Queue \o <<f>> /\ Queue \o <<f>> \in Seq(Functor)
  <2>1. Queue' = Queue \o <<f>>
    BY <1>1, <1>3, <1>5, QueueShape
  <2>2. Queue \o <<f>> \in Seq(Functor)
    BY <1>1, <1>5, ConcatProperties
  <2>. QED  BY <2>1, <2>2
<1>7. /\ Carried(f) /\ f.run \notin {"writeComplete", "highWaterMark"}
      /\ \A s : s # t => Free(s, f.msg)
  BY <1>1 DEF f, Holds, Free
<1>8. Cargo'
  <2>1. AllCarried(Queue \o <<f>>)
    BY <1>1, <1>2, <1>7, Put
  <2>2. AllCarried(Queue')
    BY <1>6, <2>1
  <2>3. Holds(t, None)
    BY Plain DEF Holds, None
  <2>4. \A u \in Thread : Holds(u, calling'[u])
    BY <1>1, <1>4, <2>3
  <2>. QED  BY <1>1, <1>3, <2>2, <2>4 DEF Cargo, BatchRun, AllCarried, Holds, Carried
<1>9. FlowControl'
  <2>1. WarnedBy(Queue \o <<f>>, notice) <=> WarnedBy(Queue, notice)
    BY <1>1, <1>2, <1>7, Put
  <2>. QED  BY <1>1, <1>3, <1>6, <2>1, ThreadFlow DEF SendInv
<1>10. Lined'
  <2>0. ASSUME ~failed', downs' = 0 PROVE Clean(wire \o output)'
    BY <1>3, <2>0 DEF SendInv, Lined, Clean, Junk
  <2> SUFFICES ASSUME ~failed', downs' = 0, NEW s \in Sender
               PROVE  InLine(s, wire \o output, Queue, Calling(s), sent[s])'
    BY <2>0 DEF Lined
  <2>1. InLine(s, wire \o output, Queue, Calling(s), sent[s])
    BY <1>3 DEF SendInv, Lined
  <2>2. InLine(s, wire \o output, Queue \o <<f>>, Calling(s)', sent[s])
    <3>1. CASE s = t
      <4>1. Calling(s) = f.msg /\ Calling(s)' = << >> /\ Free(s, << >>)
        <5>1. calling[t] = f /\ calling'[t] = None /\ None.msg = << >> /\ Free(s, << >>)
          BY <1>4, Plain DEF f
        <5>. QED  BY <1>2, <3>1, <5>1 DEF Calling
      <4>. QED  BY <1>1, <1>2, <2>1, <4>1, LinePush
    <3>2. CASE s # t
      <4>1. Calling(s)' = Calling(s)
        BY <1>4, <3>2 DEF Calling, Sender
      <4>2. InLine(s, wire \o output, Queue \o <<f>>, Calling(s), sent[s])
        BY <1>1, <1>2, <1>7, <2>1, <3>2, LinePush
      <4>. QED  BY <4>1, <4>2
    <3>. QED  BY <3>1, <3>2
  <2>3. InLine(s, wire' \o output', Queue', Calling(s)', sent'[s])
    BY <1>3, <1>6, <2>2
  <2>. QED  BY <2>3 DEF InLine, Rising, Precedes, UpTo, Has
<1>. QED  BY <1>8, <1>9, <1>10 DEF SendInv
\* The other calls: shutdown(), on whatever thread.
LEMMA ShutdownSends ==
  ASSUME OpenInv, SendInv, shutdown \/ \E t \in Thread : threadShutdown(t) \/ threadSetState(t)
  PROVE  SendInv'
<1>1. TypeOK /\ BatchRun /\ \A t \in Thread : Holds(t, calling[t])
  BY DEF OpenInv, SendInv, Cargo
<1>2. UNCHANGED <<wire, output, notice, sent, failed, downs, batch, pending, pc>>
  BY DEF shutdown, threadShutdown, threadSetState, connVars, queueVars, loopVars, outsideVars,
         kernelVars, historyVars
<1>3. Queue' = Queue /\ BatchRun'
  BY <1>1, <1>2 DEF Queue, BatchRun
<1>4. \A t \in Thread : Holds(t, calling'[t]) /\ calling'[t].msg = calling[t].msg
  <2>1. CASE shutdown
    BY <1>1, <2>1 DEF shutdown, outsideVars
  <2>2. ASSUME NEW t \in Thread, NEW from \in {None, Checked}, NEW to \in {Checked, Shutdown},
               calling[t] = from, calling' = [calling EXCEPT ![t] = to]
        PROVE  \A u \in Thread : Holds(u, calling'[u]) /\ calling'[u].msg = calling[u].msg
    <3>1. to.msg = << >> /\ from.msg = << >> /\ Holds(t, to)
      BY Plain DEF Holds, Checked, Shutdown
    <3>2. \A u \in Thread : calling'[u] = IF u = t THEN to ELSE calling[u]
      BY <1>1, <2>2 DEF TypeOK
    <3>. QED  BY <1>1, <2>2, <3>1, <3>2
  <2>3. ASSUME NEW t \in Thread, threadShutdown(t) \/ threadSetState(t)
        PROVE  \A u \in Thread : Holds(u, calling'[u]) /\ calling'[u].msg = calling[u].msg
    BY <2>2, <2>3 DEF threadShutdown, threadSetState
  <2>. QED  BY <2>1, <2>3
<1>. QED  BY <1>1, <1>2, <1>3, <1>4, StillKeeps

\* The loop when it has nothing to do, the server, the peer and the kernel.
LEMMA OutsideSends ==
  ASSUME OpenInv, SendInv, \/ pollOther \/ loopEnds \/ removeConnectionInLoop \/ destroyServer
                           \/ peerReads \/ peerSends \/ peerCloses \/ peerResets
  PROVE  SendInv'
<1>1. /\ TypeOK /\ BatchRun /\ \A t \in Thread : Holds(t, calling[t])
      /\ Queue \in Seq(Functor) /\ pending \in Seq(Functor)
  BY LineTypes DEF OpenInv, SendInv, Cargo, TypeOK
<1>2. /\ UNCHANGED <<wire, output, notice, sent, calling, failed, downs, batch>>
      /\ pc' = pc \/ pc = "poll"
  BY DEF pollOther, loopEnds, removeConnectionInLoop, destroyServer, peerReads, peerSends, peerCloses, peerResets,
         Environment, connVars, queueVars, loopVars, outsideVars, kernelVars, historyVars
<1>3. pending' = pending \/ pending' = pending \o <<Destoryed>>
  BY <1>1, ConcatEmptySeq
     DEF pollOther, loopEnds, removeConnectionInLoop, destroyServer, peerReads, peerSends, peerCloses, peerResets,
         Environment, queueVars, ToBack
<1>4. Queue' = Queue \/ Queue' = Queue \o <<Destoryed>>
  <2>1. <<Destoryed>> \in Seq(Functor)
    BY <1>1, OthersPut DEF Others
  <2>2. CASE pending' = pending
    BY <1>2, <2>2 DEF Queue
  <2>3. CASE pending' = pending \o <<Destoryed>>
    BY <1>1, <1>2, <2>1, <2>3, QueueShape
  <2>. QED  BY <1>3, <2>2, <2>3
<1>5. BatchRun' /\ \A t \in Thread : Holds(t, calling'[t]) /\ calling'[t].msg = calling[t].msg
  BY <1>1, <1>2 DEF BatchRun
<1>. QED  BY <1>1, <1>2, <1>4, <1>5, StillKeeps

\* The initial state.
LEMMA SendInit == Init => SendInv
<1> SUFFICES ASSUME Init PROVE SendInv
  OBVIOUS
<1>1. TypeOK
  BY OpenInit DEF OpenInv
<1>2. Queue = <<Established>> /\ wire \o output = << >> /\ << >> \in Seq(Byte)
  <2>1. <<Established>> \in Seq(Functor)
    BY Plain
  <2>. QED  BY <2>1, EmptySeq, ConcatEmptySeq DEF Init, Queue
<1>3. /\ Len(Queue) = 1 /\ Queue[1].msg = << >> /\ Carried(Queue[1])
      /\ Queue[1].run \notin {"writeComplete", "highWaterMark"}
  BY <1>2, Plain DEF Established
<1>4. Cargo
  <2>1. \A t \in Thread : Holds(t, calling[t])
    BY Plain DEF Init, Holds, None
  <2>2. AllCarried(Queue)
    BY <1>3 DEF AllCarried
  <2>. QED  BY <2>1, <2>2 DEF Init, Cargo, BatchRun
<1>5. Lined
  <2>0. Clean(wire \o output)
    BY <1>2 DEF Clean
  <2> SUFFICES ASSUME NEW s \in Sender
               PROVE  InLine(s, wire \o output, Queue, Calling(s), sent[s])
    BY <2>0 DEF Lined
  <2>1. sent[s] = 0 /\ Calling(s) = << >>
    BY Plain DEF Init, Calling, Sender
  <2>2. /\ Rising(s, << >>) /\ UpTo(s, << >>, 0)
        /\ \A z : Precedes(s, << >>, z) /\ Precedes(s, z, << >>)
    BY Plain, FreeOf
  <2>3. InLine(s, << >>, Queue, << >>, 0)
    BY <1>3, <2>2 DEF InLine
  <2>. QED  BY <1>2, <2>1, <2>3
<1>6. FlowControl
  <2>1. ~Warned
    BY <1>3 DEF Init, Warned
  <2>2. Len(output) = 0
    BY EmptySeq DEF Init
  <2>. QED  BY <2>1, <2>2, BoundAssumption DEF FlowControl
<1>. QED  BY <1>4, <1>5, <1>6 DEF SendInv

\* The invariant of the way of the bytes, from send to the wire, and of the notices that
\* come back to the senders.
THEOREM SendInductive == Spec => [](OpenInv /\ SendInv)
<1>1. Init => OpenInv /\ SendInv
  BY OpenInit, SendInit
<1>2. OpenInv /\ SendInv /\ OpenInv' /\ [Next]_vars => SendInv'
  <2> SUFFICES ASSUME OpenInv, SendInv, [Next]_vars PROVE SendInv'
    OBVIOUS
  <2>1. CASE UNCHANGED vars
    <3>1. UNCHANGED <<wire, output, notice, sent, calling, failed, downs, batch, pending, pc>>
      BY <2>1 DEF vars, connVars, queueVars, loopVars, outsideVars, kernelVars, historyVars
    <3>2. /\ TypeOK /\ BatchRun' /\ Queue' = Queue
          /\ \A t \in Thread : Holds(t, calling'[t]) /\ calling'[t].msg = calling[t].msg
      BY <3>1 DEF OpenInv, SendInv, Cargo, BatchRun, Queue
    <3>. QED  BY <3>1, <3>2, StillKeeps
  <2>2. CASE LoopStep
    BY <2>2, RoundSends, FunctorsSend DEF LoopStep
  <2>3. CASE Next /\ ~LoopStep
    BY <2>3, SendSends, ThreadSends, ThreadQueues, ShutdownSends, OutsideSends DEF Next
  <2>. QED  BY <2>1, <2>2, <2>3
<1>. QED  BY <1>1, <1>2, OpenInductive, PTL DEF Spec

\* The last notice fits the buffer, whenever it comes: no sender is left unwarned of a
\* buffer that is high, and none waits for a buffer that is empty.
THEOREM FlowControlHolds == Spec => []FlowControl
<1>1. SendInv => FlowControl
  BY DEF SendInv
<1>. QED  BY <1>1, SendInductive, PTL
-----------------------------------------------------------------------------
\* A sequence between two elements.
LEMMA Between ==
  ASSUME NEW S, NEW x \in S, NEW b \in Seq(S), NEW y \in S, NEW e, e = <<x>> \o b \o <<y>>
  PROVE  /\ Len(b) \in Nat /\ Len(e) = Len(b) + 2 /\ e[1] = x /\ e[Len(b) + 2] = y
         /\ \A k \in 1 .. Len(b) : e[k + 1] = b[k]
<1> DEFINE a == <<x>>
           c == <<y>>
           d == a \o b
<1>1. /\ a \in Seq(S) /\ Len(a) = 1 /\ a[1] = x
      /\ c \in Seq(S) /\ Len(c) = 1 /\ c[1] = y /\ Len(b) \in Nat
  BY LenProperties
<1>2. e = d \o c
  OBVIOUS
<1> HIDE DEF a, c
<1>3. /\ d \in Seq(S) /\ Len(d) = 1 + Len(b)
      /\ \A i \in 1 .. 1 + Len(b) : d[i] = IF i <= 1 THEN a[i] ELSE b[i - 1]
  <2>1. a \in Seq(S) /\ b \in Seq(S)
    BY <1>1
  <2>2. /\ d \in Seq(S) /\ Len(d) = Len(a) + Len(b)
        /\ \A i \in 1 .. Len(a) + Len(b) : d[i] = IF i <= Len(a) THEN a[i] ELSE b[i - Len(a)]
    BY <2>1, ConcatProperties
  <2> HIDE DEF d
  <2>. QED  BY <1>1, <2>2
<1> HIDE DEF d
<1>4. /\ Len(e) = (1 + Len(b)) + 1
      /\ \A i \in 1 .. (1 + Len(b)) + 1 :
           e[i] = IF i <= 1 + Len(b) THEN d[i] ELSE c[i - (1 + Len(b))]
  BY <1>1, <1>2, <1>3, ConcatProperties
<1>5. e[1] = x
  BY <1>1, <1>3, <1>4
<1>6. e[Len(b) + 2] = y
  BY <1>1, <1>4
<1>7. ASSUME NEW k \in 1 .. Len(b) PROVE e[k + 1] = b[k]
  <2>1. /\ k + 1 \in 1 .. 1 + Len(b) /\ k + 1 \in 1 .. (1 + Len(b)) + 1
        /\ k + 1 <= 1 + Len(b) /\ ~(k + 1 <= 1) /\ (k + 1) - 1 = k
    BY <1>1
  <2>. QED  BY <1>3, <1>4, <2>1
<1>. QED  BY <1>1, <1>4, <1>5, <1>6, <1>7

\* The pieces of a sender's bytes: written and buffered, queued, in the call.
LEMMA PieceAt ==
  ASSUME TypeOK, NEW s \in Sender
  PROVE  /\ Len(Queue) \in Nat /\ Len(Pieces(s)) = Len(Queue) + 2
         /\ Pieces(s)[1] = wire \o output /\ Pieces(s)[Len(Queue) + 2] = Calling(s)
         /\ \A k \in 1 .. Len(Queue) : Pieces(s)[k + 1] = Queue[k].msg
<1> DEFINE len == Len(Queue)
           msg(k) == Queue[k].msg
           b == [k \in 1 .. len |-> msg(k)]
           stream == wire \o output
           Piece == Seq(Byte)
<1>1. Queue \in Seq(Functor) /\ stream \in Piece /\ Calling(s) \in Piece /\ len \in Nat
  BY LineTypes, LenProperties
<1>2. \A k \in 1 .. len : msg(k) \in Piece
  <2>1. \A k \in 1 .. Len(Queue) : Queue[k] \in Functor
    BY <1>1, ElementOfSeq
  <2>. QED  BY <2>1 DEF Functor
<1>3. Pieces(s) = <<stream>> \o b \o <<Calling(s)>>
  BY DEF Pieces
<1> HIDE DEF len, msg, stream, Piece
<1>4. b \in Seq(Piece) /\ Len(b) = len /\ \A k \in 1 .. len : b[k] = msg(k)
  BY <1>1, <1>2
<1> HIDE DEF b
<1>5. /\ Len(Pieces(s)) = len + 2 /\ Pieces(s)[1] = stream /\ Pieces(s)[len + 2] = Calling(s)
      /\ \A k \in 1 .. len : Pieces(s)[k + 1] = b[k]
  BY <1>1, <1>3, <1>4, Between
<1>6. \A k \in 1 .. len : Pieces(s)[k + 1] = msg(k)
  BY <1>4, <1>5
<1>. QED  BY <1>1, <1>5, <1>6 DEF len, msg, stream

\* Bytes that are in line are accounted for.
LEMMA InLineAccounted ==
  ASSUME TypeOK, NEW s \in Sender, InLine(s, wire \o output, Queue, Calling(s), sent[s])
  PROVE  Accounted(s)
<1> DEFINE p == Pieces(s)
           last == Len(Queue) + 2
<1>1. /\ Len(Queue) \in Nat /\ Len(p) = last
      /\ p[1] = wire \o output /\ p[last] = Calling(s)
      /\ \A k \in 1 .. Len(Queue) : p[k + 1] = Queue[k].msg
  BY PieceAt
<1>2. sent[s] \in Nat
  BY LineTypes
<1> HIDE DEF p
<1>3. /\ 1 \in 1 .. Len(p) /\ last \in 1 .. Len(p)
      /\ \A k \in 1 .. Len(Queue) : k + 1 \in 1 .. Len(p)
      /\ \A k \in 1 .. Len(p) : k = 1 \/ k = last \/ (k - 1 \in 1 .. Len(Queue) /\ (k - 1) + 1 = k)
  BY <1>1
<1>4. ASSUME NEW k \in 1 .. Len(p)
      PROVE  \/ k = 1 /\ p[k] = wire \o output
             \/ k = last /\ p[k] = Calling(s)
             \/ k - 1 \in 1 .. Len(Queue) /\ p[k] = Queue[k - 1].msg
  BY <1>1, <1>3
<1>5. ASSUME NEW k \in 1 .. Len(p) PROVE Rising(s, p[k]) /\ UpTo(s, p[k], sent[s])
  <2>1. CASE k - 1 \in 1 .. Len(Queue) /\ p[k] = Queue[k - 1].msg
    BY <2>1 DEF InLine
  <2>. QED  BY <1>4, <2>1 DEF InLine
<1>6. ASSUME NEW k \in 1 .. Len(p), NEW l \in 1 .. Len(p), k < l PROVE Precedes(s, p[k], p[l])
  <2>1. k # last /\ l # 1
    BY <1>1, <1>6
  <2>2. CASE k = 1 /\ p[k] = wire \o output
    <3>1. CASE l = last /\ p[l] = Calling(s)
      BY <2>2, <3>1 DEF InLine
    <3>2. CASE l - 1 \in 1 .. Len(Queue) /\ p[l] = Queue[l - 1].msg
      BY <2>2, <3>2 DEF InLine
    <3>. QED  BY <1>4, <2>1, <3>1, <3>2
  <2>3. CASE k - 1 \in 1 .. Len(Queue) /\ p[k] = Queue[k - 1].msg
    <3>1. CASE l = last /\ p[l] = Calling(s)
      BY <2>3, <3>1 DEF InLine
    <3>2. CASE l - 1 \in 1 .. Len(Queue) /\ p[l] = Queue[l - 1].msg
      <4>1. k - 1 < l - 1
        BY <1>6
      <4>. QED  BY <2>3, <3>2, <4>1 DEF InLine
    <3>. QED  BY <1>4, <2>1, <3>1, <3>2
  <2>. QED  BY <1>4, <2>1, <2>2, <2>3
<1>7. ASSUME NEW n \in 1 .. MaxBytes, n <= sent[s]
      PROVE  \E k \in 1 .. Len(p) : Has(s, p[k], n)
  <2>1. n \in 1 .. sent[s]
    BY <1>2, <1>7
  <2>2. \/ Has(s, wire \o output, n) \/ Has(s, Calling(s), n)
        \/ \E k \in 1 .. Len(Queue) : Has(s, Queue[k].msg, n)
    BY <2>1 DEF InLine
  <2>. QED  BY <1>1, <1>3, <2>2
<1>8. ASSUME NEW n \in 1 .. MaxBytes, NEW k \in 1 .. Len(p), Has(s, p[k], n)
      PROVE  n <= sent[s]
  BY <1>5, <1>8 DEF Has, UpTo
<1>9. \A n \in 1 .. MaxBytes : n <= sent[s] <=> \E k \in 1 .. Len(p) : Has(s, p[k], n)
  BY <1>7, <1>8
<1>. QED  BY <1>5, <1>6, <1>9 DEF Accounted, p

\* No byte that send has accepted is lost, doubled or overtaken by a later one of its
\* sender on its way to the wire, whichever threads send, and no other byte gets there:
\* only a failing write can put one there.
THEOREM StreamIntactHolds == Spec => []StreamIntact
<1>1. OpenInv /\ SendInv => StreamIntact
  BY InLineAccounted DEF OpenInv, SendInv, Lined, Clean, OnlyMessages, StreamIntact
<1>. QED  BY <1>1, SendInductive, PTL
\* Data that was sent on the loop thread is sent before SHUT_WR: it never waits in the
\* queue, and the half-close waits for the buffer.  Only messages of other threads can be
\* left behind, which SentBeforeShutdown is about.
LoopSentBeforeShutdown == (wrShut /\ ~failed /\ downs = 0) =>
                            \A n \in 1 .. sent[Loop] : Has(Loop, wire, n)

\* shutdownInLoop closes the sending side, on whatever thread shutdown() was called, only
\* when all that send took from the loop thread is written.
THEOREM LoopSentBeforeShutdownHolds == Spec => []LoopSentBeforeShutdown
<1>1. OpenInv /\ SendInv => LoopSentBeforeShutdown
  <2> SUFFICES ASSUME OpenInv, SendInv, wrShut, ~failed, downs = 0, NEW n \in 1 .. sent[Loop]
               PROVE  Has(Loop, wire, n)
    BY DEF LoopSentBeforeShutdown
  <2>1. Loop \in Sender /\ Calling(Loop) = << >>
    BY DEF Sender, Calling
  <2>2. wire \o output = wire
    <3>1. output = << >> /\ wire \in Seq(Byte)
      BY DEF OpenInv, ShutdownFlushes, TypeOK
    <3>. QED  BY <3>1, ConcatEmptySeq
  <2>3. InLine(Loop, wire, Queue, << >>, sent[Loop])
    BY <2>1, <2>2 DEF SendInv, Lined
  <2>4. \A k \in 1 .. Len(Queue) : Free(Loop, Queue[k].msg)
    BY LoopAssumption DEF SendInv, Cargo, AllCarried, Carried, Free
  <2>5. ~Has(Loop, << >>, n) /\ \A k \in 1 .. Len(Queue) : ~Has(Loop, Queue[k].msg, n)
    BY <2>4, Plain, FreeOf
  <2>. QED  BY <2>3, <2>5 DEF InLine
<1>. QED  BY <1>1, SendInductive, PTL
=============================================================================
