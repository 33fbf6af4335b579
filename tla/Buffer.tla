------------------------------- MODULE Buffer -------------------------------
(***************************************************************************)
(* Buffer (src/src/Buffer.h, Buffer.cpp): a byte vector with a reader and  *)
(* a writer index.  One loop thread uses it; every call is one step.       *)
(*                                                                         *)
(* The indices are natural numbers here.  They never leave 0 .. size, and  *)
(* size stays below SizeBound, so size_t arithmetic does not wrap; the     *)
(* calls that do wrap are those of module BufferReadError.                 *)
(***************************************************************************)
EXTENDS Integers, Sequences

CONSTANTS Byte, Zero,       \* the values of a byte; what resize fills with
          kCheapPrepend,    \* 8 in the code
          kInitialSize,     \* 1024 in the code
          ExtraBuf,         \* sizeof extrabuf in readFd, 65536 in the code
          MaxReadable       \* bound on the bytes held, for TLC and SizeBounded

ASSUME ByteAssumption == Zero \in Byte
ASSUME SizeAssumption == /\ kCheapPrepend \in Nat
                         /\ kInitialSize \in Nat
                         /\ ExtraBuf \in Nat
                         /\ MaxReadable \in Nat

VARIABLES buf,   \* m_buffer, m_readerIdx and m_writerIdx
          io     \* direction and bytes of the last call (history)

vars == <<buf, io>>

readableBytes(b) == b.writer - b.reader
writableBytes(b) == Len(b.bytes) - b.writer
prependableBytes(b) == b.reader

\* The readable bytes from peek() on: the first len of them.
peek(b, len) == SubSeq(b.bytes, b.reader + 1, b.reader + len)

retrieveAll(b) == [b EXCEPT !.reader = kCheapPrepend, !.writer = kCheapPrepend]

retrieve(b, len) == IF len < readableBytes(b) THEN [b EXCEPT !.reader = @ + len]
                                              ELSE retrieveAll(b)

\* vector::resize and the std::copy of chunk to position at of a vector.
resize(bytes, n) == [i \in 1 .. n |-> IF i <= Len(bytes) THEN bytes[i] ELSE Zero]
copyTo(bytes, at, chunk) ==
  [i \in 1 .. Len(bytes) |-> IF i > at /\ i <= at + Len(chunk) THEN chunk[i - at]
                                                               ELSE bytes[i]]

compacted(b) ==
  LET content == peek(b, readableBytes(b))
  IN  [bytes  |-> copyTo(b.bytes, kCheapPrepend, content),
       reader |-> kCheapPrepend,
       writer |-> kCheapPrepend + Len(content)]

grown(b, len) == [b EXCEPT !.bytes = resize(@, b.writer + len)]

\* Defect: the free space before the reader index is never reused.
makeSpaceGrow(b, len) == grown(b, len)

\* Defect: the indices move to the front and the bytes do not.
makeSpaceNoCopy(b, len) ==
  IF writableBytes(b) + prependableBytes(b) < len + kCheapPrepend
    THEN grown(b, len)
    ELSE [b EXCEPT !.reader = kCheapPrepend, !.writer = kCheapPrepend + readableBytes(b)]

\* Defect: the room kept for prepending counts as free.
makeSpacePrepend(b, len) ==
  IF writableBytes(b) + prependableBytes(b) < len THEN grown(b, len) ELSE compacted(b)

makeSpace(b, len) ==
  IF writableBytes(b) + prependableBytes(b) < len + kCheapPrepend
    THEN grown(b, len)
    ELSE compacted(b)

ensureWritableBytes(b, len) == IF writableBytes(b) < len THEN makeSpace(b, len) ELSE b

append(b, chunk) ==
  LET room == ensureWritableBytes(b, Len(chunk))
  IN  [room EXCEPT !.bytes = copyTo(@, room.writer, chunk),
                   !.writer = @ + Len(chunk)]

\* readv of chunk into the writable bytes and then into extrabuf.
readFd(b, chunk) ==
  LET writable == writableBytes(b)
      n == Len(chunk)
  IN  IF n < writable
        THEN [b EXCEPT !.bytes = copyTo(@, b.writer, chunk), !.writer = @ + n]
        ELSE append([b EXCEPT !.bytes = copyTo(@, b.writer, SubSeq(chunk, 1, writable)),
                              !.writer = Len(b.bytes)],
                    SubSeq(chunk, writable + 1, n))
-----------------------------------------------------------------------------
\* Chunks that keep the content within MaxReadable.
Chunks == UNION {[1 .. n -> Byte] : n \in 0 .. MaxReadable - readableBytes(buf)}

Init == /\ buf = [bytes  |-> [i \in 1 .. kCheapPrepend + kInitialSize |-> Zero],
                  reader |-> kCheapPrepend,
                  writer |-> kCheapPrepend]
        /\ io = [dir |-> "put", data |-> << >>]

\* append: sendInLoop's unwritten rest of a message.
Append_ == \E chunk \in Chunks :
             /\ buf' = append(buf, chunk)
             /\ io' = [dir |-> "put", data |-> chunk]

\* readFd when readv succeeds, with as much as two vectors take.
Read == \E chunk \in Chunks :
          /\ Len(chunk) <= writableBytes(buf)
                           + (IF writableBytes(buf) < ExtraBuf THEN ExtraBuf ELSE 0)
          /\ buf' = readFd(buf, chunk)
          /\ io' = [dir |-> "put", data |-> chunk]

\* retrieveAsString(len), and in handleWrite writeFd followed by retrieve(n).
Retrieve == \E len \in 0 .. readableBytes(buf) :
              /\ buf' = retrieve(buf, len)
              /\ io' = [dir |-> "take", data |-> peek(buf, len)]

Next == Append_ \/ Read \/ Retrieve

Spec == Init /\ [][Next]_vars
-----------------------------------------------------------------------------
\* The picture at the head of Buffer.h: the indices split the vector in three.
IndexOrder == /\ kCheapPrepend <= buf.reader
              /\ buf.reader <= buf.writer
              /\ buf.writer <= Len(buf.bytes)

TypeOK == /\ buf.bytes \in Seq(Byte)
          /\ buf.reader \in Nat
          /\ buf.writer \in Nat
          /\ IndexOrder
          /\ readableBytes(buf) <= MaxReadable

\* However long the connection lives, makeSpace's choice between moving and
\* growing keeps the vector within twice the most bytes it ever has to hold.
LargestOf(m, n) == IF m > n THEN m ELSE n
SizeBound == kCheapPrepend + LargestOf(kInitialSize, 2 * MaxReadable)
SizeBounded == Len(buf.bytes) <= SizeBound

\* Growing, moving to the front and the split read never lose, repeat or reorder
\* a byte: append, readFd, retrieve and makeSpace implement a queue of bytes.
Queue == INSTANCE ByteQueue WITH bytes <- peek(buf, readableBytes(buf))
ImplementsQueue == Queue!Spec
=============================================================================
