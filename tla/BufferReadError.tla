-------------------------- MODULE BufferReadError --------------------------
(***************************************************************************)
(* Buffer::readFd when readv returns -1.  Its result is kept in a size_t,  *)
(* so n < 0 never holds and the failure is taken for a read of SIZE_MAX    *)
(* bytes; the arithmetic below is that of a size_t.                        *)
(***************************************************************************)
EXTENDS Buffer

CONSTANT Word    \* SIZE_MAX + 1, more than any size a buffer reaches

SizeMax == Word - 1

\* Since n < writable is false: the writer index goes to the end, and append is
\* given SIZE_MAX - writable bytes of extrabuf.  The count that std::copy then
\* computes is negative: it copies nothing, or the program crashes, which is no
\* step of this specification.
readFdFails(b) ==
  LET len == (SizeMax - writableBytes(b)) % Word
      full == [b EXCEPT !.writer = Len(b.bytes)]
      room == IF prependableBytes(full) < (len + kCheapPrepend) % Word
                THEN [full EXCEPT !.bytes = resize(@, (full.writer + len) % Word)]
                ELSE compacted(full)
  IN  [room EXCEPT !.writer = (@ + len) % Word]

\* handleRead: the connection was reset after epoll_wait reported it readable.
ReadError == /\ buf' = readFdFails(buf)
             /\ io' = [dir |-> "put", data |-> << >>]

\* A buffer whose indices are out of order is followed no further.
ErrorNext == IndexOrder /\ (Next \/ ReadError)

ErrorSpec == Init /\ [][ErrorNext]_vars
=============================================================================
