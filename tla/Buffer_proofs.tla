--------------------------- MODULE Buffer_proofs ---------------------------
(***************************************************************************)
(* Proofs about Buffer for every byte alphabet, sizes and bound.           *)
(***************************************************************************)
EXTENDS Buffer, SequenceTheorems, TLAPS

Bytes == Seq(Byte)
BufferRecord == [bytes : Bytes, reader : Nat, writer : Nat]

\* The indices of a legal buffer (the picture in Buffer.h).
Ordered(b) == /\ b \in BufferRecord
              /\ kCheapPrepend <= b.reader
              /\ b.reader <= b.writer
              /\ b.writer <= Len(b.bytes)

content(b) == peek(b, readableBytes(b))

\* resize yields a vector of the new length that begins with the old bytes.
LEMMA ResizeProperties ==
  ASSUME NEW s \in Bytes, NEW n \in Nat
  PROVE  /\ resize(s, n) \in Bytes
         /\ Len(resize(s, n)) = n
         /\ \A i \in 1 .. n : i <= Len(s) => resize(s, n)[i] = s[i]
<1>1. \A i \in 1 .. n : (IF i <= Len(s) THEN s[i] ELSE Zero) \in Byte
  BY ByteAssumption, LenProperties, ElementOfSeq DEF Bytes
<1>2. resize(s, n) \in [1 .. n -> Byte]
  BY <1>1 DEF resize
<1>3. resize(s, n) \in Seq(Byte) /\ Len(resize(s, n)) = n
  BY <1>2, IsASeq, LenProperties
<1>. QED  BY <1>3 DEF resize, Bytes

\* copyTo changes the bytes at .. at + Len(chunk) and no others.
LEMMA CopyProperties ==
  ASSUME NEW s \in Bytes, NEW at \in Nat, NEW chunk \in Bytes
  PROVE  /\ copyTo(s, at, chunk) \in Bytes
         /\ Len(copyTo(s, at, chunk)) = Len(s)
         /\ \A i \in 1 .. Len(s) :
              copyTo(s, at, chunk)[i] = IF i > at /\ i <= at + Len(chunk) THEN chunk[i - at]
                                                                         ELSE s[i]
<1>1. \A i \in 1 .. Len(s) :
        (IF i > at /\ i <= at + Len(chunk) THEN chunk[i - at] ELSE s[i]) \in Byte
  BY LenProperties, ElementOfSeq DEF Bytes
<1>2. copyTo(s, at, chunk) \in [1 .. Len(s) -> Byte]
  BY <1>1 DEF copyTo
<1>3. copyTo(s, at, chunk) \in Seq(Byte) /\ Len(copyTo(s, at, chunk)) = Len(s)
  BY <1>2, LenProperties DEF Bytes
<1>. QED  BY <1>3 DEF copyTo, Bytes

\* What peek shows (peek, readableBytes).
LEMMA PeekProperties ==
  ASSUME NEW b, Ordered(b), NEW len \in 0 .. readableBytes(b)
  PROVE  /\ peek(b, len) \in Bytes
         /\ Len(peek(b, len)) = len
         /\ \A i \in 1 .. len : peek(b, len)[i] = b.bytes[b.reader + i]
<1>1. /\ b.bytes \in Seq(Byte) /\ b.reader \in Nat /\ b.writer \in Nat
      /\ b.reader + len <= Len(b.bytes) /\ len \in Nat
  BY SizeAssumption DEF Ordered, BufferRecord, Bytes, readableBytes
<1>2. \A i \in b.reader + 1 .. b.reader + len : b.bytes[i] \in Byte
  BY <1>1, ElementOfSeq, SizeAssumption
<1>3. /\ peek(b, len) \in Seq(Byte)
      /\ Len(peek(b, len)) = IF b.reader + 1 <= b.reader + len
                               THEN (b.reader + len) - (b.reader + 1) + 1 ELSE 0
      /\ \A i \in 1 .. (b.reader + len) - (b.reader + 1) + 1 :
           peek(b, len)[i] = b.bytes[b.reader + 1 + i - 1]
  <2>1. b.reader + 1 \in Int /\ b.reader + len \in Int
    BY <1>1
  <2> DEFINE first == b.reader + 1
             last == b.reader + len
  <2> HIDE DEF first, last
  <2>2. first \in Int /\ last \in Int /\ \A i \in first .. last : b.bytes[i] \in Byte
    BY <1>2, <2>1 DEF first, last
  <2>3. /\ SubSeq(b.bytes, first, last) \in Seq(Byte)
        /\ Len(SubSeq(b.bytes, first, last)) = IF first <= last THEN last - first + 1 ELSE 0
        /\ \A i \in 1 .. last - first + 1 :
             SubSeq(b.bytes, first, last)[i] = b.bytes[first + i - 1]
    BY <2>2, SubSeqProperties
  <2>. QED  BY <2>3 DEF peek, first, last
<1>4. Len(peek(b, len)) = len
  BY <1>1, <1>3
<1>5. \A i \in 1 .. len : peek(b, len)[i] = b.bytes[b.reader + i]
  <2> SUFFICES ASSUME NEW i \in 1 .. len
               PROVE  peek(b, len)[i] = b.bytes[b.reader + i]
    OBVIOUS
  <2>1. i \in 1 .. (b.reader + len) - (b.reader + 1) + 1 /\ b.reader + 1 + i - 1 = b.reader + i
    BY <1>1
  <2>. QED  BY <1>3, <2>1, Zenon
<1>. QED  BY <1>3, <1>4, <1>5 DEF Bytes

\* What a legal buffer holds: its readable bytes, one after another.
LEMMA ContentProperties ==
  ASSUME NEW b, Ordered(b)
  PROVE  /\ readableBytes(b) \in Nat
         /\ content(b) \in Bytes
         /\ Len(content(b)) = readableBytes(b)
         /\ \A i \in 1 .. readableBytes(b) : content(b)[i] = b.bytes[b.reader + i]
<1> DEFINE r == readableBytes(b)
<1>1. r \in Nat
  BY DEF Ordered, BufferRecord, readableBytes
<1>2. r \in 0 .. readableBytes(b)
  BY <1>1
<1> HIDE DEF r
<1>3. /\ peek(b, r) \in Bytes /\ Len(peek(b, r)) = r
      /\ \A i \in 1 .. r : peek(b, r)[i] = b.bytes[b.reader + i]
  BY <1>2, PeekProperties
<1>4. peek(b, r) = content(b)
  BY DEF content, r
<1>5. /\ r \in Nat /\ content(b) \in Bytes /\ Len(content(b)) = r
      /\ \A i \in 1 .. r : content(b)[i] = b.bytes[b.reader + i]
  BY <1>1, <1>3, <1>4
<1>. QED  BY <1>5, Zenon DEF r

\* A buffer with the readable bytes of another one in the same places holds the
\* same content.
LEMMA SameContent ==
  ASSUME NEW b, Ordered(b), NEW d, Ordered(d),
         readableBytes(d) = readableBytes(b),
         \A i \in 1 .. readableBytes(b) : d.bytes[d.reader + i] = b.bytes[b.reader + i]
  PROVE  content(d) = content(b)
<1> DEFINE r == readableBytes(b)
           cb == content(b)
           cd == content(d)
<1>1. /\ cb \in Bytes /\ Len(cb) = r
      /\ \A i \in 1 .. r : cb[i] = b.bytes[b.reader + i]
  BY ContentProperties
<1>2. /\ cd \in Bytes /\ Len(cd) = r
      /\ \A i \in 1 .. r : cd[i] = d.bytes[d.reader + i]
  <2>1. /\ cd \in Bytes /\ Len(cd) = readableBytes(d)
        /\ \A i \in 1 .. readableBytes(d) : cd[i] = d.bytes[d.reader + i]
    BY ContentProperties
  <2>2. readableBytes(d) = r
    OBVIOUS
  <2>. QED  BY <2>1, <2>2, Zenon
<1>3. \A i \in 1 .. r : d.bytes[d.reader + i] = b.bytes[b.reader + i]
  OBVIOUS
<1> HIDE DEF r, cb, cd
<1>4. \A i \in 1 .. Len(cb) : cd[i] = cb[i]
  BY <1>1, <1>2, <1>3, Zenon
<1>5. cb \in Seq(Byte) /\ cd \in Seq(Byte) /\ Len(cb) = Len(cd)
  BY <1>1, <1>2 DEF Bytes
<1>6. cd = cb
  BY <1>4, <1>5, SeqEqual
<1>. QED  BY <1>6 DEF cb, cd

\* Growing the vector keeps order and content and makes the room asked for.
LEMMA GrownProperties ==
  ASSUME NEW b, Ordered(b), NEW len \in Nat, writableBytes(b) < len
  PROVE  LET g == grown(b, len)
         IN  /\ Ordered(g) /\ g.reader = b.reader /\ g.writer = b.writer
             /\ writableBytes(g) = len
             /\ content(g) = content(b)
<1> DEFINE g == grown(b, len)
<1>1. /\ b.bytes \in Bytes /\ b.reader \in Nat /\ b.writer \in Nat /\ b.reader <= b.writer
      /\ b.writer <= Len(b.bytes) /\ Len(b.bytes) \in Nat /\ kCheapPrepend <= b.reader
  BY LenProperties DEF Ordered, BufferRecord, Bytes
<1>2. g = [bytes |-> resize(b.bytes, b.writer + len), reader |-> b.reader, writer |-> b.writer]
  BY DEF grown, Ordered, BufferRecord
<1>3. /\ g.bytes \in Bytes /\ Len(g.bytes) = b.writer + len
      /\ \A i \in 1 .. b.writer + len : i <= Len(b.bytes) => g.bytes[i] = b.bytes[i]
  <2>1. b.writer + len \in Nat /\ g.bytes = resize(b.bytes, b.writer + len)
    BY <1>1, <1>2
  <2> DEFINE n == b.writer + len
  <2> HIDE DEF n, g
  <2>2. n \in Nat /\ g.bytes = resize(b.bytes, n)
    BY <2>1 DEF n
  <2>3. /\ g.bytes \in Bytes /\ Len(g.bytes) = n
        /\ \A i \in 1 .. n : i <= Len(b.bytes) => g.bytes[i] = b.bytes[i]
    <3>1. \A t \in Bytes, m \in Nat :
            /\ resize(t, m) \in Bytes /\ Len(resize(t, m)) = m
            /\ \A i \in 1 .. m : i <= Len(t) => resize(t, m)[i] = t[i]
      BY ResizeProperties
    <3>2. b.bytes \in Bytes
      BY <1>1
    <3>3. /\ resize(b.bytes, n) \in Bytes /\ Len(resize(b.bytes, n)) = n
          /\ \A i \in 1 .. n : i <= Len(b.bytes) => resize(b.bytes, n)[i] = b.bytes[i]
      BY <2>2, <3>1, <3>2, Zenon
    <3>. QED  BY <2>2, <3>3
  <2>. QED  BY <2>3 DEF n
<1>4. Ordered(g) /\ writableBytes(g) = len
  BY <1>1, <1>2, <1>3 DEF Ordered, BufferRecord, writableBytes
<1>5. readableBytes(g) = readableBytes(b) /\ g.reader = b.reader
  BY <1>2 DEF readableBytes
<1>6. \A i \in 1 .. readableBytes(b) : g.bytes[g.reader + i] = b.bytes[b.reader + i]
  <2> SUFFICES ASSUME NEW i \in 1 .. readableBytes(b)
               PROVE  g.bytes[b.reader + i] = b.bytes[b.reader + i]
    BY <1>5
  <2>1. b.reader + i \in 1 .. b.writer + len /\ b.reader + i <= Len(b.bytes)
    BY <1>1 DEF readableBytes
  <2>. QED  BY <1>3, <2>1, Zenon
<1>7. content(g) = content(b)
  BY <1>4, <1>5, <1>6, SameContent
<1>. QED  BY <1>2, <1>4, <1>7

\* Moving the content to the front keeps order, content and size, and makes room.
LEMMA CompactedProperties ==
  ASSUME NEW b, Ordered(b)
  PROVE  LET g == compacted(b)
         IN  /\ Ordered(g) /\ Len(g.bytes) = Len(b.bytes)
             /\ writableBytes(g) = Len(b.bytes) - readableBytes(b) - kCheapPrepend
             /\ readableBytes(g) = readableBytes(b)
             /\ content(g) = content(b)
<1> DEFINE g == compacted(b)
           r == readableBytes(b)
<1>1. /\ b.bytes \in Bytes /\ b.reader \in Nat /\ b.writer \in Nat /\ b.reader <= b.writer
      /\ b.writer <= Len(b.bytes) /\ Len(b.bytes) \in Nat /\ kCheapPrepend <= b.reader
      /\ r = b.writer - b.reader /\ r \in Nat /\ kCheapPrepend \in Nat
  BY LenProperties, SizeAssumption DEF Ordered, BufferRecord, Bytes, readableBytes
<1>2. /\ peek(b, r) \in Bytes /\ Len(peek(b, r)) = r
      /\ \A i \in 1 .. r : peek(b, r)[i] = b.bytes[b.reader + i]
  BY <1>1, PeekProperties
<1>3. g = [bytes |-> copyTo(b.bytes, kCheapPrepend, peek(b, r)),
           reader |-> kCheapPrepend, writer |-> kCheapPrepend + r]
  BY <1>2 DEF compacted
<1>4. /\ g.bytes \in Bytes /\ Len(g.bytes) = Len(b.bytes)
      /\ \A i \in 1 .. Len(b.bytes) :
           g.bytes[i] = IF i > kCheapPrepend /\ i <= kCheapPrepend + r
                          THEN peek(b, r)[i - kCheapPrepend] ELSE b.bytes[i]
  BY <1>1, <1>2, <1>3, CopyProperties
<1>5. Ordered(g) /\ readableBytes(g) = r
  BY <1>1, <1>3, <1>4 DEF Ordered, BufferRecord, readableBytes
<1>6. \A i \in 1 .. r : g.bytes[g.reader + i] = b.bytes[b.reader + i]
  <2> SUFFICES ASSUME NEW i \in 1 .. r
               PROVE  g.bytes[kCheapPrepend + i] = b.bytes[b.reader + i]
    BY <1>3
  <2>1. kCheapPrepend + i \in 1 .. Len(b.bytes)
    BY <1>1
  <2>2. g.bytes[kCheapPrepend + i] = peek(b, r)[(kCheapPrepend + i) - kCheapPrepend]
    BY <1>1, <1>4, <2>1
  <2>3. (kCheapPrepend + i) - kCheapPrepend = i
    BY <1>1
  <2>. QED  BY <1>2, <2>2, <2>3
<1>7. content(g) = content(b)
  BY <1>5, <1>6, SameContent
<1>8. writableBytes(g) = Len(b.bytes) - r - kCheapPrepend
  BY <1>1, <1>3, <1>4 DEF writableBytes
<1>. QED  BY <1>4, <1>5, <1>7, <1>8

\* ensureWritableBytes makes the room without touching the content, and grows the
\* vector only when the bytes to hold fill more than half of it.
LEMMA EnsureProperties ==
  ASSUME NEW b, Ordered(b), NEW len \in Nat
  PROVE  LET g == ensureWritableBytes(b, len)
         IN  /\ Ordered(g) /\ writableBytes(g) >= len
             /\ readableBytes(g) = readableBytes(b)
             /\ content(g) = content(b)
             /\ \/ Len(g.bytes) = Len(b.bytes)
                \/ Len(g.bytes) <= kCheapPrepend + 2 * (readableBytes(b) + len)
<1>1. /\ b.reader \in Nat /\ b.writer \in Nat /\ Len(b.bytes) \in Nat /\ kCheapPrepend \in Nat
      /\ b.reader <= b.writer /\ b.writer <= Len(b.bytes) /\ kCheapPrepend <= b.reader
  BY LenProperties, SizeAssumption DEF Ordered, BufferRecord, Bytes
<1>2. CASE ~(writableBytes(b) < len)
  BY <1>1, <1>2 DEF ensureWritableBytes, writableBytes
<1>3. CASE /\ writableBytes(b) < len
           /\ writableBytes(b) + prependableBytes(b) < len + kCheapPrepend
  <2> DEFINE g == grown(b, len)
  <2>1. ensureWritableBytes(b, len) = g
    BY <1>3 DEF ensureWritableBytes, makeSpace
  <2>2. /\ Ordered(g) /\ g.reader = b.reader /\ g.writer = b.writer
        /\ writableBytes(g) = len /\ content(g) = content(b)
    BY <1>3, GrownProperties
  <2> HIDE DEF g
  <2>3. readableBytes(g) = readableBytes(b)
    BY <2>2 DEF readableBytes
  <2>4. Len(g.bytes) = b.writer + len
    <3>1. Len(g.bytes) \in Nat
      BY <2>2, LenProperties DEF Ordered, BufferRecord, Bytes
    <3>. QED  BY <1>1, <2>2, <3>1 DEF writableBytes
  <2>5. b.writer + len <= kCheapPrepend + 2 * (readableBytes(b) + len)
    BY <1>1, <1>3 DEF writableBytes, prependableBytes, readableBytes
  <2>. QED  BY <2>1, <2>2, <2>3, <2>4, <2>5
<1>4. CASE /\ writableBytes(b) < len
           /\ ~(writableBytes(b) + prependableBytes(b) < len + kCheapPrepend)
  <2> DEFINE g == compacted(b)
  <2>1. ensureWritableBytes(b, len) = g
    BY <1>4 DEF ensureWritableBytes, makeSpace
  <2>2. /\ Ordered(g) /\ Len(g.bytes) = Len(b.bytes)
        /\ writableBytes(g) = Len(b.bytes) - readableBytes(b) - kCheapPrepend
        /\ readableBytes(g) = readableBytes(b) /\ content(g) = content(b)
    BY CompactedProperties
  <2> HIDE DEF g
  <2>3. writableBytes(g) >= len
    BY <1>1, <1>4, <2>2 DEF writableBytes, prependableBytes, readableBytes
  <2>. QED  BY <2>1, <2>2, <2>3
<1>. QED  BY <1>2, <1>3, <1>4

\* Bytes copied behind the writer index are the new end of the content.
Written(b, chunk) == [b EXCEPT !.bytes = copyTo(@, b.writer, chunk), !.writer = @ + Len(chunk)]

LEMMA WrittenProperties ==
  ASSUME NEW b, Ordered(b), NEW chunk \in Bytes, Len(chunk) <= writableBytes(b)
  PROVE  LET d == Written(b, chunk)
         IN  /\ Ordered(d) /\ Len(d.bytes) = Len(b.bytes)
             /\ d.writer = b.writer + Len(chunk)
             /\ readableBytes(d) = readableBytes(b) + Len(chunk)
             /\ content(d) = content(b) \o chunk
<1> DEFINE d == Written(b, chunk)
           r == readableBytes(b)
           n == Len(chunk)
<1>1. /\ b.bytes \in Bytes /\ b.reader \in Nat /\ b.writer \in Nat /\ Len(b.bytes) \in Nat
      /\ kCheapPrepend \in Nat /\ n \in Nat /\ r \in Nat /\ r = b.writer - b.reader
      /\ b.reader <= b.writer /\ b.writer <= Len(b.bytes) /\ kCheapPrepend <= b.reader
      /\ b.writer + n <= Len(b.bytes)
  BY LenProperties, SizeAssumption DEF Ordered, BufferRecord, Bytes, readableBytes, writableBytes
<1>2. d = [bytes |-> copyTo(b.bytes, b.writer, chunk), reader |-> b.reader,
           writer |-> b.writer + n]
  <2>1. b = [bytes |-> b.bytes, reader |-> b.reader, writer |-> b.writer]
    BY DEF Ordered, BufferRecord
  <2>2. DOMAIN b = {"bytes", "reader", "writer"}
    BY <2>1
  <2>3. d = [f \in DOMAIN b |-> IF f = "writer" THEN b.writer + n
                               ELSE IF f = "bytes" THEN copyTo(b.bytes, b.writer, chunk)
                               ELSE b[f]]
    BY <2>2 DEF Written
  <2>. QED  BY <2>2, <2>3
<1>3. /\ d.bytes \in Bytes /\ Len(d.bytes) = Len(b.bytes)
      /\ \A i \in 1 .. Len(b.bytes) :
           d.bytes[i] = IF i > b.writer /\ i <= b.writer + n THEN chunk[i - b.writer]
                                                             ELSE b.bytes[i]
  BY <1>1, <1>2, CopyProperties
<1>4. Ordered(d) /\ readableBytes(d) = r + n /\ d.writer = b.writer + n /\ d.reader = b.reader
  BY <1>1, <1>2, <1>3 DEF Ordered, BufferRecord, readableBytes
<1>5. /\ content(d) \in Bytes /\ Len(content(d)) = r + n
      /\ \A i \in 1 .. r + n : content(d)[i] = d.bytes[b.reader + i]
  <2> HIDE DEF d, r, n
  <2>1. /\ content(d) \in Bytes /\ Len(content(d)) = readableBytes(d)
        /\ \A i \in 1 .. readableBytes(d) : content(d)[i] = d.bytes[d.reader + i]
    BY <1>4, ContentProperties
  <2>. QED  BY <1>4, <2>1, Zenon
<1>6. /\ content(b) \in Bytes /\ Len(content(b)) = r
      /\ \A i \in 1 .. r : content(b)[i] = b.bytes[b.reader + i]
  BY ContentProperties
<1>7. /\ content(b) \o chunk \in Seq(Byte) /\ Len(content(b) \o chunk) = r + n
      /\ \A i \in 1 .. r + n :
           (content(b) \o chunk)[i] = IF i <= r THEN content(b)[i] ELSE chunk[i - r]
  <2> DEFINE c == content(b)
  <2>1. c \in Seq(Byte) /\ chunk \in Seq(Byte) /\ Len(c) = r
    BY <1>6 DEF Bytes
  <2> HIDE DEF c, r, n
  <2>2. /\ c \o chunk \in Seq(Byte) /\ Len(c \o chunk) = Len(c) + Len(chunk)
        /\ \A i \in 1 .. Len(c) + Len(chunk) :
             (c \o chunk)[i] = IF i <= Len(c) THEN c[i] ELSE chunk[i - Len(c)]
    BY <2>1, ConcatProperties
  <2>. QED  BY <2>1, <2>2 DEF c, n
<1> HIDE DEF d, r, n
<1>8. ASSUME NEW i \in 1 .. r + n
      PROVE  content(d)[i] = (content(b) \o chunk)[i]
  <2>1. b.reader + i \in 1 .. Len(b.bytes)
    <3>1. /\ b.reader \in Nat /\ b.writer \in Nat /\ n \in Nat /\ r = b.writer - b.reader
          /\ b.writer + n <= Len(b.bytes) /\ Len(b.bytes) \in Nat
      BY <1>1
    <3>2. i \in Nat /\ 1 <= i /\ i <= (b.writer - b.reader) + n
      BY <3>1
    <3>3. b.reader + i <= b.writer + n /\ 1 <= b.reader + i /\ b.reader + i \in Nat
      BY <3>1, <3>2
    <3>. QED  BY <3>1, <3>3
  <2>2. CASE i <= r
    <3>1. ~(b.reader + i > b.writer) /\ i \in 1 .. r
      BY <1>1, <2>2
    <3>. QED  BY <1>3, <1>5, <1>6, <1>7, <2>1, <2>2, <3>1
  <2>3. CASE ~(i <= r)
    <3>1. /\ b.reader + i > b.writer /\ b.reader + i <= b.writer + n
          /\ (b.reader + i) - b.writer = i - r
      BY <1>1, <2>3
    <3>. QED  BY <1>3, <1>5, <1>7, <2>1, <2>3, <3>1
  <2>. QED  BY <2>2, <2>3
<1>9. content(d) = content(b) \o chunk
  <2>1. content(d) \in Seq(Byte) /\ Len(content(d)) = Len(content(b) \o chunk)
    BY <1>5, <1>7 DEF Bytes
  <2>2. \A i \in 1 .. Len(content(d)) : content(d)[i] = (content(b) \o chunk)[i]
    BY <1>5, <1>8
  <2>. QED  BY <1>7, <2>1, <2>2, SeqEqual
<1>. QED  BY <1>3, <1>4, <1>9 DEF d, r, n

\* How large the vector may become when total bytes are held in it.
Fits(d, b, total) == \/ Len(d.bytes) = Len(b.bytes)
                     \/ Len(d.bytes) <= kCheapPrepend + 2 * total

\* append puts the chunk at the end of the content (Buffer::append).
LEMMA AppendHolds ==
  ASSUME NEW b, Ordered(b), NEW chunk \in Bytes
  PROVE  LET d == append(b, chunk)
         IN  /\ Ordered(d) /\ content(d) = content(b) \o chunk
             /\ readableBytes(d) = readableBytes(b) + Len(chunk)
             /\ Fits(d, b, readableBytes(b) + Len(chunk))
<1> DEFINE room == ensureWritableBytes(b, Len(chunk))
           d == append(b, chunk)
<1>1. Len(chunk) \in Nat
  BY LenProperties DEF Bytes
<1>2. /\ Ordered(room) /\ writableBytes(room) >= Len(chunk)
      /\ readableBytes(room) = readableBytes(b) /\ content(room) = content(b)
      /\ Fits(room, b, readableBytes(b) + Len(chunk))
  BY <1>1, EnsureProperties DEF Fits
<1>3. d = Written(room, chunk)
  BY DEF append, Written
<1>4. Len(chunk) <= writableBytes(room)
  <2>1. writableBytes(room) \in Int
    BY <1>2, LenProperties DEF Ordered, BufferRecord, Bytes, writableBytes
  <2>. QED  BY <1>1, <1>2, <2>1
<1> HIDE DEF room, d
<1>5. /\ Ordered(d) /\ Len(d.bytes) = Len(room.bytes)
      /\ readableBytes(d) = readableBytes(room) + Len(chunk)
      /\ content(d) = content(room) \o chunk
  BY <1>2, <1>3, <1>4, WrittenProperties
<1>. QED  BY <1>2, <1>5 DEF Fits, d

\* readFd puts what readv delivered at the end of the content, also when it is
\* split over the vector and extrabuf (Buffer::readFd).
LEMMA ReadFdHolds ==
  ASSUME NEW b, Ordered(b), NEW chunk \in Bytes
  PROVE  LET d == readFd(b, chunk)
         IN  /\ Ordered(d) /\ content(d) = content(b) \o chunk
             /\ readableBytes(d) = readableBytes(b) + Len(chunk)
             /\ Fits(d, b, readableBytes(b) + Len(chunk))
<1> DEFINE w == writableBytes(b)
           n == Len(chunk)
           first == SubSeq(chunk, 1, w)
           rest == SubSeq(chunk, w + 1, n)
<1>1. n \in Nat /\ w \in Nat /\ Len(b.bytes) \in Nat /\ b.writer \in Nat /\ b.writer + w = Len(b.bytes)
  BY LenProperties DEF Ordered, BufferRecord, Bytes, writableBytes
<1>2. CASE n < w
  <2> DEFINE d == Written(b, chunk)
  <2>1. readFd(b, chunk) = d
    BY <1>2 DEF readFd, Written
  <2>2. /\ Ordered(d) /\ Len(d.bytes) = Len(b.bytes) /\ content(d) = content(b) \o chunk
        /\ readableBytes(d) = readableBytes(b) + n
    BY <1>1, <1>2, WrittenProperties
  <2>. QED  BY <2>1, <2>2 DEF Fits
<1>3. CASE ~(n < w)
  <2> DEFINE full == Written(b, first)
             d == append(full, rest)
  <2>1. /\ first \in Bytes /\ rest \in Bytes /\ Len(first) = w /\ Len(rest) = n - w
        /\ first \o rest = chunk
    <3>1. chunk \in Seq(Byte) /\ 0 \in Nat /\ w \in 0 .. n
      BY <1>1, <1>3 DEF Bytes
    <3>2. \A i \in 1 .. n : chunk[i] \in Byte
      BY <3>1, ElementOfSeq
    <3>3. first \in Seq(Byte) /\ Len(first) = IF 1 <= w THEN w - 1 + 1 ELSE 0
      BY <1>1, <3>1, <3>2, SubSeqProperties
    <3>4. rest \in Seq(Byte) /\ Len(rest) = IF w + 1 <= n THEN n - (w + 1) + 1 ELSE 0
      BY <1>1, <3>1, <3>2, SubSeqProperties
    <3>5. first \o rest = chunk
      <4>1. SubSeq(chunk, 1, n) = chunk
        BY <3>1, SubSeqFull
      <4>2. first \o rest = SubSeq(chunk, 1, n)
        <5> HIDE DEF w
        <5>1. /\ chunk \in Seq(Byte) /\ 1 \in 1 .. Len(chunk) + 1
              /\ w \in 1 - 1 .. Len(chunk) /\ n \in w .. Len(chunk)
          BY <1>1, <3>1
        <5> HIDE DEF n
        <5>. QED  BY <5>1, ConcatAdjacentSubSeq DEF first, rest
      <4>. QED  BY <4>1, <4>2
    <3>6. Len(first) = w
      BY <1>1, <3>3
    <3>7. Len(rest) = n - w
      BY <1>1, <1>3, <3>4
    <3>. QED  BY <3>3, <3>4, <3>5, <3>6, <3>7, Zenon DEF Bytes
  <2>2. readFd(b, chunk) = d
    <3>1. Len(b.bytes) = b.writer + Len(first)
      BY <1>1, <2>1
    <3>. QED  BY <1>3, <3>1 DEF readFd, Written
  <2>3. /\ Ordered(full) /\ Len(full.bytes) = Len(b.bytes) /\ content(full) = content(b) \o first
        /\ readableBytes(full) = readableBytes(b) + w
    <3>1. first \in Bytes /\ Len(first) <= writableBytes(b) /\ Len(first) = w
      BY <1>1, <2>1
    <3> HIDE DEF first, w
    <3>. QED  BY <3>1, WrittenProperties
  <2>4. /\ Ordered(d) /\ content(d) = content(full) \o rest
        /\ readableBytes(d) = readableBytes(full) + Len(rest)
        /\ Fits(d, full, readableBytes(full) + Len(rest))
    BY <2>1, <2>3, AppendHolds
  <2>5. content(d) = content(b) \o chunk
    <3>1. content(b) \in Seq(Byte)
      BY ContentProperties DEF Bytes
    <3>2. (content(b) \o first) \o rest = content(b) \o (first \o rest)
      <4> DEFINE c == content(b)
      <4>1. c \in Seq(Byte) /\ first \in Seq(Byte) /\ rest \in Seq(Byte)
        BY <2>1, <3>1 DEF Bytes
      <4> HIDE DEF c, first, rest
      <4>2. (c \o first) \o rest = c \o (first \o rest)
        BY <4>1, ConcatAssociative
      <4>. QED  BY <4>2 DEF c
    <3>. QED  BY <2>1, <2>3, <2>4, <3>2
  <2>6. readableBytes(full) + Len(rest) = readableBytes(b) + n
    <3>1. readableBytes(b) \in Int
      BY DEF Ordered, BufferRecord, readableBytes
    <3>. QED  BY <1>1, <2>1, <2>3, <3>1
  <2>7. Fits(d, b, readableBytes(b) + n)
    BY <2>3, <2>4, <2>6 DEF Fits
  <2>. QED  BY <2>2, <2>4, <2>5, <2>6, <2>7
<1>. QED  BY <1>2, <1>3

\* retrieve drops what peek showed first (Buffer::retrieve, retrieveAll).
LEMMA RetrieveHolds ==
  ASSUME NEW b, Ordered(b), NEW len \in 0 .. readableBytes(b)
  PROVE  LET d == retrieve(b, len)
         IN  /\ Ordered(d) /\ content(b) = peek(b, len) \o content(d)
             /\ readableBytes(d) = readableBytes(b) - len
             /\ Len(d.bytes) = Len(b.bytes)
<1> DEFINE d == retrieve(b, len)
           r == readableBytes(b)
<1>1. /\ b.reader \in Nat /\ b.writer \in Nat /\ Len(b.bytes) \in Nat /\ kCheapPrepend \in Nat
      /\ b.reader <= b.writer /\ b.writer <= Len(b.bytes) /\ kCheapPrepend <= b.reader
      /\ r = b.writer - b.reader /\ r \in Nat /\ len \in Nat /\ len <= r
  BY LenProperties, SizeAssumption DEF Ordered, BufferRecord, Bytes, readableBytes
<1>2. /\ Ordered(d) /\ d.bytes = b.bytes /\ readableBytes(d) = r - len
      /\ len < r => d.reader = b.reader + len
  <2>1. CASE len < r
    <3>1. d = [b EXCEPT !.reader = b.reader + len]
      BY <2>1 DEF retrieve
    <3>2. d.bytes = b.bytes /\ d.reader = b.reader + len /\ d.writer = b.writer /\ d \in BufferRecord
      BY <1>1, <3>1 DEF Ordered, BufferRecord
    <3>. QED  BY <1>1, <2>1, <3>2 DEF Ordered, readableBytes
  <2>2. CASE ~(len < r)
    <3>1. d = [b EXCEPT !.reader = kCheapPrepend, !.writer = kCheapPrepend]
      BY <2>2 DEF retrieve, retrieveAll
    <3>2. /\ d.bytes = b.bytes /\ d.reader = kCheapPrepend /\ d.writer = kCheapPrepend
          /\ d \in BufferRecord
      BY <1>1, <3>1 DEF Ordered, BufferRecord
    <3>. QED  BY <1>1, <2>2, <3>2 DEF Ordered, readableBytes
  <2>. QED  BY <2>1, <2>2
<1>3. /\ peek(b, len) \in Seq(Byte) /\ Len(peek(b, len)) = len
      /\ \A i \in 1 .. len : peek(b, len)[i] = b.bytes[b.reader + i]
  BY PeekProperties DEF Bytes
<1>4. /\ content(b) \in Seq(Byte) /\ Len(content(b)) = r
      /\ \A i \in 1 .. r : content(b)[i] = b.bytes[b.reader + i]
  BY ContentProperties DEF Bytes
<1>5. /\ content(d) \in Seq(Byte) /\ Len(content(d)) = r - len
      /\ \A i \in 1 .. r - len : content(d)[i] = b.bytes[d.reader + i]
  <2> HIDE DEF d, r
  <2>1. /\ content(d) \in Seq(Byte) /\ Len(content(d)) = readableBytes(d)
        /\ \A i \in 1 .. readableBytes(d) : content(d)[i] = d.bytes[d.reader + i]
    BY <1>2, ContentProperties DEF Bytes
  <2>. QED  BY <1>2, <2>1, Zenon
<1> HIDE DEF d, r
<1>6. /\ peek(b, len) \o content(d) \in Seq(Byte)
      /\ Len(peek(b, len) \o content(d)) = r
      /\ \A i \in 1 .. r : (peek(b, len) \o content(d))[i]
                           = IF i <= len THEN peek(b, len)[i] ELSE content(d)[i - len]
  <2> DEFINE p == peek(b, len)
             c == content(d)
  <2>1. p \in Seq(Byte) /\ c \in Seq(Byte) /\ Len(p) = len /\ Len(c) = r - len
    BY <1>3, <1>5
  <2> HIDE DEF p, c
  <2>2. /\ p \o c \in Seq(Byte) /\ Len(p \o c) = Len(p) + Len(c)
        /\ \A i \in 1 .. Len(p) + Len(c) :
             (p \o c)[i] = IF i <= Len(p) THEN p[i] ELSE c[i - Len(p)]
    BY <2>1, ConcatProperties
  <2>3. Len(p) + Len(c) = r
    BY <1>1, <2>1
  <2>. QED  BY <2>1, <2>2, <2>3 DEF p, c
<1>7. ASSUME NEW i \in 1 .. r
      PROVE  content(b)[i] = (peek(b, len) \o content(d))[i]
  <2>1. CASE i <= len
    <3>1. i \in 1 .. len
      BY <1>1, <2>1
    <3>. QED  BY <1>3, <1>4, <1>6, <2>1, <3>1
  <2>2. CASE ~(i <= len)
    <3>1. len < r /\ i - len \in 1 .. r - len /\ (b.reader + len) + (i - len) = b.reader + i
      BY <1>1, <2>2
    <3>2. content(b)[i] = b.bytes[b.reader + i]
      BY <1>4
    <3>3. (peek(b, len) \o content(d))[i] = content(d)[i - len]
      BY <1>6, <2>2
    <3>4. content(d)[i - len] = b.bytes[d.reader + (i - len)]
      BY <1>5, <3>1
    <3>5. d.reader = b.reader + len
      BY <1>2, <3>1
    <3>. QED  BY <3>1, <3>2, <3>3, <3>4, <3>5
  <2>. QED  BY <2>1, <2>2
<1>8. content(b) = peek(b, len) \o content(d)
  BY <1>4, <1>6, <1>7, SeqEqual
<1>. QED  BY <1>2, <1>8 DEF d, r
-----------------------------------------------------------------------------
\* Chunks of a step are chunks of bytes that fit.
LEMMA ChunkType ==
  ASSUME Ordered(buf), NEW chunk \in Chunks, readableBytes(buf) <= MaxReadable
  PROVE  /\ chunk \in Bytes
         /\ readableBytes(buf) + Len(chunk) <= MaxReadable
<1>1. readableBytes(buf) \in Nat /\ MaxReadable \in Nat
  BY SizeAssumption DEF Ordered, BufferRecord, readableBytes
<1>2. PICK n \in 0 .. MaxReadable - readableBytes(buf) : chunk \in [1 .. n -> Byte]
  BY DEF Chunks
<1>3. n \in Nat /\ n + readableBytes(buf) <= MaxReadable
  BY <1>1, <1>2
<1>4. chunk \in Seq(Byte) /\ Len(chunk) = n
  <2>1. chunk \in Seq(Byte)
    BY <1>2, <1>3, IsASeq
  <2>2. DOMAIN chunk = 1 .. n
    BY <1>2
  <2>. QED  BY <1>3, <2>1, <2>2, LenProperties
<1>. QED  BY <1>1, <1>3, <1>4 DEF Bytes

\* The state of a buffer that a connection may hold.
IInv == Ordered(buf) /\ readableBytes(buf) <= MaxReadable /\ SizeBounded

\* A new buffer meets the invariant and is empty.
LEMMA InitHolds == Init => IInv /\ content(buf) = << >>
<1> SUFFICES ASSUME Init
             PROVE  IInv /\ content(buf) = << >>
  OBVIOUS
<1> DEFINE n == kCheapPrepend + kInitialSize
           zeros == [i \in 1 .. n |-> Zero]
<1>1. kCheapPrepend \in Nat /\ kInitialSize \in Nat /\ MaxReadable \in Nat /\ n \in Nat
  BY SizeAssumption
<1>2. zeros \in Seq(Byte) /\ Len(zeros) = n
  <2>1. zeros \in [1 .. n -> Byte]
    BY ByteAssumption
  <2>2. zeros \in Seq(Byte)
    BY <1>1, <2>1, IsASeq
  <2>. QED  BY <1>1, <2>2, LenProperties
<1>3. buf = [bytes |-> zeros, reader |-> kCheapPrepend, writer |-> kCheapPrepend]
  BY DEF Init
<1> HIDE DEF zeros
<1>4. Ordered(buf) /\ readableBytes(buf) = 0
  BY <1>1, <1>2, <1>3 DEF Ordered, BufferRecord, Bytes, readableBytes
<1>5. SizeBounded
  BY <1>1, <1>2, <1>3 DEF SizeBounded, SizeBound, LargestOf
<1>6. content(buf) \in Seq(Byte) /\ Len(content(buf)) = 0
  BY <1>4, ContentProperties DEF Bytes
<1>. QED  BY <1>1, <1>4, <1>5, <1>6, EmptySeq DEF IInv

\* A vector that fits what the connection holds stays within SizeBound.
LEMMA BoundKept ==
  ASSUME SizeBounded, NEW total \in Nat, total <= MaxReadable, Ordered(buf), Ordered(buf'),
         Fits(buf', buf, total)
  PROVE  SizeBounded'
<1>1. /\ kCheapPrepend \in Nat /\ kInitialSize \in Nat /\ MaxReadable \in Nat
      /\ Len(buf.bytes) \in Nat /\ Len(buf'.bytes) \in Nat
  BY SizeAssumption, LenProperties DEF Ordered, BufferRecord, Bytes
<1>. QED  BY <1>1 DEF SizeBounded, SizeBound, LargestOf, Fits

\* What each step does to the content.
LEMMA StepHolds ==
  ASSUME IInv, Next
  PROVE  /\ IInv' /\ io'.data \in Bytes
         /\ \/ io'.dir = "put" /\ content(buf') = content(buf) \o io'.data
            \/ io'.dir = "take" /\ content(buf) = io'.data \o content(buf')
<1>1. readableBytes(buf) \in Nat /\ MaxReadable \in Nat
  BY SizeAssumption DEF IInv, Ordered, BufferRecord, readableBytes
<1>2. ASSUME NEW chunk \in Chunks, buf' = append(buf, chunk) \/ buf' = readFd(buf, chunk),
             io' = [dir |-> "put", data |-> chunk]
      PROVE  /\ IInv' /\ io'.data \in Bytes
             /\ io'.dir = "put" /\ content(buf') = content(buf) \o io'.data
  <2>1. chunk \in Bytes /\ readableBytes(buf) + Len(chunk) <= MaxReadable
    BY <1>2, ChunkType DEF IInv
  <2>2. /\ Ordered(buf') /\ content(buf') = content(buf) \o chunk
        /\ readableBytes(buf') = readableBytes(buf) + Len(chunk)
        /\ Fits(buf', buf, readableBytes(buf) + Len(chunk))
    <3>1. CASE buf' = append(buf, chunk)
      BY <2>1, <3>1, AppendHolds DEF IInv
    <3>2. CASE buf' = readFd(buf, chunk)
      BY <2>1, <3>2, ReadFdHolds DEF IInv
    <3>. QED  BY <1>2, <3>1, <3>2
  <2>3. readableBytes(buf) + Len(chunk) \in Nat
    BY <1>1, <2>1, LenProperties DEF Bytes
  <2>4. SizeBounded'
    BY <2>1, <2>2, <2>3, BoundKept DEF IInv
  <2>. QED  BY <1>2, <2>1, <2>2, <2>4 DEF IInv, Ordered, readableBytes, content, peek
<1>3. ASSUME NEW len \in 0 .. readableBytes(buf), buf' = retrieve(buf, len),
             io' = [dir |-> "take", data |-> peek(buf, len)]
      PROVE  /\ IInv' /\ io'.data \in Bytes
             /\ io'.dir = "take" /\ content(buf) = io'.data \o content(buf')
  <2>1. /\ Ordered(buf') /\ content(buf) = peek(buf, len) \o content(buf')
        /\ readableBytes(buf') = readableBytes(buf) - len
        /\ Len(buf'.bytes) = Len(buf.bytes)
    BY <1>3, RetrieveHolds DEF IInv
  <2>2. peek(buf, len) \in Bytes
    BY PeekProperties DEF IInv
  <2>3. readableBytes(buf') <= MaxReadable
    BY <1>1, <2>1 DEF IInv
  <2>4. SizeBounded'
    BY <2>1 DEF IInv, SizeBounded
  <2>. QED  BY <1>3, <2>1, <2>2, <2>3, <2>4 DEF IInv, Ordered, readableBytes
<1>4. CASE Append_
  BY <1>2, <1>4 DEF Append_
<1>5. CASE Read
  BY <1>2, <1>5 DEF Read
<1>6. CASE Retrieve
  BY <1>3, <1>6 DEF Retrieve
<1>. QED  BY <1>4, <1>5, <1>6 DEF Next

\* The invariant behind the results below.
THEOREM Inductive == Spec => []IInv
<1>1. Init => IInv
  BY InitHolds
<1>2. IInv /\ [Next]_vars => IInv'
  <2>1. IInv /\ Next => IInv'
    BY StepHolds
  <2>2. IInv /\ UNCHANGED vars => IInv'
    BY DEF IInv, vars, Ordered, readableBytes, SizeBounded
  <2>. QED  BY <2>1, <2>2
<1>. QED  BY <1>1, <1>2, PTL DEF Spec

\* The indices of Buffer split the vector in three, whatever is appended, read
\* from a socket and retrieved, and in whatever order.
THEOREM TypeCorrect == Spec => []TypeOK
<1>1. IInv => TypeOK
  BY DEF IInv, Ordered, BufferRecord, Bytes, TypeOK, IndexOrder
<1>. QED  BY <1>1, Inductive, PTL

\* makeSpace bounds the vector by twice the most bytes ever held.
THEOREM SizeBoundedHolds == Spec => []SizeBounded
BY Inductive, PTL DEF IInv

\* Buffer implements the queue of bytes of ByteQueue.
THEOREM ImplementsByteQueue == Spec => ImplementsQueue
<1>1. Init => Queue!Init
  BY InitHolds DEF Init, Queue!Init, content
<1>2. IInv /\ [Next]_vars => [Queue!Next]_(Queue!vars)
  <2>1. ASSUME IInv, Next
        PROVE  Queue!Next
    BY <2>1, StepHolds DEF Queue!Next, Queue!Put, Queue!Take, Queue!Chunk, Bytes, content
  <2>2. UNCHANGED vars => UNCHANGED Queue!vars
    BY DEF vars, Queue!vars, peek, readableBytes
  <2>. QED  BY <2>1, <2>2
<1>. QED  BY <1>1, <1>2, Inductive, PTL DEF Spec, ImplementsQueue, Queue!Spec
=============================================================================
