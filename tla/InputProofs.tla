----------------------------- MODULE InputProofs -----------------------------
(***************************************************************************)
(* Theorems about a connection's input: the buffer that readFd fills, and  *)
(* the HTTP parser that takes lines out of it.                             *)
(*   - Of Buffer, for every size of the buffer, of the space kept for      *)
(*     prepending and of extrabuf, and every alphabet: the indices stay in *)
(*     order, the asserts of append and makeSpace hold, the vector stays   *)
(*     within twice the content, and the readable bytes are a queue.       *)
(*   - Of HttpServer, which takes the buffer for such a queue, for any     *)
(*     number of lines: however TCP cuts them, the answers are those of a  *)
(*     parser that is given whole lines.                                   *)
(***************************************************************************)
EXTENDS Buffer, HttpServer, SequenceTheorems, WellFoundedInduction, TLAPS

(* What TypeOK says of a buffer by itself. *)
Sound(b) ==
  /\ b \in [m_buffer : Seq(Byte), m_readerIndex : Nat, m_writerIndex : Nat]
  /\ kCheapPrepend <= b.m_readerIndex
  /\ b.m_readerIndex <= b.m_writerIndex
  /\ b.m_writerIndex <= Len(b.m_buffer)

(* A function on 1 .. n is a sequence of length n. *)
LEMMA FunctionIsSeq ==
  ASSUME NEW S, NEW n \in Nat, NEW f \in [1 .. n -> S]
  PROVE  f \in Seq(S) /\ Len(f) = n
OBVIOUS

(* The readable bytes of a sound buffer are a string of bytes. *)
LEMMA ReadableType ==
  ASSUME NEW b, Sound(b)
  PROVE  /\ ReadableBytes(b) \in Nat
         /\ WritableBytes(b) \in Nat
         /\ Readable(b) \in [1 .. ReadableBytes(b) -> Byte]
         /\ Readable(b) \in Seq(Byte)
         /\ Len(Readable(b)) = ReadableBytes(b)
<1>1. ReadableBytes(b) \in Nat /\ WritableBytes(b) \in Nat
  BY LenProperties, SizesAssumption DEF Sound, ReadableBytes, WritableBytes
<1>2. \A i \in 1 .. ReadableBytes(b) : b.m_buffer[b.m_readerIndex + i] \in Byte
  <2> TAKE i \in 1 .. ReadableBytes(b)
  <2>1. b.m_readerIndex + i \in 1 .. Len(b.m_buffer)
    BY LenProperties DEF Sound, ReadableBytes
  <2> QED
    BY <2>1, ElementOfSeq DEF Sound
<1>3. Readable(b) \in [1 .. ReadableBytes(b) -> Byte]
  BY <1>2 DEF Readable
<1> QED
  BY <1>1, <1>3, FunctionIsSeq

(* makeSpace(len), called when len bytes do not fit, makes room for them   *)
(* and keeps the content; a vector that grows is not much larger than      *)
(* what it has to hold.                                                    *)
LEMMA MakeSpaceSound ==
  ASSUME NEW b, Sound(b), NEW len \in Nat, WritableBytes(b) < len
  PROVE  LET e == MakeSpace(b, len) IN
           /\ Sound(e)
           /\ ~Grows(b, len) => kCheapPrepend < b.m_readerIndex
           /\ ReadableBytes(e) = ReadableBytes(b)
           /\ Readable(e) = Readable(b)
           /\ len <= WritableBytes(e)
           /\ \/ Len(e.m_buffer) = Len(b.m_buffer)
              \/ Len(e.m_buffer) < ReadableBytes(b) + 2 * len + kCheapPrepend
<1> DEFINE m == b.m_buffer
           r == b.m_readerIndex
           w == b.m_writerIndex
           e == MakeSpace(b, len)
<1>1. /\ m \in Seq(Byte) /\ Len(m) \in Nat /\ r \in Nat /\ w \in Nat
      /\ kCheapPrepend \in Nat /\ kCheapPrepend <= r /\ r <= w /\ w <= Len(m)
      /\ 0 \in Byte
  BY LenProperties, SizesAssumption DEF Sound
<1>2. Len(m) - w < len
  BY DEF WritableBytes
<1>3. \A i \in 1 .. Len(m) : m[i] \in Byte
  BY <1>1, ElementOfSeq
<1>4. CASE Grows(b, len)
  <2>1. Len(m) - w + r < len + kCheapPrepend
    BY <1>4 DEF Grows, WritableBytes, PrependableBytes
  <2>2. e.m_buffer = Resize(m, w + len) /\ e.m_readerIndex = r /\ e.m_writerIndex = w
    BY <1>4 DEF MakeSpace, Sound
  <2>3. Resize(m, w + len) \in [1 .. w + len -> Byte]
    BY <1>1, <1>3 DEF Resize
  <2>4. Resize(m, w + len) \in Seq(Byte) /\ Len(Resize(m, w + len)) = w + len
    <3>1. w + len \in Nat
      BY <1>1
    <3> QED
      BY <2>3, <3>1, FunctionIsSeq
  <2>5. Sound(e)
    BY <1>1, <1>4, <2>2, <2>4 DEF Sound, MakeSpace
  <2>6. \A i \in 1 .. w - r : e.m_buffer[r + i] = m[r + i]
    BY <1>1, <2>2 DEF Resize
  <2>7. Readable(e) = Readable(b)
    BY <1>1, <2>2, <2>6 DEF Readable, ReadableBytes
  <2>8. w + len < (w - r) + 2 * len + kCheapPrepend
    BY <1>1, <2>1
  <2> QED
    BY <1>1, <1>4, <2>2, <2>4, <2>5, <2>7, <2>8 DEF ReadableBytes, WritableBytes
<1>5. CASE ~Grows(b, len)
  <2>1. len + kCheapPrepend <= Len(m) - w + r
    BY <1>1, <1>5 DEF Grows, WritableBytes, PrependableBytes
  <2>2. kCheapPrepend < r
    BY <1>1, <1>2, <2>1
  <2> DEFINE f == [i \in 1 .. Len(m) |->
                     IF kCheapPrepend < i /\ i <= kCheapPrepend + (w - r)
                       THEN m[r + (i - kCheapPrepend)] ELSE m[i]]
  <2>3. e = [m_buffer |-> f, m_readerIndex |-> kCheapPrepend,
             m_writerIndex |-> kCheapPrepend + (w - r)]
    BY <1>5 DEF MakeSpace, MoveToFront, ReadableBytes
  <2>4. \A i \in 1 .. Len(m) :
          kCheapPrepend < i /\ i <= kCheapPrepend + (w - r) => r + (i - kCheapPrepend) \in 1 .. Len(m)
    BY <1>1
  <2>5. f \in [1 .. Len(m) -> Byte]
    BY <1>3, <2>4
  <2>6. f \in Seq(Byte) /\ Len(f) = Len(m)
    BY <1>1, <2>5, FunctionIsSeq
  <2>7. Sound(e)
    BY <1>1, <2>2, <2>3, <2>6 DEF Sound
  <2>8. ASSUME NEW i \in 1 .. w - r PROVE f[kCheapPrepend + i] = m[r + i]
    <3> DEFINE j == kCheapPrepend + i
    <3>1. /\ j \in 1 .. Len(m) /\ kCheapPrepend < j /\ j <= kCheapPrepend + (w - r)
          /\ r + (j - kCheapPrepend) = r + i
      BY <1>1, <2>2
    <3> HIDE DEF j
    <3>2. f[j] = m[r + i]
      BY <3>1
    <3> QED
      BY <3>2 DEF j
  <2> HIDE DEF f
  <2>9. ReadableBytes(e) = w - r
    BY <1>1, <2>3 DEF ReadableBytes
  <2>10. Readable(e) = Readable(b)
    BY <1>1, <2>3, <2>8, <2>9 DEF Readable, ReadableBytes
  <2>11. len <= WritableBytes(e)
    BY <1>1, <2>1, <2>3, <2>6 DEF WritableBytes
  <2> QED
    BY <1>1, <1>5, <2>2, <2>3, <2>6, <2>7, <2>9, <2>10, <2>11 DEF ReadableBytes
<1> QED
  BY <1>4, <1>5

(* The first half of append makes room for len bytes, if it has to. *)
LEMMA EnsureWritableSound ==
  ASSUME NEW b, Sound(b), NEW len \in Nat
  PROVE  LET e == EnsureWritable(b, len) IN
           /\ Sound(e)
           /\ ReadableBytes(e) = ReadableBytes(b)
           /\ Readable(e) = Readable(b)
           /\ len <= WritableBytes(e)
           /\ \/ Len(e.m_buffer) = Len(b.m_buffer)
              \/ Len(e.m_buffer) < ReadableBytes(b) + 2 * len + kCheapPrepend
<1>1. CASE WritableBytes(b) < len
  BY <1>1, MakeSpaceSound DEF EnsureWritable
<1>2. CASE ~(WritableBytes(b) < len)
  <2>1. len <= WritableBytes(b)
    BY <1>2, ReadableType
  <2> QED
    BY <1>2, <2>1 DEF EnsureWritable
<1> QED
  BY <1>1, <1>2

(* Data that fits is added at the end of the content. *)
LEMMA WrittenSound ==
  ASSUME NEW b, Sound(b), NEW data \in Seq(Byte), Len(data) <= WritableBytes(b)
  PROVE  LET e == Written(b, data) IN
           /\ Sound(e)
           /\ ReadableBytes(e) = ReadableBytes(b) + Len(data)
           /\ Readable(e) = Readable(b) \o data
           /\ Len(e.m_buffer) = Len(b.m_buffer)
           /\ e.m_writerIndex = b.m_writerIndex + Len(data)
<1> DEFINE m == b.m_buffer
           r == b.m_readerIndex
           w == b.m_writerIndex
           n == Len(data)
           e == Written(b, data)
           f == [i \in 1 .. Len(m) |-> IF w < i /\ i <= w + n THEN data[i - w] ELSE m[i]]
<1>1. /\ m \in Seq(Byte) /\ Len(m) \in Nat /\ r \in Nat /\ w \in Nat /\ n \in Nat
      /\ kCheapPrepend \in Nat /\ kCheapPrepend <= r /\ r <= w /\ w + n <= Len(m)
  BY LenProperties, SizesAssumption DEF Sound, WritableBytes
<1>2. \A i \in 1 .. Len(m) : m[i] \in Byte
  BY <1>1, ElementOfSeq
<1>3. \A i \in 1 .. n : data[i] \in Byte
  BY <1>1, ElementOfSeq
<1>4. f \in [1 .. Len(m) -> Byte]
  BY <1>1, <1>2, <1>3
<1>5. f \in Seq(Byte) /\ Len(f) = Len(m)
  BY <1>1, <1>4, FunctionIsSeq
<1>6. e = [m_buffer |-> f, m_readerIndex |-> r, m_writerIndex |-> w + n]
  BY DEF Written
<1>7. Sound(e)
  BY <1>1, <1>5, <1>6 DEF Sound
<1>8. ReadableBytes(e) = (w - r) + n
  BY <1>1, <1>6 DEF ReadableBytes
<1>9. \A i \in 1 .. (w - r) + n : f[r + i] = IF i <= w - r THEN m[r + i] ELSE data[i - (w - r)]
  <2> TAKE i \in 1 .. (w - r) + n
  <2>1. r + i \in 1 .. Len(m)
    BY <1>1
  <2>2. f[r + i] = IF w < r + i /\ r + i <= w + n THEN data[(r + i) - w] ELSE m[r + i]
    BY <2>1
  <2>3. (r + i) - w = i - (w - r) /\ (i <= w - r <=> ~(w < r + i)) /\ r + i <= w + n
    BY <1>1
  <2> QED
    BY <2>2, <2>3
<1> HIDE DEF f
<1>10. \A i \in 1 .. (w - r) + n :
         Readable(e)[i] = IF i <= w - r THEN Readable(b)[i] ELSE data[i - (w - r)]
  BY <1>1, <1>6, <1>8, <1>9 DEF Readable, ReadableBytes
<1>11. Readable(e) = Readable(b) \o data
  <2>1. Readable(b) \in Seq(Byte) /\ Len(Readable(b)) = w - r
    BY ReadableType DEF ReadableBytes
  <2>2. Readable(e) \in Seq(Byte) /\ Len(Readable(e)) = (w - r) + n
    BY <1>7, <1>8, ReadableType
  <2> HIDE DEF e
  <2> DEFINE c == Readable(b) \o data
  <2>3. /\ c \in Seq(Byte) /\ Len(c) = (w - r) + n
        /\ \A i \in 1 .. (w - r) + n : c[i] = IF i <= w - r THEN Readable(b)[i] ELSE data[i - (w - r)]
    BY <2>1, ConcatProperties
  <2> HIDE DEF c
  <2>4. Len(Readable(e)) = Len(c) /\ \A i \in 1 .. Len(Readable(e)) : Readable(e)[i] = c[i]
    BY <1>10, <2>2, <2>3
  <2>5. Readable(e) = c
    BY <2>2, <2>3, <2>4, SeqEqual
  <2> QED
    BY <2>5 DEF c
<1> QED
  BY <1>5, <1>6, <1>7, <1>8, <1>11 DEF ReadableBytes

(* append, and how much the vector may have grown by it. *)
LEMMA AppendedSound ==
  ASSUME NEW b, Sound(b), NEW data \in Seq(Byte)
  PROVE  LET e == Appended(b, data) IN
           /\ Sound(e)
           /\ ReadableBytes(e) = ReadableBytes(b) + Len(data)
           /\ Readable(e) = Readable(b) \o data
           /\ \/ Len(e.m_buffer) = Len(b.m_buffer)
              \/ Len(e.m_buffer) < 2 * ReadableBytes(e) + kCheapPrepend
<1> DEFINE d == EnsureWritable(b, Len(data))
           e == Appended(b, data)
<1>1. Len(data) \in Nat /\ ReadableBytes(b) \in Nat /\ kCheapPrepend \in Nat
  BY LenProperties, ReadableType, SizesAssumption
<1>2. /\ Sound(d)
      /\ ReadableBytes(d) = ReadableBytes(b)
      /\ Readable(d) = Readable(b)
      /\ Len(data) <= WritableBytes(d)
      /\ \/ Len(d.m_buffer) = Len(b.m_buffer)
         \/ Len(d.m_buffer) < ReadableBytes(b) + 2 * Len(data) + kCheapPrepend
  BY <1>1, EnsureWritableSound
<1> HIDE DEF d
<1>3. /\ Sound(Written(d, data))
      /\ ReadableBytes(Written(d, data)) = ReadableBytes(d) + Len(data)
      /\ Readable(Written(d, data)) = Readable(d) \o data
      /\ Len(Written(d, data).m_buffer) = Len(d.m_buffer)
  BY <1>2, WrittenSound
<1>4. e = Written(d, data)
  BY DEF Appended, d
<1> HIDE DEF e
<1>5. Len(e.m_buffer) \in Nat
  BY <1>3, <1>4, LenProperties DEF Sound
<1>6. \/ Len(e.m_buffer) = Len(b.m_buffer)
      \/ Len(e.m_buffer) < 2 * ReadableBytes(e) + kCheapPrepend
  BY <1>1, <1>2, <1>3, <1>4, <1>5
<1>7. /\ Sound(e)
      /\ ReadableBytes(e) = ReadableBytes(b) + Len(data)
      /\ Readable(e) = Readable(b) \o data
  BY <1>2, <1>3, <1>4
<1> QED
  BY <1>6, <1>7 DEF e

(* A sequence cut in two is the two parts together. *)
LEMMA CutInTwo ==
  ASSUME NEW S, NEW data \in Seq(S), NEW k \in 0 .. Len(data)
  PROVE  LET p == SubSeq(data, 1, k)
             q == SubSeq(data, k + 1, Len(data)) IN
           /\ p \in Seq(S) /\ Len(p) = k
           /\ q \in Seq(S) /\ Len(q) = Len(data) - k
           /\ \A i \in 1 .. Len(data) - k : q[i] = data[k + i]
           /\ p \o q = data
<1> DEFINE p == SubSeq(data, 1, k)
           q == SubSeq(data, k + 1, Len(data))
<1>1. Len(data) \in Nat /\ k \in Nat /\ k <= Len(data)
  BY LenProperties
<1>2. \A i \in 1 .. Len(data) : data[i] \in S
  BY ElementOfSeq
<1>3. /\ p \in Seq(S) /\ Len(p) = k
      /\ \A i \in 1 .. k : p[i] = data[i]
  <2>1. \A i \in 1 .. k : data[i] \in S
    BY <1>1, <1>2
  <2>2. /\ p \in Seq(S)
        /\ Len(p) = IF 1 <= k THEN k - 1 + 1 ELSE 0
        /\ \A i \in 1 .. k - 1 + 1 : p[i] = data[1 + i - 1]
    BY <1>1, <2>1, SubSeqProperties
  <2> HIDE DEF p
  <2> QED
    BY <1>1, <2>2
<1>4. /\ q \in Seq(S) /\ Len(q) = Len(data) - k
      /\ \A i \in 1 .. Len(data) - k : q[i] = data[k + i]
  <2>1. \A i \in k + 1 .. Len(data) : data[i] \in S
    BY <1>1, <1>2
  <2>2. /\ q \in Seq(S)
        /\ Len(q) = IF k + 1 <= Len(data) THEN Len(data) - (k + 1) + 1 ELSE 0
        /\ \A i \in 1 .. Len(data) - (k + 1) + 1 : q[i] = data[(k + 1) + i - 1]
    BY <1>1, <2>1, SubSeqProperties
  <2> HIDE DEF q
  <2> QED
    BY <1>1, <2>2
<1> HIDE DEF p, q
<1> DEFINE c == p \o q
<1>5. /\ c \in Seq(S) /\ Len(c) = Len(p) + Len(q)
      /\ \A i \in 1 .. Len(p) + Len(q) : c[i] = IF i <= Len(p) THEN p[i] ELSE q[i - Len(p)]
  BY <1>3, <1>4, ConcatProperties
<1> HIDE DEF c
<1>6. Len(c) = Len(data)
  BY <1>1, <1>3, <1>4, <1>5
<1>7. \A i \in 1 .. Len(data) : c[i] = data[i]
  <2> TAKE i \in 1 .. Len(data)
  <2>1. c[i] = IF i <= k THEN p[i] ELSE q[i - k]
    BY <1>3, <1>5, <1>6
  <2>2. CASE i <= k
    BY <1>1, <1>3, <2>1, <2>2
  <2>3. CASE ~(i <= k)
    <3>1. i - k \in 1 .. Len(data) - k /\ k + (i - k) = i
      BY <1>1, <2>3
    <3> QED
      BY <1>4, <2>1, <2>3, <3>1
  <2> QED
    BY <2>2, <2>3
<1>8. c = data
  BY <1>5, <1>6, <1>7, SeqEqual
<1> QED
  BY <1>3, <1>4, <1>8 DEF c, p, q

(* Adding two strings one after the other adds both. *)
LEMMA PutTwice ==
  ASSUME NEW S, NEW s \in Seq(S), NEW p \in Seq(S), NEW q \in Seq(S)
  PROVE  (s \o p) \o q = s \o (p \o q)
<1> DEFINE sp == s \o p
           pq == p \o q
           l == sp \o q
           r == s \o pq
<1>1. Len(s) \in Nat /\ Len(p) \in Nat /\ Len(q) \in Nat
  BY LenProperties
<1>2. /\ sp \in Seq(S) /\ Len(sp) = Len(s) + Len(p)
      /\ \A i \in 1 .. Len(s) + Len(p) : sp[i] = IF i <= Len(s) THEN s[i] ELSE p[i - Len(s)]
  BY ConcatProperties
<1>3. /\ pq \in Seq(S) /\ Len(pq) = Len(p) + Len(q)
      /\ \A i \in 1 .. Len(p) + Len(q) : pq[i] = IF i <= Len(p) THEN p[i] ELSE q[i - Len(p)]
  BY ConcatProperties
<1> HIDE DEF sp, pq
<1>2a. sp \in Seq(S)
  BY <1>2
<1>3a. pq \in Seq(S)
  BY <1>3
<1>4. /\ l \in Seq(S) /\ Len(l) = Len(sp) + Len(q)
      /\ \A i \in 1 .. Len(sp) + Len(q) : l[i] = IF i <= Len(sp) THEN sp[i] ELSE q[i - Len(sp)]
  BY <1>2a, ConcatProperties
<1>5. /\ r \in Seq(S) /\ Len(r) = Len(s) + Len(pq)
      /\ \A i \in 1 .. Len(s) + Len(pq) : r[i] = IF i <= Len(s) THEN s[i] ELSE pq[i - Len(s)]
  BY <1>3a, ConcatProperties
<1> HIDE DEF l, r
<1>6. Len(l) = Len(r)
  BY <1>1, <1>2, <1>3, <1>4, <1>5
<1>7. \A i \in 1 .. Len(l) : l[i] = r[i]
  <2> TAKE i \in 1 .. Len(l)
  <2>1. CASE i <= Len(s)
    <3>1. i \in 1 .. Len(s) + Len(p) /\ i <= Len(sp)
      BY <1>1, <1>2, <2>1
    <3>2. l[i] = s[i]
      BY <1>2, <1>4, <2>1, <3>1
    <3>3. r[i] = s[i]
      BY <1>5, <1>6, <2>1
    <3> QED
      BY <3>2, <3>3
  <2>2. CASE Len(s) < i /\ i <= Len(s) + Len(p)
    <3>1. i - Len(s) \in 1 .. Len(p) + Len(q) /\ i - Len(s) <= Len(p)
      BY <1>1, <2>2
    <3>2. l[i] = p[i - Len(s)]
      BY <1>1, <1>2, <1>4, <2>2
    <3>3. r[i] = pq[i - Len(s)]
      BY <1>1, <1>3, <1>4, <1>5, <1>6, <2>2
    <3> QED
      BY <1>3, <3>1, <3>2, <3>3
  <2>3. CASE Len(s) + Len(p) < i
    <3>1. /\ i - Len(s) \in 1 .. Len(p) + Len(q) /\ ~(i - Len(s) <= Len(p))
          /\ i - Len(s) - Len(p) = i - (Len(s) + Len(p))
      BY <1>1, <1>2, <1>4, <2>3
    <3>2. l[i] = q[i - (Len(s) + Len(p))]
      BY <1>1, <1>2, <1>4, <2>3
    <3>3. r[i] = pq[i - Len(s)]
      <4>1. i \in 1 .. Len(s) + Len(pq) /\ ~(i <= Len(s))
        BY <1>1, <1>2, <1>3, <1>4, <2>3
      <4> QED
        BY <1>5, <4>1
    <3> QED
      BY <1>3, <3>1, <3>2, <3>3
  <2> QED
    BY <1>1, <1>2, <1>4, <2>1, <2>2, <2>3
<1>8. l = r
  BY <1>4, <1>5, <1>6, <1>7, SeqEqual
<1> QED
  BY <1>8 DEF l, r, sp, pq

(* readFd adds what it has read, in one part or in two, at the end. *)
LEMMA ReadInSound ==
  ASSUME NEW b, Sound(b), NEW data \in Seq(Byte)
  PROVE  LET e == ReadIn(b, data) IN
           /\ Sound(e)
           /\ ReadableBytes(e) = ReadableBytes(b) + Len(data)
           /\ Readable(e) = Readable(b) \o data
           /\ \/ Len(e.m_buffer) = Len(b.m_buffer)
              \/ Len(e.m_buffer) < 2 * ReadableBytes(e) + kCheapPrepend
<1> DEFINE k == WritableBytes(b)
<1>1. Len(data) \in Nat /\ k \in Nat /\ ReadableBytes(b) \in Nat
  BY LenProperties, ReadableType
<1>2. CASE Len(data) <= k
  BY <1>2, WrittenSound DEF ReadIn
<1>3. CASE ~(Len(data) <= k)
  <2> DEFINE p == SubSeq(data, 1, k)
             q == SubSeq(data, k + 1, Len(data))
             d == Written(b, p)
             e == Appended(d, q)
  <2>1. k \in 0 .. Len(data)
    BY <1>1, <1>3
  <2>2. /\ p \in Seq(Byte) /\ Len(p) = k
        /\ q \in Seq(Byte) /\ Len(q) = Len(data) - k
        /\ p \o q = data
    BY <2>1, CutInTwo
  <2>3. ReadIn(b, data) = e
    BY <1>3 DEF ReadIn
  <2> HIDE DEF p, q
  <2>4. /\ Sound(d)
        /\ ReadableBytes(d) = ReadableBytes(b) + k
        /\ Readable(d) = Readable(b) \o p
        /\ Len(d.m_buffer) = Len(b.m_buffer)
    BY <1>1, <2>2, WrittenSound
  <2> HIDE DEF d
  <2>5. /\ Sound(e)
        /\ ReadableBytes(e) = ReadableBytes(d) + Len(q)
        /\ Readable(e) = Readable(d) \o q
        /\ \/ Len(e.m_buffer) = Len(d.m_buffer)
           \/ Len(e.m_buffer) < 2 * ReadableBytes(e) + kCheapPrepend
    BY <2>2, <2>4, AppendedSound
  <2> HIDE DEF e
  <2>6. (Readable(b) \o p) \o q = Readable(b) \o (p \o q)
    <3>1. Readable(b) \in Seq(Byte)
      BY ReadableType
    <3>2. p \in Seq(Byte) /\ q \in Seq(Byte)
      BY <2>2
    <3> QED
      BY <3>1, <3>2, PutTwice
  <2>7. Readable(e) = Readable(b) \o data
    BY <2>2, <2>4, <2>5, <2>6
  <2>8. ReadableBytes(e) = ReadableBytes(b) + Len(data)
    BY <1>1, <2>2, <2>4, <2>5
  <2> QED
    BY <2>3, <2>4, <2>5, <2>7, <2>8
<1> QED
  BY <1>2, <1>3

(* retrieve drops the first len bytes of the content. *)
LEMMA RetrievedSound ==
  ASSUME NEW b, Sound(b), NEW len \in 0 .. ReadableBytes(b)
  PROVE  LET e == Retrieved(b, len) IN
           /\ Sound(e)
           /\ ReadableBytes(e) = ReadableBytes(b) - len
           /\ Readable(e) = SubSeq(Readable(b), len + 1, Len(Readable(b)))
           /\ Len(e.m_buffer) = Len(b.m_buffer)
<1> DEFINE c == Readable(b)
           q == SubSeq(c, len + 1, Len(c))
           e == Retrieved(b, len)
<1>1. /\ ReadableBytes(b) \in Nat /\ c \in Seq(Byte) /\ Len(c) = ReadableBytes(b)
      /\ c \in [1 .. ReadableBytes(b) -> Byte]
  BY ReadableType
<1>2. /\ b.m_buffer \in Seq(Byte) /\ Len(b.m_buffer) \in Nat
      /\ b.m_readerIndex \in Nat /\ b.m_writerIndex \in Nat
      /\ kCheapPrepend \in Nat /\ kCheapPrepend <= b.m_readerIndex
      /\ b.m_readerIndex <= b.m_writerIndex /\ b.m_writerIndex <= Len(b.m_buffer)
  BY LenProperties, SizesAssumption DEF Sound
<1>3. /\ e.m_buffer = b.m_buffer
      /\ e.m_readerIndex = IF len < ReadableBytes(b) THEN b.m_readerIndex + len ELSE kCheapPrepend
      /\ e.m_writerIndex = IF len < ReadableBytes(b) THEN b.m_writerIndex ELSE kCheapPrepend
      /\ e \in [m_buffer : Seq(Byte), m_readerIndex : Nat, m_writerIndex : Nat]
  <2>1. CASE len < ReadableBytes(b)
    <3>1. e = [b EXCEPT !.m_readerIndex = @ + len]
      BY <2>1 DEF Retrieved
    <3> QED
      BY <1>2, <2>1, <3>1 DEF Sound
  <2>2. CASE ~(len < ReadableBytes(b))
    <3>1. e = [b EXCEPT !.m_readerIndex = kCheapPrepend, !.m_writerIndex = kCheapPrepend]
      BY <2>2 DEF Retrieved, RetrievedAll
    <3> QED
      BY <1>2, <2>2, <3>1 DEF Sound
  <2> QED
    BY <2>1, <2>2
<1> HIDE DEF e
<1>4. Sound(e)
  BY <1>1, <1>2, <1>3 DEF Sound, ReadableBytes
<1>5. ReadableBytes(e) = ReadableBytes(b) - len
  BY <1>1, <1>2, <1>3 DEF ReadableBytes
<1>6. /\ Readable(e) \in Seq(Byte) /\ Len(Readable(e)) = ReadableBytes(b) - len
  BY <1>4, <1>5, ReadableType
<1>7. \A i \in 1 .. ReadableBytes(b) - len : Readable(e)[i] = c[len + i]
  <2> TAKE i \in 1 .. ReadableBytes(b) - len
  <2>1. len < ReadableBytes(b) /\ len + i \in 1 .. ReadableBytes(b)
    BY <1>1
  <2>2. e.m_readerIndex + i = b.m_readerIndex + (len + i)
    BY <1>2, <1>3, <2>1
  <2>3. Readable(e)[i] = e.m_buffer[e.m_readerIndex + i]
    BY <1>5 DEF Readable
  <2>4. c[len + i] = b.m_buffer[b.m_readerIndex + (len + i)]
    BY <2>1 DEF Readable
  <2> QED
    BY <1>3, <2>2, <2>3, <2>4
<1> HIDE DEF c
<1>8. /\ q \in Seq(Byte)
      /\ Len(q) = IF len + 1 <= Len(c) THEN Len(c) - (len + 1) + 1 ELSE 0
      /\ \A i \in 1 .. Len(c) - (len + 1) + 1 : q[i] = c[(len + 1) + i - 1]
  <2>1. \A i \in len + 1 .. Len(c) : c[i] \in Byte
    BY <1>1
  <2> QED
    BY <1>1, <2>1, SubSeqProperties
<1> HIDE DEF q
<1>9. Len(q) = ReadableBytes(b) - len /\ \A i \in 1 .. ReadableBytes(b) - len : q[i] = c[len + i]
  BY <1>1, <1>8
<1>10. Readable(e) = q
  BY <1>6, <1>7, <1>8, <1>9, SeqEqual
<1> QED
  BY <1>3, <1>4, <1>5, <1>10 DEF e, q, c

(* unwrite drops the last len bytes of the content. *)
LEMMA UnwrittenSound ==
  ASSUME NEW b, Sound(b), NEW len \in 0 .. ReadableBytes(b)
  PROVE  LET e == [b EXCEPT !.m_writerIndex = @ - len] IN
           /\ Sound(e)
           /\ ReadableBytes(e) = ReadableBytes(b) - len
           /\ Readable(e) = SubSeq(Readable(b), 1, Len(Readable(b)) - len)
           /\ Len(e.m_buffer) = Len(b.m_buffer)
<1> DEFINE c == Readable(b)
           q == SubSeq(c, 1, Len(c) - len)
           e == [b EXCEPT !.m_writerIndex = @ - len]
<1>1. /\ ReadableBytes(b) \in Nat /\ c \in Seq(Byte) /\ Len(c) = ReadableBytes(b)
      /\ c \in [1 .. ReadableBytes(b) -> Byte]
  BY ReadableType
<1>2. /\ b.m_buffer \in Seq(Byte) /\ Len(b.m_buffer) \in Nat
      /\ b.m_readerIndex \in Nat /\ b.m_writerIndex \in Nat
      /\ kCheapPrepend \in Nat /\ kCheapPrepend <= b.m_readerIndex
      /\ b.m_readerIndex <= b.m_writerIndex /\ b.m_writerIndex <= Len(b.m_buffer)
  BY LenProperties, SizesAssumption DEF Sound
<1>3. b.m_writerIndex - len \in Nat /\ b.m_readerIndex <= b.m_writerIndex - len
  BY <1>1, <1>2 DEF ReadableBytes
<1>4. /\ e.m_buffer = b.m_buffer
      /\ e.m_readerIndex = b.m_readerIndex
      /\ e.m_writerIndex = b.m_writerIndex - len
      /\ e \in [m_buffer : Seq(Byte), m_readerIndex : Nat, m_writerIndex : Nat]
  BY <1>2, <1>3 DEF Sound
<1> HIDE DEF e
<1>5. Sound(e)
  BY <1>1, <1>2, <1>3, <1>4 DEF Sound
<1>6. ReadableBytes(e) = ReadableBytes(b) - len
  BY <1>1, <1>2, <1>4 DEF ReadableBytes
<1>7. /\ Readable(e) \in Seq(Byte) /\ Len(Readable(e)) = ReadableBytes(b) - len
  BY <1>5, <1>6, ReadableType
<1>8. \A i \in 1 .. ReadableBytes(b) - len : Readable(e)[i] = c[i]
  <2> TAKE i \in 1 .. ReadableBytes(b) - len
  <2>1. i \in 1 .. ReadableBytes(b)
    BY <1>1
  <2> QED
    BY <1>4, <1>6, <2>1 DEF Readable
<1> HIDE DEF c
<1>9. /\ q \in Seq(Byte)
      /\ Len(q) = IF 1 <= Len(c) - len THEN Len(c) - len - 1 + 1 ELSE 0
      /\ \A i \in 1 .. Len(c) - len - 1 + 1 : q[i] = c[1 + i - 1]
  <2>1. \A i \in 1 .. Len(c) - len : c[i] \in Byte
    BY <1>1
  <2> QED
    BY <1>1, <2>1, SubSeqProperties
<1> HIDE DEF q
<1>10. Len(q) = ReadableBytes(b) - len /\ \A i \in 1 .. ReadableBytes(b) - len : q[i] = c[i]
  BY <1>1, <1>9
<1>11. Readable(e) = q
  BY <1>7, <1>8, <1>9, <1>10, SeqEqual
<1> QED
  BY <1>4, <1>5, <1>6, <1>11 DEF e, q, c

----------------------------------------------------------------------------
IInv == TypeOK /\ SpaceBounded

(* A string that an action adds is a sequence of bytes. *)
LEMMA StringsAreSeqs ==
  ASSUME NEW data \in Strings(MaxContent)
  PROVE  data \in Seq(Byte) /\ Len(data) \in Nat
<1>1. PICK k \in 0 .. MaxContent : data \in [1 .. k -> Byte]
  BY DEF Strings
<1>2. k \in Nat
  BY SizesAssumption
<1> QED
  BY <1>1, <1>2, FunctionIsSeq

(* TypeOK of a state is soundness of its buffer, and a peak above it. *)
LEMMA TypeIsSound ==
  TypeOK <=> Sound(buffer) /\ peak \in Nat /\ ReadableBytes(buffer) <= peak
BY DEF TypeOK, Sound

(* A step to a sound buffer that has grown only if it had to keeps the     *)
(* invariant.                                                              *)
LEMMA BecomeInv ==
  ASSUME IInv, NEW b, Sound(b), Become(b),
         \/ Len(b.m_buffer) = Len(buffer.m_buffer)
         \/ Len(b.m_buffer) < 2 * ReadableBytes(b) + kCheapPrepend
  PROVE  IInv'
<1>1. /\ Sound(buffer) /\ peak \in Nat /\ ReadableBytes(buffer) <= peak
  BY TypeIsSound DEF IInv
<1>2. ReadableBytes(b) \in Nat /\ kCheapPrepend \in Nat
  BY ReadableType, SizesAssumption
<1>3. buffer' = b /\ peak' \in Nat /\ ReadableBytes(b) <= peak' /\ peak <= peak'
  BY <1>1, <1>2 DEF Become
<1>4. Len(b.m_buffer) \in Nat
  BY LenProperties DEF Sound
<1>5. TypeOK'
  BY <1>3 DEF TypeOK, Sound, ReadableBytes
<1>6. SpaceBounded'
  <2>1. CASE Len(b.m_buffer) = Len(buffer.m_buffer)
    BY <1>1, <1>2, <1>3, <1>4, <2>1 DEF IInv, SpaceBounded
  <2>2. CASE Len(b.m_buffer) < 2 * ReadableBytes(b) + kCheapPrepend
    BY <1>2, <1>3, <1>4, <2>2 DEF SpaceBounded
  <2> QED
    BY <2>1, <2>2
<1> QED
  BY <1>5, <1>6 DEF IInv

(* The new buffer is sound and empty. *)
LEMMA InitInv == Init => IInv /\ Readable(buffer) = <<>>
<1> SUFFICES ASSUME Init PROVE IInv /\ Readable(buffer) = <<>>
  OBVIOUS
<1> DEFINE f == [i \in 1 .. kCheapPrepend + initialSize |-> 0]
<1>1. kCheapPrepend \in Nat /\ initialSize \in Nat /\ kCheapPrepend + initialSize \in Nat
  BY SizesAssumption
<1>2. f \in [1 .. kCheapPrepend + initialSize -> Byte]
  BY SizesAssumption
<1>3. f \in Seq(Byte) /\ Len(f) = kCheapPrepend + initialSize
  BY <1>1, <1>2, FunctionIsSeq
<1>4. buffer = [m_buffer |-> f, m_readerIndex |-> kCheapPrepend, m_writerIndex |-> kCheapPrepend]
  BY DEF Init, NewBuffer
<1> HIDE DEF f
<1>5. ReadableBytes(buffer) = 0
  BY <1>1, <1>4 DEF ReadableBytes
<1>6. Sound(buffer)
  BY <1>1, <1>3, <1>4 DEF Sound
<1>7. TypeOK
  BY <1>5, <1>6, TypeIsSound DEF Init
<1>8. SpaceBounded
  BY <1>3, <1>4 DEF SpaceBounded
<1>9. Readable(buffer) = <<>>
  BY <1>5, <1>6, ReadableType, EmptySeq
<1> QED
  BY <1>7, <1>8, <1>9 DEF IInv

(* retrieveAll is retrieve of everything. *)
LEMMA RetrieveAllIsRetrieve ==
  ASSUME NEW b, Sound(b)
  PROVE  RetrievedAll(b) = Retrieved(b, ReadableBytes(b))
BY ReadableType DEF Retrieved

(* Every operation keeps the invariant, and is an operation of the queue.  *)
LEMMA NextInv ==
  ASSUME IInv, [Next]_vars
  PROVE  IInv' /\ [Queue!BQNext]_(Readable(buffer))
<1> DEFINE c == Readable(buffer)
<1>1. Sound(buffer)
  BY TypeIsSound DEF IInv
<1>2. ReadableBytes(buffer) \in Nat /\ Len(c) = ReadableBytes(buffer)
  BY <1>1, ReadableType
<1>3. ASSUME NEW data \in Strings(MaxContent), AppendData(data)
      PROVE  IInv' /\ c' = c \o data
  <2> DEFINE e == Appended(buffer, data)
  <2>1. data \in Seq(Byte)
    BY StringsAreSeqs
  <2>2. Sound(e) /\ Readable(e) = c \o data
        /\ (Len(e.m_buffer) = Len(buffer.m_buffer)
              \/ Len(e.m_buffer) < 2 * ReadableBytes(e) + kCheapPrepend)
    BY <1>1, <2>1, AppendedSound
  <2>3. Become(e)
    BY <1>3 DEF AppendData
  <2> HIDE DEF e
  <2>4. IInv'
    BY <2>2, <2>3, BecomeInv
  <2>5. c' = Readable(e)
    BY <2>3 DEF Become, Readable, ReadableBytes
  <2> QED
    BY <2>2, <2>4, <2>5
<1>4. ASSUME NEW data \in Strings(MaxContent), HasWritten(data)
      PROVE  IInv' /\ c' = c \o data
  <2> DEFINE e == Written(buffer, data)
  <2>1. data \in Seq(Byte) /\ Len(data) <= WritableBytes(buffer)
    BY <1>4, StringsAreSeqs DEF HasWritten
  <2>2. Sound(e) /\ Readable(e) = c \o data /\ Len(e.m_buffer) = Len(buffer.m_buffer)
    BY <1>1, <2>1, WrittenSound
  <2>3. Become(e)
    BY <1>4 DEF HasWritten
  <2> HIDE DEF e
  <2>4. IInv'
    BY <2>2, <2>3, BecomeInv
  <2>5. c' = Readable(e)
    BY <2>3 DEF Become, Readable, ReadableBytes
  <2> QED
    BY <2>2, <2>4, <2>5
<1>5. ASSUME NEW data \in Strings(MaxContent), ReadFd(data)
      PROVE  IInv' /\ c' = c \o data
  <2> DEFINE e == ReadIn(buffer, data)
  <2>1. data \in Seq(Byte)
    BY StringsAreSeqs
  <2>2. Sound(e) /\ Readable(e) = c \o data
        /\ (Len(e.m_buffer) = Len(buffer.m_buffer)
              \/ Len(e.m_buffer) < 2 * ReadableBytes(e) + kCheapPrepend)
    BY <1>1, <2>1, ReadInSound
  <2>3. Become(e)
    BY <1>5 DEF ReadFd
  <2> HIDE DEF e
  <2>4. IInv'
    BY <2>2, <2>3, BecomeInv
  <2>5. c' = Readable(e)
    BY <2>3 DEF Become, Readable, ReadableBytes
  <2> QED
    BY <2>2, <2>4, <2>5
<1>6. ASSUME NEW len \in 0 .. ReadableBytes(buffer), Become(Retrieved(buffer, len))
      PROVE  IInv' /\ c' = SubSeq(c, len + 1, Len(c))
  <2> DEFINE e == Retrieved(buffer, len)
  <2>1. Sound(e) /\ Readable(e) = SubSeq(c, len + 1, Len(c))
        /\ Len(e.m_buffer) = Len(buffer.m_buffer)
    BY <1>1, RetrievedSound
  <2>2. Become(e)
    BY <1>6
  <2> HIDE DEF e
  <2>3. IInv'
    BY <2>1, <2>2, BecomeInv
  <2>4. c' = Readable(e)
    BY <2>2 DEF Become, Readable, ReadableBytes
  <2> QED
    BY <2>1, <2>3, <2>4
<1>7. ASSUME NEW len \in 0 .. ReadableBytes(buffer), Unwrite(len)
      PROVE  IInv' /\ c' = SubSeq(c, 1, Len(c) - len)
  <2> DEFINE e == [buffer EXCEPT !.m_writerIndex = @ - len]
  <2>1. Sound(e) /\ Readable(e) = SubSeq(c, 1, Len(c) - len)
        /\ Len(e.m_buffer) = Len(buffer.m_buffer)
    BY <1>1, UnwrittenSound
  <2>2. Become(e)
    BY <1>7 DEF Unwrite
  <2> HIDE DEF e
  <2>3. IInv'
    BY <2>1, <2>2, BecomeInv
  <2>4. c' = Readable(e)
    BY <2>2 DEF Become, Readable, ReadableBytes
  <2> QED
    BY <2>1, <2>3, <2>4
<1>8. CASE \E data \in Strings(MaxContent) : AppendData(data) \/ HasWritten(data) \/ ReadFd(data)
  <2>1. PICK data \in Strings(MaxContent) : AppendData(data) \/ HasWritten(data) \/ ReadFd(data)
    BY <1>8
  <2>2. IInv' /\ c' = c \o data
    BY <1>3, <1>4, <1>5, <2>1
  <2> QED
    BY <2>2 DEF Queue!BQNext, Queue!Put
<1>9. CASE \E len \in 0 .. ReadableBytes(buffer) : Retrieve(len) \/ Unwrite(len)
  <2>1. PICK len \in 0 .. ReadableBytes(buffer) : Retrieve(len) \/ Unwrite(len)
    BY <1>9
  <2>2. IInv' /\ (c' = SubSeq(c, len + 1, Len(c)) \/ c' = SubSeq(c, 1, Len(c) - len))
    BY <1>6, <1>7, <2>1 DEF Retrieve
  <2>3. len \in 0 .. Len(c)
    BY <1>2
  <2> QED
    BY <2>2, <2>3 DEF Queue!BQNext, Queue!Take, Queue!TakeBack
<1>10. CASE RetrieveAll
  <2> DEFINE len == ReadableBytes(buffer)
  <2>1. len \in 0 .. ReadableBytes(buffer) /\ len \in 0 .. Len(c)
    BY <1>2
  <2>2. Become(Retrieved(buffer, len))
    BY <1>1, <1>10, RetrieveAllIsRetrieve DEF RetrieveAll
  <2>3. IInv' /\ c' = SubSeq(c, len + 1, Len(c))
    BY <1>6, <2>1, <2>2
  <2> QED
    BY <2>1, <2>3 DEF Queue!BQNext, Queue!Take
<1>11. CASE UNCHANGED vars
  <2>1. buffer' = buffer /\ peak' = peak
    BY <1>11 DEF vars
  <2>2. IInv'
    BY <2>1 DEF IInv, TypeOK, SpaceBounded, ReadableBytes
  <2>3. c' = c
    BY <2>1 DEF Readable, ReadableBytes
  <2> QED
    BY <2>2, <2>3
<1> QED
  BY <1>8, <1>9, <1>10, <1>11 DEF Next

(* The invariant holds in every behaviour of the buffer. *)
THEOREM BufferInvariant == Spec => []IInv
<1>1. Init => IInv
  BY InitInv
<1>2. IInv /\ [Next]_vars => IInv'
  BY NextInv
<1> QED
  BY <1>1, <1>2, PTL DEF Spec

(* 0 <= readerIndex <= writerIndex <= size, as Buffer.h draws it. *)
THEOREM IndicesInOrder == Spec => []TypeOK
<1>1. IInv => TypeOK
  BY DEF IInv
<1> QED
  BY <1>1, BufferInvariant, PTL

(* The vector is never much longer than twice the content. *)
THEOREM SpaceIsBounded == Spec => []SpaceBounded
<1>1. IInv => SpaceBounded
  BY DEF IInv
<1> QED
  BY <1>1, BufferInvariant, PTL

(* The asserts of makeSpace and append hold for whatever is appended. *)
THEOREM AppendAssertsHold == Spec => []AppendAsserts
<1>1. IInv => AppendAsserts
  <2> SUFFICES ASSUME IInv, NEW len \in 0 .. MaxContent
               PROVE  LET b == EnsureWritable(buffer, len) IN
                        /\ (WritableBytes(buffer) < len /\ ~Grows(buffer, len))
                             => kCheapPrepend < buffer.m_readerIndex
                        /\ ReadableBytes(b) = ReadableBytes(buffer)
                        /\ len <= WritableBytes(b)
    BY DEF AppendAsserts
  <2>1. Sound(buffer) /\ len \in Nat
    BY TypeIsSound, SizesAssumption DEF IInv
  <2>2. (WritableBytes(buffer) < len /\ ~Grows(buffer, len))
          => kCheapPrepend < buffer.m_readerIndex
    BY <2>1, MakeSpaceSound
  <2> QED
    BY <2>1, <2>2, EnsureWritableSound
<1> QED
  BY <1>1, BufferInvariant, PTL

(* The buffer implements a queue of bytes. *)
THEOREM BufferIsQueue == Spec => ImplementsByteQueue
<1>1. Init => Queue!BQInit
  BY InitInv DEF Queue!BQInit
<1>2. IInv /\ [Next]_vars => [Queue!BQNext]_(Readable(buffer))
  BY NextInv
<1> QED
  BY <1>1, <1>2, BufferInvariant, PTL DEF Spec, ImplementsByteQueue, Queue!BQSpec

----------------------------------------------------------------------------
(* The HTTP parser on the input buffer.  The reference parser first, line  *)
(* by line.                                                                *)

Items == Lines \cup {"half"}
Answers == {"400", "close", "keep"}
Versions == {"kUnknown", "HTTP/1.1", "HTTP/1.0"}

(* The states of the reference parser. *)
Parsers ==
  [version : Versions, connection : Headers \cup {""}, bad : BOOLEAN, answers : Seq(Answers)]

AnswerTo(version, connection) == IF Closes(version, connection) THEN "close" ELSE "keep"

(* f[i] is the parser after i lines. *)
Parses(f, lines) ==
  /\ f \in [0 .. Len(lines) -> Parsers]
  /\ f[0] = NewParser
  /\ \A i \in 1 .. Len(lines) : f[i] = TakeLine(f[i - 1], lines[i])

(* s is the beginning of t. *)
Starts(s, t) == Len(s) <= Len(t) /\ \A i \in 1 .. Len(s) : s[i] = t[i]

(* Answers are added, and never taken back. *)
Growing(f, n) == \A i, j \in 0 .. n : i <= j => Starts(f[i].answers, f[j].answers)

(* Starts is transitive. *)
LEMMA StartsOn ==
  ASSUME NEW s \in Seq(Answers), NEW t \in Seq(Answers), NEW u \in Seq(Answers),
         Starts(s, t), Starts(t, u)
  PROVE  Starts(s, u)
<1>1. Len(s) \in Nat /\ Len(t) \in Nat /\ Len(u) \in Nat /\ Len(s) <= Len(t) /\ Len(t) <= Len(u)
  BY LenProperties DEF Starts
<1>2. ASSUME NEW i \in 1 .. Len(s) PROVE s[i] = u[i]
  <2>1. i \in 1 .. Len(t)
    BY <1>1
  <2> QED
    BY <2>1 DEF Starts
<1> QED
  BY <1>1, <1>2 DEF Starts

(* A set of numbers has a least one. *)
LEMMA LeastOf ==
  ASSUME NEW T, T \subseteq Nat, T # {}
  PROVE  \E m \in T : \A k \in T : m <= k
<1> DEFINE R == {ss \in Nat \X Nat : ss[1] < ss[2]}
<1>1. IsWellFoundedOn(R, Nat)
  BY NatLessThanWellFounded DEF OpToRel
<1>2. PICK x \in T : \A y \in T : ~(<<y, x>> \in R)
  BY <1>1, WFMin
<1>3. \A y \in T : ~(y < x)
  BY <1>2
<1> QED
  BY <1>3

(* What a parser that has met no bad line makes of a line.  A request line *)
(* that is accepted gives the version.                                     *)
LEMMA TakesRequestLine ==
  ASSUME NEW p \in Parsers, ~p.bad, p.version = "kUnknown", NEW line \in {"HTTP/1.1", "HTTP/1.0"}
  PROVE  LET r == TakeLine(p, line) IN
           /\ r \in Parsers /\ ~r.bad /\ r.version = line
           /\ r.connection = p.connection /\ r.answers = p.answers
<1>1. TakeLine(p, line) = [p EXCEPT !.version = line]
  BY DEF TakeLine
<1>2. [p EXCEPT !.version = line] \in Parsers
  BY DEF Parsers, Versions
<1>3. ~[p EXCEPT !.version = line].bad
  BY Zenon DEF Parsers
<1> QED
  BY <1>1, <1>2, <1>3 DEF Parsers

(* A request line that is refused is answered 400. *)
LEMMA TakesBadLine ==
  ASSUME NEW p \in Parsers, ~p.bad, p.version = "kUnknown", NEW line \in Lines,
         line \notin {"HTTP/1.1", "HTTP/1.0"}
  PROVE  LET r == TakeLine(p, line) IN r \in Parsers /\ r.answers = Append(p.answers, "400")
<1>1. TakeLine(p, line) = [p EXCEPT !.bad = TRUE, !.answers = Append(@, "400")]
  BY DEF TakeLine
<1>2. Append(p.answers, "400") \in Seq(Answers)
  BY AppendProperties DEF Parsers, Answers
<1> QED
  BY <1>1, <1>2 DEF Parsers

(* A header is remembered. *)
LEMMA TakesHeader ==
  ASSUME NEW p \in Parsers, ~p.bad, p.version # "kUnknown", NEW line, HasColon(line)
  PROVE  LET r == TakeLine(p, line) IN
           /\ r \in Parsers /\ ~r.bad /\ r.version = p.version
           /\ r.connection = line /\ r.answers = p.answers
<1>1. TakeLine(p, line) = [p EXCEPT !.connection = line]
  BY DEF TakeLine
<1>2. [p EXCEPT !.connection = line] \in Parsers
  BY DEF Parsers, HasColon
<1>3. ~[p EXCEPT !.connection = line].bad
  BY Zenon DEF Parsers
<1> QED
  BY <1>1, <1>2, <1>3 DEF Parsers

(* The end of the headers answers the request and begins the next. *)
LEMMA TakesEnd ==
  ASSUME NEW p \in Parsers, ~p.bad, p.version # "kUnknown", NEW line, ~HasColon(line)
  PROVE  LET r == TakeLine(p, line) IN
           /\ r \in Parsers /\ ~r.bad /\ r.version = "kUnknown" /\ r.connection = ""
           /\ r.answers = Append(p.answers, AnswerTo(p.version, p.connection))
<1> DEFINE a == AnswerTo(p.version, p.connection)
<1>1. TakeLine(p, line) = [version |-> "kUnknown", connection |-> "", bad |-> FALSE,
                           answers |-> Append(p.answers, a)]
  BY DEF TakeLine, AnswerTo
<1>2. a \in Answers
  BY DEF AnswerTo, Answers
<1> HIDE DEF a
<1>3. Append(p.answers, a) \in Seq(Answers)
  BY <1>2, AppendProperties DEF Parsers
<1>4. [version |-> "kUnknown", connection |-> "", bad |-> FALSE,
       answers |-> Append(p.answers, a)] \in Parsers
  BY <1>3 DEF Parsers, Versions
<1> DEFINE r == [version |-> "kUnknown", connection |-> "", bad |-> FALSE,
                 answers |-> Append(p.answers, a)]
<1>5. r.version = "kUnknown" /\ r.connection = "" /\ r.answers = Append(p.answers, a)
  OBVIOUS
<1>6. ~r.bad
  BY Zenon
<1>7. TakeLine(p, line) = r /\ r \in Parsers
  BY <1>1, <1>4
<1> HIDE DEF r
<1> QED
  BY <1>5, <1>6, <1>7, Zenon DEF a

(* In every case the answers given stay. *)
LEMMA TakesLine ==
  ASSUME NEW p \in Parsers, NEW line \in Lines
  PROVE  /\ TakeLine(p, line) \in Parsers
         /\ Starts(p.answers, TakeLine(p, line).answers)
<1>1. p.answers \in Seq(Answers) /\ Len(p.answers) \in Nat
  BY LenProperties DEF Parsers
<1>2. Starts(p.answers, p.answers)
  BY <1>1 DEF Starts
<1>3. ASSUME NEW a \in Answers PROVE Starts(p.answers, Append(p.answers, a))
  BY <1>1, AppendProperties DEF Starts
<1>4. CASE p.bad
  <2>1. TakeLine(p, line) = p
    BY <1>4 DEF TakeLine
  <2> QED
    BY <1>2, <2>1
<1>5. CASE ~p.bad /\ p.version = "kUnknown" /\ line \in {"HTTP/1.1", "HTTP/1.0"}
  BY <1>2, <1>5, TakesRequestLine
<1>6. CASE ~p.bad /\ p.version = "kUnknown" /\ line \notin {"HTTP/1.1", "HTTP/1.0"}
  BY <1>3, <1>6, TakesBadLine DEF Answers
<1>7. CASE ~p.bad /\ p.version # "kUnknown" /\ HasColon(line)
  BY <1>2, <1>7, TakesHeader
<1>8. CASE ~p.bad /\ p.version # "kUnknown" /\ ~HasColon(line)
  <2>1. AnswerTo(p.version, p.connection) \in Answers
    BY DEF AnswerTo, Answers
  <2> QED
    BY <1>3, <1>8, <2>1, TakesEnd
<1> QED
  BY <1>4, <1>5, <1>6, <1>7, <1>8

(* Expected is what such a parser has answered in the end. *)
LEMMA ExpectedIs ==
  ASSUME NEW lines, Len(lines) \in Nat, NEW f, Parses(f, lines)
  PROVE  Expected(lines) = f[Len(lines)].answers
<1> DEFINE after[n \in 0 .. Len(lines)] ==
             IF n = 0 THEN NewParser ELSE TakeLine(after[n - 1], lines[n])
<1>1. after = CHOOSE g : g = [n \in 0 .. Len(lines) |->
                                IF n = 0 THEN NewParser ELSE TakeLine(g[n - 1], lines[n])]
  BY DEF after
<1>2. f = [n \in 0 .. Len(lines) |-> IF n = 0 THEN NewParser ELSE TakeLine(f[n - 1], lines[n])]
  <2>1. ASSUME NEW n \in 0 .. Len(lines)
        PROVE  f[n] = IF n = 0 THEN NewParser ELSE TakeLine(f[n - 1], lines[n])
    BY DEF Parses
  <2>2. DOMAIN f = 0 .. Len(lines) /\ f = [n \in DOMAIN f |-> f[n]]
    BY DEF Parses
  <2> QED
    BY <2>1, <2>2
<1>3. after = [n \in 0 .. Len(lines) |->
                 IF n = 0 THEN NewParser ELSE TakeLine(after[n - 1], lines[n])]
  <2> HIDE DEF after
  <2> QED
    BY <1>1, <1>2, Zenon
<1>4. Expected(lines) = after[Len(lines)].answers
  BY Zenon DEF Expected, after
<1> HIDE DEF after
<1> DEFINE T == {n \in 0 .. Len(lines) : after[n] # f[n]}
<1>5. T = {}
  <2>1. SUFFICES ASSUME T # {} PROVE FALSE
    OBVIOUS
  <2>2. PICK m \in T : \A k \in T : m <= k
    <3>1. T \subseteq Nat
      OBVIOUS
    <3> QED
      BY <2>1, <3>1, LeastOf, Zenon
  <2>3. m \in 0 .. Len(lines) /\ after[m] # f[m]
    OBVIOUS
  <2>4. m # 0
    BY <1>2, <1>3, <2>3
  <2>5. m - 1 \in 0 .. Len(lines) /\ ~(m <= m - 1)
    BY <2>3, <2>4
  <2>6. after[m - 1] = f[m - 1]
    BY <2>2, <2>5
  <2>7. after[m] = TakeLine(after[m - 1], lines[m])
    BY <1>3, <2>3, <2>4
  <2>8. f[m] = TakeLine(f[m - 1], lines[m])
    BY <1>2, <2>3, <2>4
  <2> QED
    BY <2>3, <2>6, <2>7, <2>8, Zenon
<1>6. after[Len(lines)] = f[Len(lines)]
  BY <1>5
<1> QED
  BY <1>4, <1>6

(* One line more. *)
LEMMA ParsesMore ==
  ASSUME NEW lines \in Seq(Lines), NEW line \in Lines,
         NEW f, Parses(f, lines), Growing(f, Len(lines))
  PROVE  \E g : /\ Parses(g, Append(lines, line))
                /\ Growing(g, Len(lines) + 1)
                /\ \A i \in 0 .. Len(lines) : g[i] = f[i]
<1> DEFINE n == Len(lines)
           last == TakeLine(f[n], line)
           g == [i \in 0 .. n + 1 |-> IF i = n + 1 THEN last ELSE f[i]]
<1>1. n \in Nat /\ Len(Append(lines, line)) = n + 1 /\ Append(lines, line)[n + 1] = line
      /\ \A i \in 1 .. n : Append(lines, line)[i] = lines[i]
  BY LenProperties, AppendProperties
<1>2. f \in [0 .. n -> Parsers] /\ f[0] = NewParser
      /\ \A i \in 1 .. n : f[i] = TakeLine(f[i - 1], lines[i])
  BY DEF Parses
<1>3. f[n] \in Parsers /\ last \in Parsers /\ Starts(f[n].answers, last.answers)
  <2>1. f[n] \in Parsers
    BY <1>1, <1>2
  <2> QED
    BY <2>1, TakesLine
<1> HIDE DEF last
<1>4. /\ g \in [0 .. n + 1 -> Parsers]
      /\ \A i \in 0 .. n : g[i] = f[i]
      /\ g[n + 1] = last
  BY <1>1, <1>2, <1>3
<1> HIDE DEF g
<1>5. g[0] = NewParser
  BY <1>1, <1>2, <1>4
<1>6. ASSUME NEW i \in 1 .. n + 1 PROVE g[i] = TakeLine(g[i - 1], Append(lines, line)[i])
  <2>1. CASE i = n + 1
    <3>1. i - 1 = n /\ n \in 0 .. n
      BY <1>1, <2>1
    <3>2. g[i - 1] = f[n] /\ g[i] = last /\ Append(lines, line)[i] = line
      BY <1>1, <1>4, <2>1, <3>1
    <3> QED
      BY <3>2, Zenon DEF last
  <2>2. CASE i # n + 1
    <3>1. i \in 1 .. n /\ i \in 0 .. n /\ i - 1 \in 0 .. n
      BY <1>1, <2>2
    <3>2. g[i - 1] = f[i - 1] /\ g[i] = f[i] /\ Append(lines, line)[i] = lines[i]
      BY <1>1, <1>4, <3>1
    <3>3. f[i] = TakeLine(f[i - 1], lines[i])
      BY <1>2, <3>1
    <3> QED
      BY <3>2, <3>3, Zenon
  <2> QED
    BY <2>1, <2>2
<1>7. Parses(g, Append(lines, line))
  BY <1>1, <1>4, <1>5, <1>6 DEF Parses
<1>8. ASSUME NEW i \in 0 .. n + 1, NEW j \in 0 .. n + 1, i <= j
      PROVE  Starts(g[i].answers, g[j].answers)
  <2>1. CASE j # n + 1
    <3>1. i \in 0 .. n /\ j \in 0 .. n
      BY <1>1, <1>8, <2>1
    <3> QED
      BY <1>4, <1>8, <3>1 DEF Growing
  <2>2. CASE i = n + 1
    <3>1. j = n + 1
      BY <1>1, <1>8, <2>2
    <3>2. last.answers \in Seq(Answers)
      BY <1>3 DEF Parsers
    <3>3. Starts(last.answers, last.answers)
      BY <3>2, LenProperties DEF Starts
    <3> QED
      BY <1>4, <2>2, <3>1, <3>3
  <2>3. CASE i # n + 1 /\ j = n + 1
    <3>1. i \in 0 .. n /\ n \in 0 .. n /\ i <= n
      BY <1>1, <2>3
    <3>2. Starts(f[i].answers, f[n].answers)
      BY <3>1 DEF Growing
    <3>3. f[i].answers \in Seq(Answers) /\ f[n].answers \in Seq(Answers) /\ last.answers \in Seq(Answers)
      BY <1>2, <1>3, <3>1 DEF Parsers
    <3>4. Starts(f[i].answers, last.answers)
      BY <1>3, <3>2, <3>3, StartsOn
    <3> QED
      BY <1>4, <2>3, <3>1, <3>4
  <2> QED
    BY <2>1, <2>2, <2>3
<1>9. Growing(g, n + 1)
  BY <1>8 DEF Growing
<1> QED
  BY <1>4, <1>7, <1>9

----------------------------------------------------------------------------
(* The items on their way to the parser. *)

(* The items of s are the lines from the k-th on, each in two parts, and   *)
(* the first half of another if half.                                      *)
Encodes(s, lines, k, half) ==
  /\ Len(s) = 2 * (Len(lines) - k) + (IF half THEN 1 ELSE 0)
  /\ \A j \in 1 .. Len(lines) - k : s[2 * j - 1] = "half" /\ s[2 * j] = lines[k + j]
  /\ half => s[Len(s)] = "half"

(* The client sends the first half of a line. *)
LEMMA EncodesHalf ==
  ASSUME NEW s \in Seq(Items), NEW lines \in Seq(Lines), NEW k \in 0 .. Len(lines),
         Encodes(s, lines, k, FALSE)
  PROVE  Encodes(Append(s, "half"), lines, k, TRUE)
<1> DEFINE t == Append(s, "half")
<1>1. Len(s) \in Nat /\ Len(lines) \in Nat /\ "half" \in Items
  BY LenProperties DEF Items
<1>2. Len(t) = Len(s) + 1 /\ t[Len(s) + 1] = "half" /\ \A i \in 1 .. Len(s) : t[i] = s[i]
  BY <1>1, AppendProperties
<1> HIDE DEF t
<1>3. Len(s) = 2 * (Len(lines) - k)
  BY <1>1 DEF Encodes
<1>4. ASSUME NEW j \in 1 .. Len(lines) - k PROVE t[2 * j - 1] = "half" /\ t[2 * j] = lines[k + j]
  <2>1. 2 * j - 1 \in 1 .. Len(s) /\ 2 * j \in 1 .. Len(s)
    BY <1>1, <1>3
  <2> QED
    BY <1>2, <2>1 DEF Encodes
<1>5. Encodes(t, lines, k, TRUE)
  BY <1>1, <1>2, <1>3, <1>4 DEF Encodes
<1> QED
  BY <1>5 DEF t

(* It sends the rest of it. *)
LEMMA EncodesLine ==
  ASSUME NEW s \in Seq(Items), NEW lines \in Seq(Lines), NEW k \in 0 .. Len(lines),
         NEW line \in Lines, Encodes(s, lines, k, TRUE)
  PROVE  Encodes(Append(s, line), Append(lines, line), k, FALSE)
<1> DEFINE t == Append(s, line)
           more == Append(lines, line)
<1>1. Len(s) \in Nat /\ Len(lines) \in Nat /\ line \in Items
  BY LenProperties DEF Items
<1>2. Len(t) = Len(s) + 1 /\ t[Len(s) + 1] = line /\ \A i \in 1 .. Len(s) : t[i] = s[i]
  BY <1>1, AppendProperties
<1>3. Len(more) = Len(lines) + 1 /\ more[Len(lines) + 1] = line
      /\ \A i \in 1 .. Len(lines) : more[i] = lines[i]
  BY <1>1, AppendProperties
<1> HIDE DEF t, more
<1>4. Len(s) = 2 * (Len(lines) - k) + 1 /\ s[Len(s)] = "half"
  BY <1>1 DEF Encodes
<1>5. ASSUME NEW j \in 1 .. Len(more) - k PROVE t[2 * j - 1] = "half" /\ t[2 * j] = more[k + j]
  <2>1. CASE j \in 1 .. Len(lines) - k
    <3>1. 2 * j - 1 \in 1 .. Len(s) /\ 2 * j \in 1 .. Len(s) /\ k + j \in 1 .. Len(lines)
      BY <1>1, <1>4, <2>1
    <3>2. s[2 * j - 1] = "half" /\ s[2 * j] = lines[k + j]
      BY <2>1 DEF Encodes
    <3> QED
      BY <1>2, <1>3, <3>1, <3>2
  <2>2. CASE j \notin 1 .. Len(lines) - k
    <3>1. 2 * j - 1 = Len(s) /\ 2 * j = Len(s) + 1 /\ k + j = Len(lines) + 1 /\ Len(s) \in 1 .. Len(s)
      BY <1>1, <1>3, <1>4, <2>2
    <3> QED
      BY <1>2, <1>3, <1>4, <3>1
  <2> QED
    BY <2>1, <2>2
<1>6. Encodes(t, more, k, FALSE)
  BY <1>1, <1>2, <1>3, <1>4, <1>5 DEF Encodes
<1> QED
  BY <1>6 DEF t, more

(* Two items are the next line, and what follows them is the rest. *)
LEMMA EncodesRest ==
  ASSUME NEW s \in Seq(Items), NEW lines \in Seq(Lines), NEW k \in 0 .. Len(lines),
         NEW half \in BOOLEAN, Encodes(s, lines, k, half), 2 <= Len(s)
  PROVE  /\ k + 1 \in 0 .. Len(lines)
         /\ s[2] = lines[k + 1]
         /\ Encodes(SubSeq(s, 3, Len(s)), lines, k + 1, half)
<1> DEFINE t == SubSeq(s, 3, Len(s))
<1>1. Len(s) \in Nat /\ Len(lines) \in Nat /\ Len(s) <= 2 * (Len(lines) - k) + 1
  BY LenProperties DEF Encodes
<1>2. k + 1 \in 0 .. Len(lines) /\ 1 \in 1 .. Len(lines) - k
  BY <1>1
<1>3. s[2 * 1] = lines[k + 1]
  BY <1>2 DEF Encodes
<1>4. Len(t) = Len(s) - 2 /\ \A i \in 1 .. Len(s) - 2 : t[i] = s[i + 2]
  <2>1. 2 \in 0 .. Len(s) /\ 2 + 1 = 3
    BY <1>1
  <2> DEFINE u == SubSeq(s, 2 + 1, Len(s))
  <2>2. Len(u) = Len(s) - 2 /\ \A i \in 1 .. Len(s) - 2 : u[i] = s[2 + i]
    BY <2>1, CutInTwo
  <2>3. t = u
    BY <2>1
  <2> HIDE DEF t, u
  <2>4. \A i \in 1 .. Len(s) - 2 : 2 + i = i + 2
    BY <1>1
  <2> QED
    BY <2>2, <2>3, <2>4
<1> HIDE DEF t
<1>5. ASSUME NEW j \in 1 .. Len(lines) - (k + 1)
      PROVE  t[2 * j - 1] = "half" /\ t[2 * j] = lines[(k + 1) + j]
  <2>1. j + 1 \in 1 .. Len(lines) - k /\ 2 * (j + 1) - 1 = (2 * j - 1) + 2 /\ 2 * (j + 1) = 2 * j + 2
        /\ k + (j + 1) = (k + 1) + j
    BY <1>1
  <2>2. s[(2 * j - 1) + 2] = "half" /\ s[2 * j + 2] = lines[(k + 1) + j]
    BY <2>1 DEF Encodes
  <2>3. 2 * j - 1 \in 1 .. Len(s) - 2 /\ 2 * j \in 1 .. Len(s) - 2
    BY <1>1 DEF Encodes
  <2> QED
    BY <1>4, <2>2, <2>3
<1>6. Len(t) = 2 * (Len(lines) - (k + 1)) + (IF half THEN 1 ELSE 0)
  BY <1>1, <1>4 DEF Encodes
<1>7. ASSUME half PROVE t[Len(t)] = "half"
  <2>1. Len(t) \in 1 .. Len(s) - 2 /\ Len(t) + 2 = Len(s)
    BY <1>1, <1>2, <1>4, <1>6, <1>7
  <2> QED
    BY <1>4, <1>7, <2>1 DEF Encodes
<1>8. Encodes(t, lines, k + 1, half)
  BY <1>5, <1>6, <1>7 DEF Encodes
<1> QED
  BY <1>2, <1>3, <1>8 DEF t

(* The first item, if there is one, ends no line. *)
LEMMA EncodesFirst ==
  ASSUME NEW s \in Seq(Items), NEW lines \in Seq(Lines), NEW k \in 0 .. Len(lines),
         NEW half \in BOOLEAN, Encodes(s, lines, k, half), 1 <= Len(s)
  PROVE  s[1] = "half"
<1>1. Len(s) \in Nat /\ Len(lines) \in Nat
  BY LenProperties
<1>2. CASE k < Len(lines)
  <2>1. 1 \in 1 .. Len(lines) - k /\ 2 * 1 - 1 = 1
    BY <1>1, <1>2
  <2> QED
    BY <2>1 DEF Encodes
<1>3. CASE k = Len(lines)
  <2>1. half /\ Len(s) = 1
    BY <1>1, <1>3 DEF Encodes
  <2> QED
    BY <2>1 DEF Encodes
<1> QED
  BY <1>1, <1>2, <1>3

----------------------------------------------------------------------------
(* The invariant. *)

(* What has been sent and not parsed. *)
Pending == buf \o inflight

(* The server has done what the reference parser p has. *)
InStep(p) ==
  /\ ~p.bad
  /\ state_ = "kExpectRequestLine" =>
       p.version = "kUnknown" /\ p.connection = "" /\ request_ = NewRequest /\ p.answers = answers
  /\ state_ = "kExpectHeaders" =>
       /\ p.version # "kUnknown" /\ p.version = request_.version
       /\ p.connection = request_.connection /\ p.answers = answers
  /\ state_ = "kGotAll" =>
       /\ p.version = "kUnknown" /\ p.connection = ""
       /\ p.answers = Append(answers, AnswerTo(request_.version, request_.connection))

(* The server has parsed k lines, and the others are on their way. *)
ParsedTo(f, k) == Encodes(Pending, sent, k, sending) /\ InStep(f[k])

(* Of a connection that is being shut down only the answers matter: no     *)
(* more are sent.                                                          *)
Matches(f) ==
  /\ Starts(answers, f[Len(sent)].answers)
  /\ m_state = "kConnected" /\ pc # "aborted" => \E k \in 0 .. Len(sent) : ParsedTo(f, k)

(* HttpContext is complete only until onMessage has answered. *)
PcAgrees == pc # "aborted" => (state_ = "kGotAll" <=> pc = "gotAll")

(* The inductive invariant: f[i] is what the reference parser is after i   *)
(* of the lines that were sent.                                            *)
HttpInv ==
  /\ HttpTypeOK
  /\ PcAgrees
  /\ \E f : Parses(f, sent) /\ Growing(f, Len(sent)) /\ Matches(f)

(* findCRLF returns NULL or a place in the buffer. *)
LEMMA CRLFInBuffer ==
  ASSUME buf \in Seq(Items)
  PROVE  /\ FindCRLF \in 0 .. Len(buf)
         /\ FindCRLF > 0 => /\ buf[FindCRLF] # "half"
                                 /\ \A j \in 1 .. FindCRLF - 1 : buf[j] = "half"
         /\ FindCRLF = 0 => \A i \in 1 .. Len(buf) : buf[i] = "half"
<1> DEFINE T == {i \in 1 .. Len(buf) : buf[i] # "half"}
           First(i) == buf[i] # "half" /\ \A j \in 1 .. i - 1 : buf[j] = "half"
<1>1. Len(buf) \in Nat
  BY LenProperties
<1>2. CASE T = {}
  <2>1. ~ \E i \in 1 .. Len(buf) : buf[i] # "half"
    BY <1>2
  <2>2. FindCRLF = 0
    BY <2>1 DEF FindCRLF
  <2> QED
    BY <1>1, <2>1, <2>2
<1>3. CASE T # {}
  <2>1. T \subseteq Nat
    OBVIOUS
  <2>2. PICK m \in T : \A k \in T : m <= k
    BY <1>3, <2>1, LeastOf, Zenon
  <2>3. m \in 1 .. Len(buf) /\ First(m)
    <3>1. m \in 1 .. Len(buf) /\ buf[m] # "half"
      OBVIOUS
    <3>2. ASSUME NEW j \in 1 .. m - 1 PROVE buf[j] = "half"
      <4>1. j \in 1 .. Len(buf) /\ ~(m <= j)
        BY <1>1, <3>1
      <4> QED
        BY <2>2, <4>1
    <3> QED
      BY <3>1, <3>2
  <2>4. FindCRLF = CHOOSE i \in 1 .. Len(buf) : First(i)
    BY <2>3 DEF FindCRLF
  <2>5. FindCRLF \in 1 .. Len(buf) /\ First(FindCRLF)
    BY <2>3, <2>4, Zenon
  <2> QED
    BY <1>1, <2>5
<1> QED
  BY <1>2, <1>3

(* retrieveUntil leaves the rest of the buffer. *)
LEMMA RetrievedType ==
  ASSUME buf \in Seq(Items)
  PROVE  AfterLine \in Seq(Items)
<1>1. FindCRLF \in 0 .. Len(buf)
  BY CRLFInBuffer
<1> QED
  BY <1>1, CutInTwo DEF AfterLine

(* Adding to the end of the second is adding to the end of both. *)
LEMMA AppendToBoth ==
  ASSUME NEW S, NEW s \in Seq(S), NEW t \in Seq(S), NEW x \in S
  PROVE  s \o Append(t, x) = Append(s \o t, x)
<1>1. <<x>> \in Seq(S) /\ s \o t \in Seq(S)
  BY ConcatProperties
<1>2. Append(t, x) = t \o <<x>> /\ Append(s \o t, x) = (s \o t) \o <<x>>
  BY <1>1, AppendIsConcat
<1>3. (s \o t) \o <<x>> = s \o (t \o <<x>>)
  BY <1>1, PutTwice
<1> QED
  BY <1>2, <1>3

(* Taking from the front of the first is taking from the front of both. *)
LEMMA TakeFromBoth ==
  ASSUME NEW S, NEW s \in Seq(S), NEW t \in Seq(S), NEW n \in 0 .. Len(s)
  PROVE  SubSeq(s, n + 1, Len(s)) \o t = SubSeq(s \o t, n + 1, Len(s \o t))
<1> DEFINE p == SubSeq(s, n + 1, Len(s))
           st == s \o t
           l == p \o t
           r == SubSeq(st, n + 1, Len(st))
<1>1. Len(s) \in Nat /\ Len(t) \in Nat
  BY LenProperties
<1>2. p \in Seq(S) /\ Len(p) = Len(s) - n /\ \A i \in 1 .. Len(s) - n : p[i] = s[n + i]
  BY CutInTwo
<1>3. /\ st \in Seq(S) /\ Len(st) = Len(s) + Len(t)
      /\ \A i \in 1 .. Len(s) + Len(t) : st[i] = IF i <= Len(s) THEN s[i] ELSE t[i - Len(s)]
  BY ConcatProperties
<1> HIDE DEF p, st
<1>4. /\ l \in Seq(S) /\ Len(l) = Len(p) + Len(t)
      /\ \A i \in 1 .. Len(p) + Len(t) : l[i] = IF i <= Len(p) THEN p[i] ELSE t[i - Len(p)]
  <2>1. p \in Seq(S)
    BY <1>2
  <2> QED
    BY <2>1, ConcatProperties
<1>5. r \in Seq(S) /\ Len(r) = Len(st) - n /\ \A i \in 1 .. Len(st) - n : r[i] = st[n + i]
  <2>1. st \in Seq(S) /\ n \in 0 .. Len(st)
    BY <1>1, <1>3
  <2> QED
    BY <2>1, CutInTwo
<1> HIDE DEF l, r
<1>6. Len(l) = Len(r)
  BY <1>1, <1>2, <1>3, <1>4, <1>5
<1>7. ASSUME NEW i \in 1 .. Len(l) PROVE l[i] = r[i]
  <2>1. n + i \in 1 .. Len(s) + Len(t) /\ i \in 1 .. Len(p) + Len(t) /\ i \in 1 .. Len(st) - n
    BY <1>1, <1>2, <1>3, <1>4
  <2>2. r[i] = IF n + i <= Len(s) THEN s[n + i] ELSE t[(n + i) - Len(s)]
    BY <1>3, <1>5, <2>1
  <2>3. l[i] = IF i <= Len(s) - n THEN p[i] ELSE t[i - (Len(s) - n)]
    BY <1>2, <1>4, <2>1
  <2>4. (n + i) - Len(s) = i - (Len(s) - n) /\ (n + i <= Len(s) <=> i <= Len(s) - n)
    BY <1>1
  <2>5. CASE i <= Len(s) - n
    <3>1. p[i] = s[n + i]
      BY <1>1, <1>2, <2>5
    <3> QED
      BY <2>2, <2>3, <2>4, <2>5, <3>1
  <2>6. CASE ~(i <= Len(s) - n)
    BY <2>2, <2>3, <2>4, <2>6
  <2> QED
    BY <2>5, <2>6
<1>8. l = r
  BY <1>4, <1>5, <1>6, <1>7, SeqEqual
<1> QED
  BY <1>8 DEF l, r, p, st

(* Where k lines have been parsed, the line that findCRLF finds is the     *)
(* next one, and what retrieveUntil leaves are the lines after it.         *)
LEMMA NextLine ==
  ASSUME HttpTypeOK, NEW k \in 0 .. Len(sent), Encodes(Pending, sent, k, sending), FindCRLF > 0
  PROVE  /\ k + 1 \in 0 .. Len(sent)
         /\ buf[FindCRLF] = sent[k + 1]
         /\ Encodes(AfterLine \o inflight, sent, k + 1, sending)
<1>1. /\ buf \in Seq(Items) /\ inflight \in Seq(Items) /\ sent \in Seq(Lines) /\ sending \in BOOLEAN
      /\ Len(buf) \in Nat /\ Len(inflight) \in Nat /\ Len(sent) \in Nat
  BY LenProperties DEF HttpTypeOK, Items
<1>2. /\ Pending \in Seq(Items) /\ Len(Pending) = Len(buf) + Len(inflight)
      /\ \A i \in 1 .. Len(buf) : Pending[i] = buf[i]
  BY <1>1, ConcatProperties DEF Pending
<1>3. /\ FindCRLF \in 1 .. Len(buf) /\ buf[FindCRLF] # "half"
      /\ \A j \in 1 .. FindCRLF - 1 : buf[j] = "half"
  BY <1>1, CRLFInBuffer
<1>4. FindCRLF # 1
  <2>1. Pending[1] = "half"
    BY <1>1, <1>2, <1>3, EncodesFirst
  <2> QED
    BY <1>1, <1>2, <1>3, <2>1
<1>5. 2 <= Len(Pending) /\ 2 \in 1 .. Len(buf)
  BY <1>1, <1>2, <1>3, <1>4
<1>6. /\ k + 1 \in 0 .. Len(sent) /\ Pending[2] = sent[k + 1]
      /\ Encodes(SubSeq(Pending, 3, Len(Pending)), sent, k + 1, sending)
  <2>1. Pending \in Seq(Items) /\ sent \in Seq(Lines) /\ sending \in BOOLEAN /\ 2 <= Len(Pending)
    BY <1>1, <1>2, <1>5
  <2> QED
    BY <2>1, EncodesRest, Zenon
<1>7. buf[2] # "half"
  <2>1. sent[k + 1] \in Lines
    BY <1>1, <1>6, ElementOfSeq
  <2> QED
    BY <1>2, <1>5, <1>6, <2>1 DEF Lines, RequestLines, Headers
<1>8. FindCRLF = 2
  BY <1>1, <1>3, <1>4, <1>7
<1>9. AfterLine \o inflight = SubSeq(Pending, 3, Len(Pending))
  <2>1. 2 \in 0 .. Len(buf) /\ 2 + 1 = 3
    BY <1>1, <1>5
  <2>2. SubSeq(buf, 2 + 1, Len(buf)) \o inflight = SubSeq(buf \o inflight, 2 + 1, Len(buf \o inflight))
    BY <1>1, <2>1, TakeFromBoth
  <2> QED
    BY <1>8, <2>1, <2>2 DEF AfterLine, Pending
<1> QED
  BY <1>2, <1>5, <1>6, <1>8, <1>9

----------------------------------------------------------------------------
(* The actions. *)

(* A new connection. *)
LEMMA HttpInitInv == HttpInit => HttpInv
<1> SUFFICES ASSUME HttpInit PROVE HttpInv
  OBVIOUS
<1> DEFINE f == [i \in {0} |-> NewParser]
<1>1. /\ sent = <<>> /\ buf = <<>> /\ inflight = <<>> /\ answers = <<>>
      /\ state_ = "kExpectRequestLine" /\ request_ = NewRequest
      /\ m_state = "kConnected" /\ pc = "idle"
  BY Zenon DEF HttpInit
<1>2. sending = FALSE
  BY Zenon DEF HttpInit
<1>3. HttpTypeOK /\ PcAgrees
  <2>1. request_ \in [method : {"kInvalid", "set"}, version : RequestLines \cup {"kUnknown"},
                      connection : Headers \cup {""}]
    BY <1>1 DEF NewRequest
  <2>2. sending \in BOOLEAN
    BY <1>2
  <2>3. /\ sent \in Seq(Lines) /\ answers \in Seq({"400", "close", "keep"})
        /\ buf \in Seq(Lines \cup {"half"}) /\ inflight \in Seq(Lines \cup {"half"})
    BY <1>1
  <2>4. /\ state_ \in {"kExpectRequestLine", "kExpectHeaders", "kGotAll"}
        /\ m_state \in {"kConnected", "kDisConnecting"}
        /\ pc \in {"idle", "parse", "gotAll", "aborted"} /\ pc # "parse"
    BY <1>1
  <2>5. HttpTypeOK
    BY <2>1, <2>2, <2>3, <2>4, Zenon DEF HttpTypeOK
  <2> QED
    BY <1>1, <2>5 DEF PcAgrees
<1>4. NewParser \in Parsers /\ NewParser.version = "kUnknown" /\ NewParser.connection = ""
      /\ NewParser.answers = <<>>
  BY DEF NewParser, Parsers, Versions
<1>5. ~NewParser.bad
  BY Zenon DEF NewParser
<1>6. Len(sent) = 0 /\ Len(answers) = 0 /\ 0 .. 0 = {0} /\ 1 .. 0 = {}
  BY <1>1
<1>7. f \in [{0} -> Parsers] /\ f[0] = NewParser
  BY <1>4
<1> HIDE DEF f
<1>8. Parses(f, sent)
  BY <1>6, <1>7 DEF Parses
<1>9. Starts(<<>>, <<>>)
  BY DEF Starts
<1>10. Growing(f, Len(sent))
  <2>1. ASSUME NEW i \in 0 .. 0, NEW j \in 0 .. 0 PROVE Starts(f[i].answers, f[j].answers)
    <3>1. i = 0 /\ j = 0
      BY <1>6
    <3> QED
      BY <1>4, <1>7, <1>9, <3>1
  <2> QED
    BY <1>6, <2>1 DEF Growing
<1>11. Matches(f)
  <2>1. Starts(answers, f[Len(sent)].answers)
    BY <1>1, <1>4, <1>6, <1>7, <1>9
  <2>2. Encodes(Pending, sent, 0, sending)
    <3>1. Pending = <<>>
      BY <1>1 DEF Pending
    <3> QED
      BY <1>2, <1>6, <3>1 DEF Encodes
  <2>3. InStep(f[0])
    BY <1>1, <1>4, <1>5, <1>7 DEF InStep
  <2> QED
    BY <1>6, <2>1, <2>2, <2>3 DEF Matches, ParsedTo
<1> QED
  BY <1>3, <1>8, <1>10, <1>11 DEF HttpInv

(* Every step keeps the types, and what state_ says of where onMessage is. *)
LEMMA HttpTypeStep ==
  ASSUME HttpTypeOK, PcAgrees, [HttpNext]_httpVars
  PROVE  HttpTypeOK' /\ PcAgrees'
<1>1. /\ buf \in Seq(Items) /\ inflight \in Seq(Items) /\ sent \in Seq(Lines)
      /\ answers \in Seq(Answers)
      /\ Len(inflight) \in Nat
  BY LenProperties DEF HttpTypeOK, Items, Answers
<1>2. AfterLine \in Seq(Items)
  BY <1>1, RetrievedType
<1>3. CASE Send
  <2>1. ASSUME NEW x \in Items PROVE Append(inflight, x) \in Seq(Items)
    BY <1>1, AppendProperties
  <2>2. ASSUME NEW x \in Lines PROVE Append(sent, x) \in Seq(Lines)
    BY <1>1, AppendProperties
  <2>3. inflight' \in Seq(Items)
    BY <1>3, <2>1 DEF Send, Items
  <2>4. sent' \in Seq(Lines)
    BY <1>1, <1>3, <2>2 DEF Send
  <2>5. sending' \in BOOLEAN
    BY <1>3 DEF Send, HttpTypeOK
  <2> QED
    BY <1>3, <2>3, <2>4, <2>5 DEF Send, server, HttpTypeOK, PcAgrees, Items
<1>4. CASE OnMessage
  <2>1. PICK n \in 1 .. Len(inflight) :
          /\ buf' = buf \o SubSeq(inflight, 1, n)
          /\ inflight' = SubSeq(inflight, n + 1, Len(inflight))
    BY <1>4 DEF OnMessage
  <2>2. n \in 0 .. Len(inflight)
    OBVIOUS
  <2>3. SubSeq(inflight, 1, n) \in Seq(Items) /\ SubSeq(inflight, n + 1, Len(inflight)) \in Seq(Items)
    BY <1>1, <2>2, CutInTwo
  <2>4. buf' \in Seq(Items) /\ inflight' \in Seq(Items)
    BY <1>1, <2>1, <2>3, ConcatProperties
  <2> QED
    BY <1>4, <2>4 DEF OnMessage, HttpTypeOK, PcAgrees, Items
<1>5. CASE ParseMore
  BY <1>5 DEF ParseMore, HttpTypeOK, PcAgrees
<1>6. ASSUME NEW a \in Answers, SendAnswer(a) PROVE answers' \in Seq(Answers)
  BY <1>1, <1>6, AppendProperties DEF SendAnswer
<1>7. CASE BadRequestLine
  <2>1. answers' \in Seq(Answers)
    BY <1>1, <1>6, <1>7 DEF BadRequestLine, Answers
  <2>2. request_' \in [method : {"kInvalid", "set"}, version : RequestLines \cup {"kUnknown"},
                       connection : Headers \cup {""}]
    BY <1>7 DEF BadRequestLine, HttpTypeOK
  <2> QED
    BY <1>7, <2>1, <2>2 DEF BadRequestLine, HttpTypeOK, PcAgrees, Answers
<1>8. CASE RequestLine
  <2>1. buf' \in Seq(Items)
    BY <1>1, <1>2, <1>8 DEF RequestLine
  <2>2. request_' \in [method : {"kInvalid", "set"}, version : RequestLines \cup {"kUnknown"},
                       connection : Headers \cup {""}]
    BY <1>8 DEF RequestLine, HttpTypeOK, RequestLines
  <2> QED
    BY <1>8, <2>1, <2>2 DEF RequestLine, HttpTypeOK, PcAgrees, Items
<1>9. CASE Header
  <2>1. buf' \in Seq(Items)
    BY <1>2, <1>9 DEF Header
  <2>2. request_' \in [method : {"kInvalid", "set"}, version : RequestLines \cup {"kUnknown"},
                       connection : Headers \cup {""}]
    BY <1>9 DEF Header, HttpTypeOK, HasColon
  <2> QED
    BY <1>9, <2>1, <2>2 DEF Header, HttpTypeOK, PcAgrees, Items
<1>10. CASE EndOfHeaders
  <2>1. buf' \in Seq(Items)
    BY <1>2, <1>10 DEF EndOfHeaders
  <2> QED
    BY <1>10, <2>1 DEF EndOfHeaders, HttpTypeOK, PcAgrees, Items
<1>11. CASE OnRequest
  <2>1. answers' \in Seq(Answers)
    <3>1. AnswerTo(request_.version, request_.connection) \in Answers
      BY DEF AnswerTo, Answers
    <3>2. SendAnswer(AnswerTo(request_.version, request_.connection))
      BY <1>11 DEF OnRequest, AnswerTo
    <3> QED
      BY <1>6, <3>1, <3>2
  <2> QED
    BY <1>11, <2>1 DEF OnRequest, HttpTypeOK, PcAgrees, Answers, NewRequest
<1>12. CASE UNCHANGED httpVars
  BY <1>12 DEF httpVars, HttpTypeOK, PcAgrees
<1> QED
  BY <1>3, <1>4, <1>5, <1>7, <1>8, <1>9, <1>10, <1>11, <1>12 DEF HttpNext, Server

(* The client: another item. *)
LEMMA SendMatches ==
  ASSUME HttpTypeOK, NEW f, Parses(f, sent), Growing(f, Len(sent)), Matches(f), Send
  PROVE  \E g : Parses(g, sent') /\ Growing(g, Len(sent')) /\ Matches(g)'
<1>1. /\ buf \in Seq(Items) /\ inflight \in Seq(Items) /\ sent \in Seq(Lines)
      /\ sending \in BOOLEAN /\ answers \in Seq(Answers)
      /\ Pending \in Seq(Items) /\ Len(sent) \in Nat
  BY LenProperties, ConcatProperties DEF HttpTypeOK, Items, Answers, Pending
<1>2. /\ buf' = buf /\ state_' = state_ /\ request_' = request_
      /\ m_state' = m_state /\ pc' = pc /\ answers' = answers
  BY DEF Send, server
<1>3. ASSUME NEW p PROVE InStep(p)' <=> InStep(p)
  BY <1>2 DEF InStep
<1>4. CASE ~sending
  <2>1. inflight' = Append(inflight, "half") /\ sent' = sent
    BY <1>4 DEF Send
  <2>2. sending' = TRUE
    BY <1>1, <1>4, Zenon DEF Send
  <2>3. Pending' = Append(Pending, "half")
    <3>1. "half" \in Items
      BY DEF Items
    <3>2. buf \o Append(inflight, "half") = Append(buf \o inflight, "half")
      BY <1>1, <3>1, AppendToBoth
    <3> QED
      BY <1>2, <2>1, <3>2 DEF Pending
  <2>4. ASSUME NEW k \in 0 .. Len(sent), ParsedTo(f, k) PROVE ParsedTo(f, k)'
    <3>1. Encodes(Pending, sent, k, FALSE)
      BY <1>1, <1>4, <2>4, Zenon DEF ParsedTo
    <3>2. Encodes(Append(Pending, "half"), sent, k, TRUE)
      BY <1>1, <3>1, EncodesHalf
    <3> QED
      BY <1>3, <2>1, <2>2, <2>3, <2>4, <3>2, Zenon DEF ParsedTo
  <2>5. Matches(f)'
    BY <1>2, <2>1, <2>4 DEF Matches
  <2> QED
    BY <2>1, <2>5
<1>5. CASE sending
  <2>1. PICK line \in Lines : inflight' = Append(inflight, line) /\ sent' = Append(sent, line)
    BY <1>5 DEF Send
  <2>2. sending' = FALSE
    BY <1>1, <1>5, Zenon DEF Send
  <2>3. Pending' = Append(Pending, line)
    <3>1. line \in Items
      BY DEF Items
    <3>2. buf \o Append(inflight, line) = Append(buf \o inflight, line)
      BY <1>1, <3>1, AppendToBoth
    <3> QED
      BY <1>2, <2>1, <3>2 DEF Pending
  <2>4. Len(sent') = Len(sent) + 1
    BY <1>1, <2>1, AppendProperties
  <2>5. PICK g : /\ Parses(g, Append(sent, line))
                 /\ Growing(g, Len(sent) + 1)
                 /\ \A i \in 0 .. Len(sent) : g[i] = f[i]
    BY <1>1, ParsesMore
  <2>6. ASSUME NEW k \in 0 .. Len(sent), ParsedTo(f, k) PROVE ParsedTo(g, k)'
    <3>1. Encodes(Pending, sent, k, TRUE)
      BY <1>1, <1>5, <2>6, Zenon DEF ParsedTo
    <3>2. Encodes(Append(Pending, line), Append(sent, line), k, FALSE)
      BY <1>1, <3>1, EncodesLine
    <3>3. InStep(g[k])'
      BY <1>3, <2>5, <2>6, Zenon DEF ParsedTo
    <3> QED
      BY <2>1, <2>2, <2>3, <3>2, <3>3, Zenon DEF ParsedTo
  <2>7. Starts(answers, g[Len(sent) + 1].answers)
    <3> DEFINE n == Len(sent)
    <3>1. n \in 0 .. n + 1 /\ n + 1 \in 0 .. n + 1 /\ n <= n + 1 /\ n \in 0 .. n
      BY <1>1
    <3>2. Starts(g[n].answers, g[n + 1].answers)
      BY <2>5, <3>1 DEF Growing
    <3>3. Starts(answers, g[n].answers)
      BY <2>5, <3>1 DEF Matches
    <3>4. g[n].answers \in Seq(Answers) /\ g[n + 1].answers \in Seq(Answers)
      <4>1. g \in [0 .. n + 1 -> Parsers]
        BY <2>1, <2>4, <2>5 DEF Parses
      <4> QED
        BY <3>1, <4>1 DEF Parsers
    <3> QED
      BY <1>1, <3>2, <3>3, <3>4, StartsOn
  <2>8. \A k \in 0 .. Len(sent) : k \in 0 .. Len(sent) + 1
    BY <1>1
  <2>9. Matches(g)'
    BY <1>2, <2>4, <2>6, <2>7, <2>8 DEF Matches
  <2> QED
    BY <2>1, <2>4, <2>5, <2>9
<1> QED
  BY <1>1, <1>4, <1>5

(* The server: a step that parses what is there, or takes one line more. *)
LEMMA ServerMatches ==
  ASSUME HttpTypeOK, PcAgrees, NEW f, Parses(f, sent), Growing(f, Len(sent)), Matches(f), Server,
         pc # "aborted"
  PROVE  sent' = sent /\ Matches(f)'
<1>1. /\ buf \in Seq(Items) /\ inflight \in Seq(Items) /\ sent \in Seq(Lines)
      /\ sending \in BOOLEAN /\ answers \in Seq(Answers)
      /\ Len(inflight) \in Nat /\ Len(sent) \in Nat
  BY LenProperties DEF HttpTypeOK, Items, Answers
<1>2. sent' = sent /\ sending' = sending
  BY DEF Server, OnMessage, ParseMore, BadRequestLine, RequestLine,
         Header, EndOfHeaders, OnRequest
<1>3. ASSUME NEW k \in 0 .. Len(sent)
      PROVE  f[k] \in Parsers /\ Starts(f[k].answers, f[Len(sent)].answers)
  <2>1. f \in [0 .. Len(sent) -> Parsers] /\ Len(sent) \in 0 .. Len(sent) /\ k <= Len(sent)
    BY <1>1 DEF Parses
  <2> QED
    BY <2>1 DEF Growing
<1>4. ASSUME NEW k \in 0 .. Len(sent), ParsedTo(f, k), FindCRLF > 0
      PROVE  /\ k + 1 \in 0 .. Len(sent)
             /\ buf[FindCRLF] \in Lines
             /\ f[k + 1] = TakeLine(f[k], buf[FindCRLF])
             /\ Encodes(AfterLine \o inflight, sent, k + 1, sending)
  <2>1. /\ k + 1 \in 0 .. Len(sent) /\ buf[FindCRLF] = sent[k + 1]
        /\ Encodes(AfterLine \o inflight, sent, k + 1, sending)
    BY <1>4, NextLine DEF ParsedTo
  <2>2. k + 1 \in 1 .. Len(sent) /\ (k + 1) - 1 = k
    BY <1>1, <2>1
  <2>3. sent[k + 1] \in Lines
    BY <1>1, <2>2, ElementOfSeq
  <2>4. f[k + 1] = TakeLine(f[(k + 1) - 1], sent[k + 1])
    BY <2>2, Zenon DEF Parses
  <2> QED
    BY <2>1, <2>2, <2>3, <2>4
<1>5. CASE OnMessage
  <2>1. PICK n \in 1 .. Len(inflight) :
          /\ buf' = buf \o SubSeq(inflight, 1, n)
          /\ inflight' = SubSeq(inflight, n + 1, Len(inflight))
    BY <1>5 DEF OnMessage
  <2> DEFINE p == SubSeq(inflight, 1, n)
             q == SubSeq(inflight, n + 1, Len(inflight))
  <2>2. n \in 0 .. Len(inflight)
    OBVIOUS
  <2>3. p \in Seq(Items) /\ q \in Seq(Items) /\ p \o q = inflight
    BY <1>1, <2>2, CutInTwo
  <2>4. buf' = buf \o p /\ inflight' = q
    BY <2>1
  <2> HIDE DEF p, q
  <2>5. (buf \o p) \o q = buf \o (p \o q)
    <3>1. buf \in Seq(Items)
      BY <1>1
    <3>2. p \in Seq(Items)
      BY <2>3
    <3>3. q \in Seq(Items)
      BY <2>3
    <3> QED
      BY <3>1, <3>2, <3>3, PutTwice
  <2>6. Pending' = Pending
    BY <2>3, <2>4, <2>5 DEF Pending
  <2>7. ASSUME NEW k PROVE ParsedTo(f, k)' <=> ParsedTo(f, k)
    BY <1>2, <1>5, <2>6 DEF OnMessage, ParsedTo, InStep
  <2> QED
    BY <1>2, <1>5, <2>7 DEF OnMessage, Matches
<1>6. CASE ParseMore
  <2>1. ASSUME NEW k PROVE ParsedTo(f, k)' <=> ParsedTo(f, k)
    BY <1>6 DEF ParseMore, ParsedTo, InStep, Pending
  <2> QED
    BY <1>2, <1>6, <2>1 DEF ParseMore, Matches
<1>7. CASE BadRequestLine
  <2>1. /\ state_ = "kExpectRequestLine" /\ FindCRLF > 0
        /\ buf[FindCRLF] \notin {"HTTP/1.1", "HTTP/1.0"}
    BY <1>7 DEF BadRequestLine
  <2>2. CASE pc' = "aborted" /\ answers' = answers
    BY <1>2, <2>2 DEF Matches
  <2>3. CASE SendAnswer("400") /\ m_state' = "kDisConnecting"
    <3>1. CASE m_state # "kConnected"
      BY <1>2, <2>3, <3>1 DEF Matches, SendAnswer
    <3>2. CASE m_state = "kConnected"
      <4>1. PICK k \in 0 .. Len(sent) : ParsedTo(f, k)
        BY <3>2 DEF Matches
      <4>2. ~f[k].bad /\ f[k].version = "kUnknown" /\ f[k].answers = answers
        BY <2>1, <4>1 DEF ParsedTo, InStep
      <4>3. f[k + 1].answers = Append(f[k].answers, "400")
        BY <1>3, <1>4, <2>1, <4>1, <4>2, TakesBadLine
      <4>4. answers' = f[k + 1].answers
        BY <2>3, <3>2, <4>2, <4>3 DEF SendAnswer
      <4>5. Starts(f[k + 1].answers, f[Len(sent)].answers)
        BY <1>3, <1>4, <2>1, <4>1
      <4> QED
        BY <1>2, <2>3, <4>4, <4>5 DEF Matches
    <3> QED
      BY <3>1, <3>2
  <2> QED
    BY <1>7, <2>2, <2>3 DEF BadRequestLine
<1>8. CASE RequestLine
  <2> DEFINE line == buf[FindCRLF]
  <2>1. /\ state_ = "kExpectRequestLine" /\ FindCRLF > 0 /\ line \in {"HTTP/1.1", "HTTP/1.0"}
        /\ inflight' = inflight /\ m_state' = m_state /\ answers' = answers
    BY <1>8 DEF RequestLine
  <2>2. CASE pc' = "aborted"
    BY <1>2, <2>1, <2>2 DEF Matches
  <2>3. CASE /\ request_' = [request_ EXCEPT !.method = "set", !.version = line]
             /\ buf' = AfterLine /\ state_' = "kExpectHeaders"
    <3>1. ASSUME NEW k \in 0 .. Len(sent), ParsedTo(f, k) PROVE ParsedTo(f, k + 1)'
      <4>1. /\ ~f[k].bad /\ f[k].version = "kUnknown" /\ f[k].connection = request_.connection
            /\ f[k].answers = answers
        <5>1. InStep(f[k]) /\ NewRequest.connection = ""
          BY <3>1 DEF ParsedTo, NewRequest
        <5> QED
          BY <2>1, <5>1, Zenon DEF InStep
      <4>2. /\ ~f[k + 1].bad /\ f[k + 1].version = line
            /\ f[k + 1].connection = f[k].connection /\ f[k + 1].answers = f[k].answers
        BY <1>3, <1>4, <2>1, <3>1, <4>1, TakesRequestLine
      <4>3. request_'.version = line /\ request_'.connection = request_.connection
        BY <2>3 DEF HttpTypeOK
      <4>4. Encodes(Pending, sent, k + 1, sending)'
        BY <1>2, <1>4, <2>1, <2>3, <3>1 DEF Pending
      <4>5. InStep(f[k + 1])'
        BY <2>1, <2>3, <4>1, <4>2, <4>3 DEF InStep
      <4> QED
        BY <4>4, <4>5 DEF ParsedTo
    <3>2. ASSUME NEW k \in 0 .. Len(sent), ParsedTo(f, k) PROVE k + 1 \in 0 .. Len(sent)
      BY <1>4, <2>1, <3>2
    <3> QED
      BY <1>2, <2>1, <3>1, <3>2 DEF Matches
  <2> QED
    BY <1>8, <2>2, <2>3 DEF RequestLine
<1>9. CASE Header
  <2> DEFINE line == buf[FindCRLF]
  <2>1. /\ state_ = "kExpectHeaders" /\ FindCRLF > 0 /\ HasColon(line)
        /\ request_' = [request_ EXCEPT !.connection = line] /\ buf' = AfterLine
        /\ inflight' = inflight /\ m_state' = m_state /\ answers' = answers /\ state_' = state_
        /\ pc' = pc
    BY <1>9 DEF Header
  <2>2. ASSUME NEW k \in 0 .. Len(sent), ParsedTo(f, k) PROVE ParsedTo(f, k + 1)'
    <3>1. /\ ~f[k].bad /\ f[k].version # "kUnknown" /\ f[k].version = request_.version
          /\ f[k].answers = answers
      BY <2>1, <2>2 DEF ParsedTo, InStep
    <3>2. /\ ~f[k + 1].bad /\ f[k + 1].version = f[k].version
          /\ f[k + 1].connection = line /\ f[k + 1].answers = f[k].answers
      BY <1>3, <1>4, <2>1, <2>2, <3>1, TakesHeader
    <3>3. request_'.version = request_.version /\ request_'.connection = line
      BY <2>1 DEF HttpTypeOK
    <3>4. Encodes(Pending, sent, k + 1, sending)'
      BY <1>2, <1>4, <2>1, <2>2 DEF Pending
    <3>5. InStep(f[k + 1])'
      BY <2>1, <3>1, <3>2, <3>3 DEF InStep
    <3> QED
      BY <3>4, <3>5 DEF ParsedTo
  <2>3. ASSUME NEW k \in 0 .. Len(sent), ParsedTo(f, k) PROVE k + 1 \in 0 .. Len(sent)
    BY <1>4, <2>1, <2>3
  <2> QED
    BY <1>2, <2>1, <2>2, <2>3 DEF Matches
<1>10. CASE EndOfHeaders
  <2> DEFINE line == buf[FindCRLF]
  <2>1. /\ state_ = "kExpectHeaders" /\ FindCRLF > 0 /\ ~HasColon(line)
        /\ request_' = request_ /\ buf' = AfterLine
        /\ inflight' = inflight /\ m_state' = m_state /\ answers' = answers /\ state_' = "kGotAll"
    BY <1>10 DEF EndOfHeaders
  <2>2. ASSUME NEW k \in 0 .. Len(sent), ParsedTo(f, k) PROVE ParsedTo(f, k + 1)'
    <3>1. /\ ~f[k].bad /\ f[k].version # "kUnknown" /\ f[k].version = request_.version
          /\ f[k].connection = request_.connection /\ f[k].answers = answers
      BY <2>1, <2>2 DEF ParsedTo, InStep
    <3>2. /\ ~f[k + 1].bad /\ f[k + 1].version = "kUnknown" /\ f[k + 1].connection = ""
          /\ f[k + 1].answers = Append(f[k].answers, AnswerTo(f[k].version, f[k].connection))
      <4> DEFINE p == f[k]
                 q == f[k + 1]
      <4>1. p \in Parsers /\ q = TakeLine(p, line)
        BY <1>3, <1>4, <2>1, <2>2
      <4>2. ~p.bad /\ p.version # "kUnknown" /\ ~HasColon(line)
        BY <2>1, <3>1, Zenon
      <4> HIDE DEF p, q, line
      <4>3. /\ ~q.bad /\ q.version = "kUnknown" /\ q.connection = ""
            /\ q.answers = Append(p.answers, AnswerTo(p.version, p.connection))
        BY <4>1, <4>2, TakesEnd
      <4> QED
        BY <4>3, Zenon DEF p, q
    <3>3. Encodes(Pending, sent, k + 1, sending)'
      BY <1>2, <1>4, <2>1, <2>2 DEF Pending
    <3>4. InStep(f[k + 1])'
      BY <2>1, <3>1, <3>2 DEF InStep
    <3> QED
      BY <3>3, <3>4 DEF ParsedTo
  <2>3. ASSUME NEW k \in 0 .. Len(sent), ParsedTo(f, k) PROVE k + 1 \in 0 .. Len(sent)
    BY <1>4, <2>1, <2>3
  <2> QED
    BY <1>2, <2>1, <2>2, <2>3 DEF Matches
<1>11. CASE OnRequest
  <2> DEFINE a == AnswerTo(request_.version, request_.connection)
  <2>1. /\ pc = "gotAll" /\ SendAnswer(a) /\ m_state' \in {m_state, "kDisConnecting"}
        /\ state_' = "kExpectRequestLine" /\ request_' = NewRequest
        /\ inflight' = inflight /\ buf' = buf
    BY <1>11 DEF OnRequest, AnswerTo
  <2>2. state_ = "kGotAll"
    BY <2>1 DEF PcAgrees
  <2> HIDE DEF a
  <2>3. CASE m_state # "kConnected"
    <3>1. answers' = answers /\ m_state' # "kConnected"
      BY <2>1, <2>3 DEF SendAnswer
    <3> QED
      BY <1>2, <3>1 DEF Matches
  <2>4. CASE m_state = "kConnected"
    <3>1. answers' = Append(answers, a)
      BY <2>1, <2>4 DEF SendAnswer
    <3>2. PICK k \in 0 .. Len(sent) : ParsedTo(f, k)
      BY <2>4 DEF Matches
    <3>3. ~f[k].bad /\ f[k].version = "kUnknown" /\ f[k].connection = "" /\ f[k].answers = answers'
      BY <2>2, <3>1, <3>2 DEF ParsedTo, InStep, a
    <3>4. ParsedTo(f, k)'
      <4>1. InStep(f[k])'
        BY <2>1, <3>3 DEF InStep
      <4>2. Encodes(Pending, sent, k, sending)'
        BY <1>2, <2>1, <3>2 DEF ParsedTo, Pending
      <4> QED
        BY <4>1, <4>2 DEF ParsedTo
    <3>5. Starts(answers', f[Len(sent)].answers)
      BY <1>3, <3>3
    <3> QED
      BY <1>2, <3>4, <3>5 DEF Matches
  <2> QED
    BY <2>3, <2>4
<1> QED
  BY <1>2, <1>5, <1>6, <1>7, <1>8, <1>9, <1>10, <1>11 DEF Server

(* The invariant is inductive. *)
LEMMA HttpStepInv == HttpInv /\ [HttpNext]_httpVars => HttpInv'
<1> SUFFICES ASSUME HttpInv, [HttpNext]_httpVars PROVE HttpInv'
  OBVIOUS
<1>1. HttpTypeOK /\ PcAgrees /\ HttpTypeOK' /\ PcAgrees'
  BY HttpTypeStep DEF HttpInv
<1>2. PICK f : Parses(f, sent) /\ Growing(f, Len(sent)) /\ Matches(f)
  BY DEF HttpInv
<1>3. CASE Send
  BY <1>1, <1>2, <1>3, SendMatches DEF HttpInv
<1>4. CASE pc # "aborted" /\ Server
  <2>1. sent' = sent /\ Matches(f)'
    BY <1>1, <1>2, <1>4, ServerMatches
  <2> QED
    BY <1>1, <1>2, <2>1 DEF HttpInv
<1>5. CASE UNCHANGED httpVars
  <2>1. sent' = sent /\ Matches(f)'
    BY <1>2, <1>5 DEF httpVars, Matches, ParsedTo, InStep, Pending
  <2> QED
    BY <1>1, <1>2, <2>1 DEF HttpInv
<1> QED
  BY <1>3, <1>4, <1>5 DEF HttpNext

(* However TCP cuts the client's bytes into the messages that onMessage    *)
(* sees, the responses sent are, in order, those of a parser that is given *)
(* whole lines; and parseRequest is asked for more only in a state it has  *)
(* a branch for.                                                           *)
THEOREM AnsweredAsParsed == HttpSafety => []AnswersMatch
<1>1. HttpInv => AnswersMatch
  <2> SUFFICES ASSUME HttpInv PROVE AnswersMatch
    OBVIOUS
  <2>1. PICK f : Parses(f, sent) /\ Matches(f)
    BY DEF HttpInv
  <2>2. Len(sent) \in Nat /\ answers \in Seq(Answers) /\ Len(answers) \in Nat
    BY LenProperties DEF HttpInv, HttpTypeOK, Answers
  <2>3. Expected(sent) = f[Len(sent)].answers
    BY <2>1, <2>2, ExpectedIs
  <2>4. Starts(answers, Expected(sent))
    BY <2>1, <2>3 DEF Matches
  <2>5. Expected(sent) \in Seq(Answers)
    <3>1. f[Len(sent)] \in Parsers
      BY <2>1, <2>2 DEF Parses
    <3> QED
      BY <2>3, <3>1 DEF Parsers
  <2>6. IsPrefix(answers, Expected(sent))
    BY <2>2, <2>4, <2>5 DEF Starts, IsPrefix
  <2> QED
    BY <2>6 DEF AnswersMatch, HttpInv
<1> QED
  BY <1>1, HttpInitInv, HttpStepInv, PTL DEF HttpSafety

=============================================================================
