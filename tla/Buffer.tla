-------------------------------- MODULE Buffer --------------------------------
(***************************************************************************)
(* The byte buffer of a connection: src/common/Buffer.h and Buffer.cpp.    *)
(* One vector whose readable bytes are those between two indices; room is  *)
(* made by moving them to the front, or by growing the vector.  A buffer   *)
(* belongs to one loop's thread, and every operation is a step.            *)
(*                                                                         *)
(* Operators on a buffer take and return the whole object, so that readFd  *)
(* and append can be put together as in the code.  Index i of the code's   *)
(* vector is index i + 1 of the sequence m_buffer.                         *)
(***************************************************************************)
EXTENDS Naturals, Sequences

CONSTANTS
  Byte,              \* values of a char; 0 is what resize() fills with
  kCheapPrepend,
  initialSize,
  kExtraBufferSize,  \* of readFd's buffer on the stack
  MaxContent         \* bound: readable bytes

ASSUME SizesAssumption ==
  /\ 0 \in Byte
  /\ kCheapPrepend \in Nat
  /\ initialSize \in Nat
  /\ kExtraBufferSize \in Nat
  /\ MaxContent \in Nat

VARIABLES
  buffer,   \* m_buffer, m_readerIndex, m_writerIndex
  peak      \* history: the most bytes that were readable at once

vars == <<buffer, peak>>

NewBuffer == [m_buffer |-> [i \in 1 .. kCheapPrepend + initialSize |-> 0],
              m_readerIndex |-> kCheapPrepend,
              m_writerIndex |-> kCheapPrepend]

ReadableBytes(b) == b.m_writerIndex - b.m_readerIndex

WritableBytes(b) == Len(b.m_buffer) - b.m_writerIndex

PrependableBytes(b) == b.m_readerIndex

(* The bytes from peek() to beginWrite(). *)
Readable(b) == [i \in 1 .. ReadableBytes(b) |-> b.m_buffer[b.m_readerIndex + i]]

(* Mutant: the bytes that are kept for prepending are counted as room. *)
GrowsUnprepended(b, len) == WritableBytes(b) + PrependableBytes(b) < len

(* Mutant: the room in front of the content is not counted. *)
GrowsWhenFull(b, len) == WritableBytes(b) < len

(* makeSpace grows the vector when moving the content gives too little. *)
Grows(b, len) == WritableBytes(b) + PrependableBytes(b) < len + kCheapPrepend

Resize(m, n) == [i \in 1 .. n |-> IF i <= Len(m) THEN m[i] ELSE 0]

(* Mutant: the indices move, and the content does not. *)
MoveToFrontUncopied(b) ==
  [b EXCEPT !.m_readerIndex = kCheapPrepend, !.m_writerIndex = kCheapPrepend + ReadableBytes(b)]

(* The content is copied to the front, the rest stays. *)
MoveToFront(b) ==
  LET readable == ReadableBytes(b) IN
    [m_buffer |-> [i \in 1 .. Len(b.m_buffer) |->
                     IF kCheapPrepend < i /\ i <= kCheapPrepend + readable
                       THEN b.m_buffer[b.m_readerIndex + (i - kCheapPrepend)]
                       ELSE b.m_buffer[i]],
     m_readerIndex |-> kCheapPrepend,
     m_writerIndex |-> kCheapPrepend + readable]

(* len is an int here and a size_t in append: the lengths of the model are *)
(* those that an int holds, which all but an append of 2 GiB or more are.  *)
MakeSpace(b, len) ==
  IF Grows(b, len) THEN [b EXCEPT !.m_buffer = Resize(@, b.m_writerIndex + len)]
  ELSE MoveToFront(b)

(* Makes room for len bytes, the first half of append. *)
EnsureWritable(b, len) == IF WritableBytes(b) < len THEN MakeSpace(b, len) ELSE b

(* Copies data to beginWrite(), and hasWritten. *)
Written(b, data) ==
  LET w == b.m_writerIndex IN
    [m_buffer |-> [i \in 1 .. Len(b.m_buffer) |->
                     IF w < i /\ i <= w + Len(data) THEN data[i - w] ELSE b.m_buffer[i]],
     m_readerIndex |-> b.m_readerIndex,
     m_writerIndex |-> w + Len(data)]

Appended(b, data) == Written(EnsureWritable(b, Len(data)), data)

(* readFd: readv fills what is writable and then extrabuf, whose bytes     *)
(* are appended.                                                           *)
ReadIn(b, data) ==
  LET writable == WritableBytes(b) IN
    IF Len(data) <= writable THEN Written(b, data)
    ELSE Appended(Written(b, SubSeq(data, 1, writable)), SubSeq(data, writable + 1, Len(data)))

(* The most readv can return: extrabuf is used only when less is writable. *)
ReadLimit(b) ==
  IF WritableBytes(b) < kExtraBufferSize THEN WritableBytes(b) + kExtraBufferSize
  ELSE WritableBytes(b)

(* Mutant: the indices go back to the start of the vector. *)
RetrievedAllToZero(b) == [b EXCEPT !.m_readerIndex = 0, !.m_writerIndex = 0]

RetrievedAll(b) == [b EXCEPT !.m_readerIndex = kCheapPrepend, !.m_writerIndex = kCheapPrepend]

Retrieved(b, len) ==
  IF len < ReadableBytes(b) THEN [b EXCEPT !.m_readerIndex = @ + len] ELSE RetrievedAll(b)

----------------------------------------------------------------------------
Strings(n) == UNION {[1 .. k -> Byte] : k \in 0 .. n}

Become(b) ==
  /\ buffer' = b
  /\ peak' = IF ReadableBytes(b) > peak THEN ReadableBytes(b) ELSE peak

Init ==
  /\ buffer = NewBuffer
  /\ peak = 0

AppendData(data) ==
  /\ ReadableBytes(buffer) + Len(data) <= MaxContent
  /\ Become(Appended(buffer, data))

(* The caller fills memory from beginWrite() and calls hasWritten. *)
HasWritten(data) ==
  /\ Len(data) <= WritableBytes(buffer)
  /\ ReadableBytes(buffer) + Len(data) <= MaxContent
  /\ Become(Written(buffer, data))

(* readFd returns Len(data); an error leaves the buffer as it is. *)
ReadFd(data) ==
  /\ Len(data) <= ReadLimit(buffer)
  /\ ReadableBytes(buffer) + Len(data) <= MaxContent
  /\ Become(ReadIn(buffer, data))

(* retrieve, retrieveUntil, retrieveAsString. *)
Retrieve(len) == Become(Retrieved(buffer, len))

RetrieveAll == Become(RetrievedAll(buffer))

Unwrite(len) == Become([buffer EXCEPT !.m_writerIndex = @ - len])

(* Callers ask for no more than is readable, as the asserts require. *)
Next ==
  \/ \E data \in Strings(MaxContent) : AppendData(data) \/ HasWritten(data) \/ ReadFd(data)
  \/ \E len \in 0 .. ReadableBytes(buffer) : Retrieve(len) \/ Unwrite(len)
  \/ RetrieveAll

Spec == Init /\ [][Next]_vars

----------------------------------------------------------------------------
(* The picture at the head of Buffer.h: 0 <= readerIndex <= writerIndex <= *)
(* size.  The reader never enters the bytes kept for prepending.           *)
TypeOK ==
  /\ buffer \in [m_buffer : Seq(Byte), m_readerIndex : Nat, m_writerIndex : Nat]
  /\ kCheapPrepend <= buffer.m_readerIndex
  /\ buffer.m_readerIndex <= buffer.m_writerIndex
  /\ buffer.m_writerIndex <= Len(buffer.m_buffer)
  /\ peak \in Nat
  /\ ReadableBytes(buffer) <= peak

(* In whatever state an append finds the buffer, the asserts in makeSpace  *)
(* and append hold: content is moved only to the left and all of it is     *)
(* kept, and there is then room for what is appended.                      *)
AppendAsserts ==
  \A len \in 0 .. MaxContent :
    LET b == EnsureWritable(buffer, len) IN
      /\ (WritableBytes(buffer) < len /\ ~Grows(buffer, len))
           => kCheapPrepend < buffer.m_readerIndex
      /\ ReadableBytes(b) = ReadableBytes(buffer)
      /\ len <= WritableBytes(b)

(* A long connection does not make its buffer grow without end: the        *)
(* vector is at most twice as long as the content ever was.                *)
SpaceBounded ==
  \/ Len(buffer.m_buffer) = kCheapPrepend + initialSize
  \/ Len(buffer.m_buffer) < 2 * peak + kCheapPrepend

(* Whatever has been moved, grown or read in two parts, the readable bytes *)
(* are a queue.                                                            *)
Queue == INSTANCE ByteQueue WITH content <- Readable(buffer), Data <- Strings(MaxContent)

ImplementsByteQueue == Queue!BQSpec

=============================================================================
