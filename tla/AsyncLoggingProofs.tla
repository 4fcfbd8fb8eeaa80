-------------------------- MODULE AsyncLoggingProofs --------------------------
(***************************************************************************)
(* Theorems about the log, for buffers and records of any sizes and any    *)
(* number of appending threads:                                            *)
(*   - LogTypeCorrect and BufferAssertsHold, from IInv: append() always    *)
(*     has a buffer, and the asserts of AsyncLogging::threadRoutine on its *)
(*     buffers never fail;                                                 *)
(*   - RecordsKept, from LogInv: no record is lost, written twice or       *)
(*     overtaken.                                                          *)
(***************************************************************************)
EXTENDS AsyncLogging, SequenceTheorems, WellFoundedInduction, TLAPS

IInv == TypeOK /\ PoolInv

USE DEF front, back, disk

(* A new buffer is a buffer. *)
LEMMA NewBufferType == NewBuffer \in Buffers
BY DEF NewBuffer, Buffers

(* Appending a record to a buffer gives a buffer. *)
LEMMA BufferAppendType ==
  ASSUME NEW b \in Buffers, NEW r \in Records
  PROVE  BufferAppend(b, r) \in Buffers
<1>1. b.used + r.size \in Nat
  BY DEF Buffers, Records
<1>2. Append(b.data, r) \in Seq(Records)
  BY AppendProperties DEF Buffers
<1> QED
  BY <1>1, <1>2 DEF BufferAppend, Buffers

(* What the writer keeps of the buffers it has written. *)
LEMMA KeptLen ==
  ASSUME buffersToWrite \in Seq(Buffers)
  PROVE  Len(Kept) = IF Len(buffersToWrite) > 2 THEN 2 ELSE Len(buffersToWrite)
<1>1. CASE Len(buffersToWrite) > 2
  <2>1. \A i \in 1 .. 2 : buffersToWrite[i] \in Buffers
    BY <1>1, ElementOfSeq
  <2>2. Len(SubSeq(buffersToWrite, 1, 2)) = 2
    BY <2>1, SubSeqProperties
  <2> QED
    BY <1>1, <2>2 DEF Kept
<1>2. CASE ~(Len(buffersToWrite) > 2)
  BY <1>2 DEF Kept
<1> QED
  BY <1>1, <1>2

(* At most two buffers are missing. *)
LEMMA NeededRange == Needed \in 0 .. 2
BY DEF Needed

(* The writer has enough buffers left to replace the missing ones. *)
LEMMA EnoughKept ==
  ASSUME IInv, pc = "write"
  PROVE  Needed <= Len(Kept)
<1>1. Len(buffersToWrite) \in Nat /\ Len(buffersToWrite) >= Needed
  BY LenProperties DEF IInv, TypeOK, PoolInv
<1>2. Len(Kept) = IF Len(buffersToWrite) > 2 THEN 2 ELSE Len(buffersToWrite)
  BY KeptLen DEF IInv, TypeOK
<1> QED
  BY <1>1, <1>2, NeededRange

(* The inductive invariant holds initially. *)
LEMMA InitInv == Init => IInv
<1> SUFFICES ASSUME Init PROVE IInv
  OBVIOUS
<1>1. m_isRunning \in BOOLEAN /\ torn \in BOOLEAN
  BY Zenon DEF Init
<1>2. NewBuffer # NULL
  BY NewBufferType, NullAssumption
<1>3. TypeOK
  BY <1>1, NewBufferType DEF Init, TypeOK, PCs
<1>4. PoolInv
  BY <1>2 DEF Init, PoolInv
<1> QED
  BY <1>3, <1>4 DEF IInv

(* append() preserves the invariant: it takes the spare buffer only when   *)
(* it pushes a full one.                                                   *)
LEMMA AppendInv ==
  ASSUME IInv, NEW n \in Sizes, AppendRecord(n)
  PROVE  IInv'
<1> DEFINE r == [id |-> Len(appended) + 1, size |-> n]
<1>1. r \in Records
  BY SizesAssumption, LenProperties DEF Records, IInv, TypeOK
<1>2. appended' = Append(appended, r) /\ appended' \in Seq(Records)
  BY <1>1, AppendProperties DEF AppendRecord, IInv, TypeOK
<1>3. CASE Fits(m_currentBuffer, r)
  <2>1. m_currentBuffer' \in Buffers
    BY <1>1, <1>3, BufferAppendType DEF AppendRecord, IInv, TypeOK
  <2>2. UNCHANGED <<m_buffers, m_nextBuffer>>
    BY <1>3 DEF AppendRecord
  <2>3. TypeOK'
    BY <1>2, <2>1, <2>2 DEF AppendRecord, IInv, TypeOK
  <2>4. PoolInv'
    BY <2>2 DEF AppendRecord, IInv, PoolInv, Needed
  <2> QED
    BY <2>3, <2>4 DEF IInv
<1>4. CASE ~Fits(m_currentBuffer, r)
  <2>1. m_currentBuffer' \in Buffers
    BY <1>1, <1>4, BufferAppendType, NewBufferType DEF AppendRecord, IInv, TypeOK
  <2>2. m_buffers' \in Seq(Buffers) /\ m_buffers' # <<>>
    <3>1. m_buffers' = Append(m_buffers, m_currentBuffer)
      BY <1>4 DEF AppendRecord
    <3> QED
      BY <3>1, AppendProperties DEF IInv, TypeOK
  <2>3. m_nextBuffer' = NULL
    BY <1>4 DEF AppendRecord
  <2> QED
    BY <1>2, <2>1, <2>2, <2>3 DEF AppendRecord, IInv, TypeOK, PoolInv, Needed
<1> QED
  BY <1>3, <1>4

(* The swap preserves the invariant: the second spare buffer is given away *)
(* only when at least two buffers are to be written.                       *)
LEMMA SwapInv ==
  ASSUME IInv, Swap
  PROVE  IInv'
<1>1. /\ buffersToWrite' = Append(m_buffers, m_currentBuffer)
      /\ m_buffers \in Seq(Buffers)
      /\ m_currentBuffer \in Buffers
  BY DEF IInv, TypeOK, Swap
<1>2. /\ buffersToWrite' \in Seq(Buffers)
      /\ Len(buffersToWrite') = Len(m_buffers) + 1
      /\ Len(m_buffers) \in Nat
  BY <1>1, AppendProperties, LenProperties
<1>3. buffersToWrite' # <<>>
  <2>1. Len(buffersToWrite') # 0
    BY <1>2
  <2> QED
    BY <1>2, <2>1, EmptySeq
<1>4. backupBuffer1 \in Buffers /\ backupBuffer2 \in Buffers /\ buffersToWrite = <<>>
  BY NullAssumption DEF IInv, TypeOK, PoolInv, Swap
<1>5. m_buffers' = <<>> /\ m_currentBuffer' \in Buffers /\ backupBuffer1' = NULL
  BY <1>4 DEF Swap
<1>6. CASE m_nextBuffer = NULL
  <2>1. m_buffers # <<>>
    BY <1>6 DEF IInv, PoolInv, Swap
  <2>2. Len(m_buffers) >= 1
    BY <1>1, <1>2, <2>1, EmptySeq
  <2>3. m_nextBuffer' \in Buffers /\ backupBuffer2' = NULL
    BY <1>4, <1>6 DEF Swap
  <2>4. Needed' = 2
    BY <1>5, <2>3 DEF Needed
  <2>5. Len(buffersToWrite') >= Needed'
    BY <1>2, <2>2, <2>4
  <2>6. m_nextBuffer' # NULL
    BY <2>3, NullAssumption
  <2>7. TypeOK'
    BY <1>2, <1>5, <2>3 DEF IInv, TypeOK, Swap, PCs
  <2>8. PoolInv'
    BY <1>3, <2>5, <2>6 DEF IInv, PoolInv, Swap
  <2> QED
    BY <2>7, <2>8 DEF IInv
<1>7. CASE m_nextBuffer # NULL
  <2>1. m_nextBuffer' = m_nextBuffer /\ backupBuffer2' = backupBuffer2
    BY <1>7 DEF Swap
  <2>2. backupBuffer2' # NULL
    BY <1>4, <2>1, NullAssumption
  <2>3. Needed' = 1
    BY <1>5, <2>2 DEF Needed
  <2>4. Len(buffersToWrite') >= Needed'
    BY <1>2, <2>3
  <2>5. TypeOK'
    BY <1>2, <1>4, <1>5, <2>1 DEF IInv, TypeOK, Swap, PCs
  <2>6. PoolInv'
    BY <1>3, <1>7, <2>1, <2>4 DEF IInv, PoolInv, Swap
  <2> QED
    BY <2>5, <2>6 DEF IInv
<1> QED
  BY <1>6, <1>7

(* A buffer is written, whatever becomes of the file. *)
Writes(b) ==
  /\ pc = "write" /\ pc' \in {"write", "aborted"}
  /\ next <= Len(buffersToWrite) /\ next' = next + 1
  /\ output' = output \o b.data
  /\ FileAppend(b) \/ RollFile
  /\ UNCHANGED <<m_isRunning, front, backupBuffer1, backupBuffer2, buffersToWrite, stopper, appended>>

LEMMA BufferWritten ==
  ASSUME WriteBuffer \/ RollFails
  PROVE  Writes(buffersToWrite[next])
<1>1. CASE WriteBuffer
  BY <1>1 DEF WriteBuffer, Writes
<1>2. CASE RollFails
  BY <1>2 DEF RollFails, Writes
<1> QED
  BY <1>1, <1>2

(* Some of the records are in the file, or all if it is not torn; or none. *)
LEMMA FileWritten ==
  ASSUME NEW b \in Buffers, file \in Seq(Records), torn \in BOOLEAN, m_writtenBytes \in Nat,
         FileAppend(b) \/ RollFile
  PROVE  /\ file' \in Seq(Records) /\ torn' \in BOOLEAN /\ m_writtenBytes' \in Nat
         /\ ~torn' => file' = <<>> \/ (~torn /\ file' = file \o b.data)
<1>1. b.data \in Seq(Records) /\ b.used \in Nat /\ Len(b.data) \in Nat
  BY LenProperties DEF Buffers
<1>2. CASE FileAppend(b)
  <2>1. PICK k \in 0 .. Len(b.data) :
          file' = file \o SubSeq(b.data, 1, k) /\ torn' = (torn \/ k < Len(b.data))
    BY <1>2 DEF FileAppend
  <2>2. SubSeq(b.data, 1, k) \in Seq(Records)
    <3>1. \A i \in 1 .. k : b.data[i] \in Records
      BY <1>1, ElementOfSeq
    <3> QED
      BY <1>1, <3>1, SubSeqProperties
  <2>3. file' \in Seq(Records)
    BY <2>1, <2>2, ConcatProperties
  <2>4. torn' \in BOOLEAN /\ (~torn' => ~torn /\ ~(k < Len(b.data)))
    BY <2>1, Zenon
  <2>5. m_writtenBytes' \in Nat
    BY <1>1, <1>2 DEF FileAppend
  <2>6. ~(k < Len(b.data)) => SubSeq(b.data, 1, k) = b.data
    <3>1. ~(k < Len(b.data)) => k = Len(b.data)
      BY <1>1
    <3> QED
      BY <1>1, <3>1, SubSeqFull
  <2>7. ~torn' => file' = <<>> \/ (~torn /\ file' = file \o b.data)
    BY <2>1, <2>4, <2>6, Zenon
  <2> QED
    BY <2>3, <2>4, <2>5, <2>7, Zenon
<1>3. CASE RollFile
  <2>1. torn' = FALSE /\ torn' \in BOOLEAN
    BY <1>3, Zenon DEF RollFile
  <2>2. file' = <<>> /\ m_writtenBytes' = 0
    BY <1>3 DEF RollFile
  <2> QED
    BY <2>1, <2>2, EmptySeq
<1> QED
  BY <1>2, <1>3

(* Writing a buffer changes the file only. *)
LEMMA WriteInv ==
  ASSUME IInv, WriteBuffer \/ RollFails
  PROVE  IInv'
<1> DEFINE b == buffersToWrite[next]
<1>0. Writes(b)
  BY BufferWritten
<1>1. next \in 1 .. Len(buffersToWrite)
  BY <1>0, LenProperties DEF Writes, IInv, TypeOK
<1>2. b \in Buffers /\ b.data \in Seq(Records)
  <2>1. buffersToWrite[next] \in Buffers
    BY <1>1, ElementOfSeq DEF IInv, TypeOK
  <2> QED
    BY <2>1 DEF Buffers
<1> HIDE DEF b
<1>3. output' \in Seq(Records)
  <2>1. output' = output \o b.data
    BY <1>0 DEF Writes
  <2> QED
    BY <1>2, <2>1, ConcatProperties DEF IInv, TypeOK
<1>4. file' \in Seq(Records) /\ torn' \in BOOLEAN /\ m_writtenBytes' \in Nat
  <2>1. file \in Seq(Records) /\ torn \in BOOLEAN /\ m_writtenBytes \in Nat
    BY DEF IInv, TypeOK
  <2>2. FileAppend(b) \/ RollFile
    BY <1>0 DEF Writes
  <2> QED
    BY <1>2, <2>1, <2>2, FileWritten
<1>5. TypeOK'
  BY <1>0, <1>3, <1>4 DEF Writes, IInv, TypeOK, PCs
<1>6. PoolInv'
  BY <1>0 DEF Writes, IInv, PoolInv, Needed
<1> QED
  BY <1>5, <1>6 DEF IInv

(* After recycling the writer has both its spare buffers again. *)
LEMMA RecycleInv ==
  ASSUME IInv, Recycle
  PROVE  IInv'
<1>1. Needed <= Len(Kept)
  BY EnoughKept DEF Recycle
<1>2. backupBuffer1' \in Buffers /\ backupBuffer2' \in Buffers /\ buffersToWrite' = <<>>
      /\ pc' = "while"
  BY <1>1, NewBufferType DEF Recycle, IInv, TypeOK
<1>3. backupBuffer1' # NULL /\ backupBuffer2' # NULL
  BY <1>2, NullAssumption
<1>4. TypeOK'
  BY <1>2 DEF Recycle, IInv, TypeOK, PCs
<1>5. PoolInv'
  BY <1>2, <1>3 DEF Recycle, IInv, PoolInv
<1> QED
  BY <1>4, <1>5 DEF IInv

(* Every step preserves the invariant. *)
LEMMA NextInv ==
  ASSUME IInv, [Next]_vars
  PROVE  IInv'
<1> USE DEF IInv, TypeOK, PoolInv, PCs, Needed
<1>1. CASE \E n \in Sizes : AppendRecord(n)
  BY <1>1, AppendInv
<1>2. CASE Start
  <2>1. m_isRunning' \in BOOLEAN
    BY <1>2, Zenon DEF Start
  <2> QED
    BY <1>2, <2>1 DEF Start
<1>3. CASE Stop
  BY <1>3 DEF Stop
<1>4. CASE Join
  BY <1>4 DEF Join
<1>5. CASE Begin
  BY <1>5, NewBufferType, NullAssumption DEF Begin
<1>6. CASE While
  BY <1>6 DEF While
<1>7. CASE Wait
  BY <1>7 DEF Wait
<1>8. CASE Swap
  BY <1>8, SwapInv
<1>9. CASE WriteBuffer \/ RollFails
  BY <1>9, WriteInv
<1>10. CASE Recycle
  BY <1>10, RecycleInv
<1>11. CASE UNCHANGED vars
  BY <1>11 DEF vars
<1> QED
  BY <1>1, <1>2, <1>3, <1>4, <1>5, <1>6, <1>7, <1>8, <1>9, <1>10, <1>11 DEF Next, Writer

(* The types are right in every state; in particular append() never finds  *)
(* m_currentBuffer NULL.                                                   *)
THEOREM LogTypeCorrect == Safety => []TypeOK
<1>1. Init => IInv
  BY InitInv
<1>2. IInv /\ [Next]_vars => IInv'
  BY NextInv
<1>3. IInv => TypeOK
  BY DEF IInv
<1> QED
  BY <1>1, <1>2, <1>3, PTL DEF Safety

(* No assert of threadRoutine on its buffers, and no ASSERT of ptr_vector, *)
(* fails: BufferAsserts holds in every state.                              *)
THEOREM BufferAssertsHold == Safety => []BufferAsserts
<1>1. Init => IInv
  BY InitInv
<1>2. IInv /\ [Next]_vars => IInv'
  BY NextInv
<1>3. IInv => BufferAsserts
  <2> SUFFICES ASSUME IInv PROVE BufferAsserts
    OBVIOUS
  <2>1. pc = "write" => Needed <= Len(Kept)
    BY EnoughKept
  <2> QED
    BY <2>1 DEF IInv, PoolInv, BufferAsserts
<1> QED
  BY <1>1, <1>2, <1>3, PTL DEF Safety


----------------------------------------------------------------------------
(* FlattenSeq, a recursive function: what it gives for a longer sequence.  *)
(* Induction is by a least counterexample.                                 *)

LEMMA LeastOf ==
  ASSUME NEW T, T \subseteq Nat, T # {}
  PROVE  \E m \in T : \A k \in T : m <= k
<1> DEFINE R == {ss \in Nat \X Nat : ss[1] < ss[2]}
<1>1. IsWellFoundedOn(R, Nat)
  BY NatLessThanWellFounded DEF OpToRel
<1>2. PICK x \in T : \A y \in T : ~(<<y, x>> \in R)
  BY <1>1, WFMin
<1>3. \A y \in T : ~(y < x)
  BY <1>2
<1> QED
  BY <1>3

Associates(s, t, u) == (s \o t) \o u = s \o (t \o u)

LEMMA JoinAssociates ==
  ASSUME NEW S, NEW s \in Seq(S), NEW t \in Seq(S), NEW u \in Seq(S)
  PROVE  Associates(s, t, u)
  BY ConcatAssociative DEF Associates

(* f[i] is the first i sequences of ss, joined, up to i = n. *)
Joins(S, ss, f, n) ==
  /\ f \in [0 .. n -> Seq(S)]
  /\ f[0] = <<>>
  /\ \A i \in 1 .. n : f[i] = f[i - 1] \o ss[i]

LEMMA JoinsOneMore ==
  ASSUME NEW S, NEW ss \in Seq(Seq(S)), NEW n \in Nat, n < Len(ss), NEW f, Joins(S, ss, f, n)
  PROVE  \E g : Joins(S, ss, g, n + 1)
<1> DEFINE g == [i \in 0 .. n + 1 |-> IF i = n + 1 THEN f[n] \o ss[n + 1] ELSE f[i]]
<1>1. n + 1 \in 1 .. Len(ss)
  BY LenProperties
<1>2. ss[n + 1] \in Seq(S) /\ f[n] \in Seq(S)
  BY <1>1, ElementOfSeq DEF Joins
<1>3. f[n] \o ss[n + 1] \in Seq(S)
  BY <1>2, ConcatProperties
<1>4. g \in [0 .. n + 1 -> Seq(S)]
  BY <1>3 DEF Joins
<1>5. g[0] = <<>>
  BY DEF Joins
<1>6. \A i \in 1 .. n + 1 : g[i] = g[i - 1] \o ss[i]
  <2> TAKE i \in 1 .. n + 1
  <2>1. CASE i = n + 1
    <3>1. i - 1 = n /\ n \in 0 .. n + 1 /\ n # n + 1 /\ n + 1 \in 0 .. n + 1
      BY <2>1
    <3>2. g[n + 1] = f[n] \o ss[n + 1] /\ g[n] = f[n]
      BY <3>1
    <3> QED
      BY <2>1, <3>1, <3>2, Zenon
  <2>2. CASE i # n + 1
    <3>1. i \in 1 .. n /\ i - 1 \in 0 .. n
      BY <2>2
    <3>2. g[i] = f[i] /\ g[i - 1] = f[i - 1]
      BY <2>2, <3>1
    <3> QED
      BY <3>1, <3>2 DEF Joins
  <2> QED
    BY <2>1, <2>2
<1> QED
  BY <1>4, <1>5, <1>6 DEF Joins

LEMMA JoinsExist ==
  ASSUME NEW S, NEW ss \in Seq(Seq(S))
  PROVE  \E f : Joins(S, ss, f, Len(ss))
<1> DEFINE T == {n \in 0 .. Len(ss) : ~ \E f : Joins(S, ss, f, n)}
<1>0. Len(ss) \in Nat
  BY LenProperties
<1>1. 0 \notin T
  <2>1. Joins(S, ss, [i \in 0 .. 0 |-> <<>>], 0)
    BY EmptySeq DEF Joins
  <2> QED
    BY <2>1
<1>2. T = {}
  <2>1. SUFFICES ASSUME T # {} PROVE FALSE
    OBVIOUS
  <2>2. T \subseteq Nat
    BY <1>0
  <2>3. PICK m \in T : \A k \in T : m <= k
    BY <2>1, <2>2, LeastOf
  <2>4. m - 1 \in Nat /\ m - 1 < Len(ss) /\ m - 1 \in 0 .. Len(ss) /\ ~(m <= m - 1) /\ (m - 1) + 1 = m
    BY <1>0, <1>1
  <2>5. PICK f : Joins(S, ss, f, m - 1)
    BY <2>3, <2>4
  <2>6. \E g : Joins(S, ss, g, (m - 1) + 1)
    BY <2>4, <2>5, JoinsOneMore
  <2> QED
    BY <2>4, <2>6
<1>3. Len(ss) \in 0 .. Len(ss)
  BY <1>0
<1> QED
  BY <1>2, <1>3

LEMMA FlattenJoins ==
  ASSUME NEW S, NEW ss \in Seq(Seq(S)), NEW f, Joins(S, ss, f, Len(ss))
  PROVE  FlattenSeq(ss) = f[Len(ss)]
<1>0. Len(ss) \in Nat
  BY LenProperties
<1>1. CASE Len(ss) = 0
  <2>1. ss = <<>>
    BY <1>1, EmptySeq
  <2>2. FlattenSeq(ss) = ss
    BY <1>1 DEF FlattenSeq
  <2> QED
    BY <1>1, <2>1, <2>2 DEF Joins
<1>2. CASE Len(ss) # 0
  <2> DEFINE flatten[i \in 1 .. Len(ss)] == IF i = 1 THEN ss[i] ELSE flatten[i - 1] \o ss[i]
             g == [i \in 1 .. Len(ss) |-> f[i]]
  <2>1. flatten = CHOOSE h : h = [i \in 1 .. Len(ss) |-> IF i = 1 THEN ss[i] ELSE h[i - 1] \o ss[i]]
    BY DEF flatten
  <2>2. g = [i \in 1 .. Len(ss) |-> IF i = 1 THEN ss[i] ELSE g[i - 1] \o ss[i]]
    <3>1. ASSUME NEW i \in 1 .. Len(ss)
          PROVE  f[i] = IF i = 1 THEN ss[i] ELSE g[i - 1] \o ss[i]
      <4>1. f[i] = f[i - 1] \o ss[i]
        BY DEF Joins
      <4>2. CASE i = 1
        <5>1. ss[1] \in Seq(S) /\ f[0] = <<>>
          BY <1>0, <1>2, ElementOfSeq DEF Joins
        <5>2. f[0] \o ss[1] = ss[1]
          BY <5>1, ConcatEmptySeq
        <5>3. i - 1 = 0
          BY <4>2
        <5>4. f[i] = ss[i]
          BY <4>1, <4>2, <5>2, <5>3, Zenon
        <5> QED
          BY <4>2, <5>4
      <4>3. CASE i # 1
        <5>1. i - 1 \in 1 .. Len(ss)
          BY <1>0, <4>3
        <5> QED
          BY <4>1, <4>3, <5>1
      <4> QED
        BY <4>2, <4>3
    <3> QED
      BY <3>1
  <2>3. flatten = [i \in 1 .. Len(ss) |-> IF i = 1 THEN ss[i] ELSE flatten[i - 1] \o ss[i]]
    <3> HIDE DEF flatten, g
    <3> QED
      BY <2>1, <2>2, Zenon
  <2>4. FlattenSeq(ss) = flatten[Len(ss)]
    BY <1>2, Zenon DEF FlattenSeq, flatten
  <2> HIDE DEF flatten
  <2> DEFINE T == {i \in 1 .. Len(ss) : flatten[i] # g[i]}
  <2>5. T = {}
    <3>1. SUFFICES ASSUME T # {} PROVE FALSE
      OBVIOUS
    <3>2. T \subseteq Nat
      BY <1>0
    <3>3. PICK m \in T : \A k \in T : m <= k
      BY <3>1, <3>2, LeastOf
    <3>4. m \in 1 .. Len(ss) /\ flatten[m] # g[m]
      OBVIOUS
    <3> HIDE DEF g
    <3>5. m # 1
      BY <2>2, <2>3, <3>4
    <3>6. m - 1 \in 1 .. Len(ss) /\ ~(m <= m - 1)
      BY <1>0, <3>4, <3>5
    <3>7. flatten[m - 1] = g[m - 1]
      BY <3>3, <3>6
    <3>8. g[m] = g[m - 1] \o ss[m]
      BY <2>2, <3>4, <3>5
    <3>9. flatten[m] = flatten[m - 1] \o ss[m]
      BY <2>3, <3>4, <3>5
    <3> QED
      BY <3>4, <3>7, <3>8, <3>9, Zenon
  <2>6. Len(ss) \in 1 .. Len(ss)
    BY <1>0, <1>2
  <2>7. flatten[Len(ss)] = g[Len(ss)] /\ g[Len(ss)] = f[Len(ss)]
    BY <2>5, <2>6
  <2> QED
    BY <2>4, <2>7
<1> QED
  BY <1>1, <1>2

LEMMA FlattenType ==
  ASSUME NEW S, NEW ss \in Seq(Seq(S))
  PROVE  FlattenSeq(ss) \in Seq(S)
<1>1. PICK f : Joins(S, ss, f, Len(ss))
  BY JoinsExist
<1>2. FlattenSeq(ss) = f[Len(ss)] /\ Len(ss) \in 0 .. Len(ss)
  BY <1>1, FlattenJoins, LenProperties
<1> QED
  BY <1>1, <1>2 DEF Joins

(* One more sequence at the end. *)
LEMMA FlattenLast ==
  ASSUME NEW S, NEW ss \in Seq(Seq(S)), NEW tt \in Seq(Seq(S)),
         Len(tt) = Len(ss) + 1, \A i \in 1 .. Len(ss) : tt[i] = ss[i]
  PROVE  FlattenSeq(tt) = FlattenSeq(ss) \o tt[Len(ss) + 1]
<1>1. PICK f : Joins(S, tt, f, Len(tt))
  BY JoinsExist
<1> DEFINE n == Len(ss)
           g == [i \in 0 .. n |-> f[i]]
<1>2. n \in Nat
  BY LenProperties
<1>3. Joins(S, ss, g, n)
  <2>1. \A i \in 0 .. n : i \in 0 .. n + 1
    BY <1>2
  <2>2. g \in [0 .. n -> Seq(S)]
    BY <1>1, <2>1 DEF Joins
  <2>3. 0 \in 0 .. n /\ g[0] = <<>>
    BY <1>1, <1>2 DEF Joins
  <2>4. ASSUME NEW i \in 1 .. n PROVE g[i] = g[i - 1] \o ss[i]
    <3>1. i \in 0 .. n /\ i - 1 \in 0 .. n /\ i \in 1 .. n + 1
      BY <1>2
    <3>2. f[i] = f[i - 1] \o tt[i]
      BY <1>1, <3>1 DEF Joins
    <3>3. g[i] = f[i] /\ g[i - 1] = f[i - 1] /\ tt[i] = ss[i]
      BY <3>1
    <3> QED
      BY <3>2, <3>3, Zenon
  <2> QED
    BY <2>2, <2>3, <2>4 DEF Joins
<1>4. FlattenSeq(ss) = g[n]
  BY <1>3, FlattenJoins
<1>5. FlattenSeq(tt) = f[n + 1]
  BY <1>1, FlattenJoins
<1>6. f[n + 1] = f[n] \o tt[n + 1]
  <2>1. n + 1 \in 1 .. Len(tt) /\ (n + 1) - 1 = n
    BY <1>2
  <2>2. f[n + 1] = f[(n + 1) - 1] \o tt[n + 1]
    BY <1>1, <2>1 DEF Joins
  <2> QED
    BY <2>1, <2>2, Zenon
<1>7. g[n] = f[n]
  BY <1>2
<1> QED
  BY <1>4, <1>5, <1>6, <1>7, Zenon

(* One more sequence in front. *)
LEMMA FlattenFirst ==
  ASSUME NEW S, NEW ss \in Seq(Seq(S)), NEW tt \in Seq(Seq(S)),
         Len(tt) = Len(ss) + 1, \A i \in 1 .. Len(ss) : tt[i + 1] = ss[i]
  PROVE  FlattenSeq(tt) = tt[1] \o FlattenSeq(ss)
<1>1. PICK f : Joins(S, ss, f, Len(ss))
  BY JoinsExist
<1> DEFINE n == Len(ss)
           g == [i \in 0 .. n + 1 |-> IF i = 0 THEN <<>> ELSE tt[1] \o f[i - 1]]
<1>2. n \in Nat /\ tt[1] \in Seq(S)
  <2>1. n \in Nat
    BY LenProperties
  <2>2. 1 \in 1 .. Len(tt)
    BY <2>1
  <2> QED
    BY <2>1, <2>2, ElementOfSeq
<1>3. f[0] = <<>> /\ \A i \in 0 .. n : f[i] \in Seq(S)
  BY <1>1 DEF Joins
<1>4. ASSUME NEW i \in 1 .. n + 1
      PROVE  i - 1 \in 0 .. n /\ g[i] = tt[1] \o f[i - 1] /\ g[i] \in Seq(S)
  <2>1. i - 1 \in 0 .. n /\ i # 0 /\ i \in 0 .. n + 1
    BY <1>2
  <2>2. g[i] = tt[1] \o f[i - 1]
    BY <2>1
  <2> HIDE DEF g
  <2>3. f[i - 1] \in Seq(S)
    BY <1>3, <2>1
  <2>4. tt[1] \o f[i - 1] \in Seq(S)
    BY <1>2, <2>3, ConcatProperties
  <2> QED
    BY <2>1, <2>2, <2>4
<1>5. g[0] = <<>> /\ g \in [0 .. n + 1 -> Seq(S)]
  <2>1. 0 \in 0 .. n + 1 /\ g[0] = <<>> /\ g[0] \in Seq(S)
    BY <1>2, EmptySeq
  <2>2. \A i \in 0 .. n + 1 : i = 0 \/ i \in 1 .. n + 1
    BY <1>2
  <2>3. \A i \in 0 .. n + 1 : g[i] \in Seq(S)
    <3> HIDE DEF g
    <3> QED
      BY <1>4, <2>1, <2>2
  <2>4. DOMAIN g = 0 .. n + 1 /\ g = [i \in 0 .. n + 1 |-> g[i]]
    OBVIOUS
  <2> HIDE DEF g
  <2> QED
    BY <2>1, <2>3, <2>4
<1>6. ASSUME NEW i \in 1 .. n + 1 PROVE g[i] = g[i - 1] \o tt[i]
  <2>1. g[i] = tt[1] \o f[i - 1] /\ i - 1 \in 0 .. n
    BY <1>4
  <2>2. CASE i = 1
    <3>1. i - 1 = 0
      BY <2>2
    <3>2. tt[1] \o <<>> = tt[1] /\ <<>> \o tt[1] = tt[1]
      BY <1>2, ConcatEmptySeq
    <3> HIDE DEF g
    <3>3. g[i] = tt[1] \o <<>> /\ g[i - 1] = <<>>
      BY <1>3, <1>5, <2>1, <3>1
    <3> QED
      BY <2>2, <3>2, <3>3, Zenon
  <2>3. CASE i # 1
    <3> DEFINE j == i - 1
    <3>1. j \in 1 .. n /\ j \in 1 .. n + 1 /\ j - 1 \in 0 .. n /\ i = j + 1
      BY <1>2, <2>3
    <3>2. tt[i] = ss[j] /\ f[j] = f[j - 1] \o ss[j]
      <4>1. tt[j + 1] = ss[j]
        BY <3>1
      <4>2. f[j] = f[j - 1] \o ss[j]
        BY <1>1, <3>1 DEF Joins
      <4> QED
        BY <3>1, <4>1, <4>2
    <3>3. g[j] = tt[1] \o f[j - 1]
      BY <1>4, <3>1
    <3>4. ss[j] \in Seq(S) /\ f[j - 1] \in Seq(S)
      BY <1>3, <3>1, ElementOfSeq
    <3>5. (tt[1] \o f[j - 1]) \o ss[j] = tt[1] \o (f[j - 1] \o ss[j])
      <4> HIDE DEF g, j, n
      <4>1. Associates(tt[1], f[j - 1], ss[j])
        BY <1>2, <3>4, JoinAssociates
      <4> QED
        BY <4>1, Zenon DEF Associates
    <3> QED
      BY <2>1, <3>2, <3>3, <3>5, Zenon
  <2> QED
    BY <2>2, <2>3
<1> HIDE DEF g
<1>7. Joins(S, tt, g, n + 1)
  BY <1>5, <1>6 DEF Joins
<1>8. FlattenSeq(tt) = g[n + 1]
  BY <1>7, FlattenJoins
<1>9. g[n + 1] = tt[1] \o f[n]
  <2>1. n + 1 \in 1 .. n + 1 /\ (n + 1) - 1 = n
    BY <1>2
  <2>2. g[n + 1] = tt[1] \o f[(n + 1) - 1]
    BY <1>4, <2>1
  <2> QED
    BY <2>1, <2>2, Zenon
<1>10. FlattenSeq(ss) = f[n]
  BY <1>1, FlattenJoins
<1> QED
  BY <1>8, <1>9, <1>10, Zenon

----------------------------------------------------------------------------
(* The records of a sequence of buffers. *)

LEMMA DatasOf ==
  ASSUME NEW bs \in Seq(Buffers)
  PROVE  LET ds == [i \in 1 .. Len(bs) |-> bs[i].data] IN
           ds \in Seq(Seq(Records)) /\ Len(ds) = Len(bs)
<1> DEFINE ds == [i \in 1 .. Len(bs) |-> bs[i].data]
<1>1. Len(bs) \in Nat /\ \A i \in 1 .. Len(bs) : bs[i].data \in Seq(Records)
  <2>1. Len(bs) \in Nat /\ \A i \in 1 .. Len(bs) : bs[i] \in Buffers
    BY LenProperties, ElementOfSeq
  <2>2. \A b \in Buffers : b.data \in Seq(Records)
    BY DEF Buffers
  <2> QED
    BY <2>1, <2>2
<1>2. ds \in [1 .. Len(bs) -> Seq(Records)] /\ DOMAIN ds = 1 .. Len(bs)
  BY <1>1
<1>3. ds \in Seq(Seq(Records))
  BY <1>1, <1>2, SeqDef
<1> HIDE DEF ds
<1>4. Len(ds) = Len(bs)
  BY <1>1, <1>2, <1>3, LenProperties
<1> QED
  BY <1>3, <1>4 DEF ds

LEMMA DataType ==
  ASSUME NEW bs \in Seq(Buffers)
  PROVE  Data(bs) \in Seq(Records)
<1> DEFINE ds == [i \in 1 .. Len(bs) |-> bs[i].data]
<1>1. ds \in Seq(Seq(Records))
  BY DatasOf
<1> HIDE DEF ds
<1>2. FlattenSeq(ds) \in Seq(Records)
  BY <1>1, FlattenType
<1> QED
  BY <1>2 DEF Data, ds

LEMMA DataOfNone == Data(<<>>) = <<>>
<1> DEFINE ds == [i \in 1 .. Len(<<>>) |-> <<>>[i].data]
<1>1. ds \in Seq(Seq(Records)) /\ Len(ds) = 0
  BY DatasOf, EmptySeq
<1>2. ds = <<>>
  BY <1>1, EmptySeq
<1>3. FlattenSeq(ds) = ds
  BY <1>1 DEF FlattenSeq
<1> QED
  BY <1>2, <1>3 DEF Data

(* A full buffer pushed at the end. *)
LEMMA DataOfAppend ==
  ASSUME NEW bs \in Seq(Buffers), NEW b \in Buffers
  PROVE  Data(Append(bs, b)) = Data(bs) \o b.data
<1> DEFINE cs == Append(bs, b)
           ds == [i \in 1 .. Len(bs) |-> bs[i].data]
           es == [i \in 1 .. Len(cs) |-> cs[i].data]
<1>1. /\ cs \in Seq(Buffers) /\ Len(bs) \in Nat /\ Len(cs) = Len(bs) + 1
      /\ \A i \in 1 .. Len(bs) : cs[i] = bs[i]
      /\ cs[Len(bs) + 1] = b
  BY AppendProperties, LenProperties
<1> HIDE DEF cs
<1>2. ds \in Seq(Seq(Records)) /\ es \in Seq(Seq(Records)) /\ Len(ds) = Len(bs) /\ Len(es) = Len(cs)
  BY <1>1, DatasOf
<1>3. \A i \in 1 .. Len(bs) : i \in 1 .. Len(cs) /\ es[i] = ds[i]
  BY <1>1
<1>4. Len(bs) + 1 \in 1 .. Len(cs) /\ es[Len(bs) + 1] = b.data
  BY <1>1
<1> HIDE DEF ds, es
<1>5. FlattenSeq(es) = FlattenSeq(ds) \o es[Len(ds) + 1]
  BY <1>1, <1>2, <1>3, FlattenLast
<1>6. FlattenSeq(es) = FlattenSeq(ds) \o b.data
  BY <1>2, <1>4, <1>5
<1> QED
  BY <1>6 DEF Data, ds, es, cs

(* The next buffer to write, and the ones after it. *)
LEMMA DataFrom ==
  ASSUME NEW bs \in Seq(Buffers), NEW n \in 1 .. Len(bs)
  PROVE  Data(SubSeq(bs, n, Len(bs))) = bs[n].data \o Data(SubSeq(bs, n + 1, Len(bs)))
<1> DEFINE cs == SubSeq(bs, n, Len(bs))
           rs == SubSeq(bs, n + 1, Len(bs))
           ds == [i \in 1 .. Len(rs) |-> rs[i].data]
           es == [i \in 1 .. Len(cs) |-> cs[i].data]
<1>1. Len(bs) \in Nat /\ \A i \in 1 .. Len(bs) : bs[i] \in Buffers
  BY LenProperties, ElementOfSeq
<1>2. /\ cs \in Seq(Buffers) /\ Len(cs) = Len(bs) - n + 1
      /\ \A i \in 1 .. Len(bs) - n + 1 : cs[i] = bs[n + i - 1]
  <2>1. \A i \in n .. Len(bs) : bs[i] \in Buffers
    BY <1>1
  <2> QED
    BY <1>1, <2>1, SubSeqProperties
<1>3. /\ rs \in Seq(Buffers) /\ Len(rs) = Len(bs) - n
      /\ \A i \in 1 .. Len(bs) - n : rs[i] = bs[n + i]
  <2>1. \A i \in n + 1 .. Len(bs) : bs[i] \in Buffers
    BY <1>1
  <2>2. Len(rs) = IF n + 1 <= Len(bs) THEN Len(bs) - (n + 1) + 1 ELSE 0
    BY <1>1, <2>1, SubSeqProperties
  <2>3. rs \in Seq(Buffers) /\ \A i \in 1 .. Len(bs) - (n + 1) + 1 : rs[i] = bs[n + 1 + i - 1]
    BY <1>1, <2>1, SubSeqProperties
  <2>4. \A i \in 1 .. Len(bs) - n : n + 1 + i - 1 = n + i
    BY <1>1
  <2>5. Len(bs) - (n + 1) + 1 = Len(bs) - n
    BY <1>1
  <2> HIDE DEF rs
  <2>6. Len(rs) = Len(bs) - n
    BY <1>1, <2>2
  <2>7. ASSUME NEW i \in 1 .. Len(bs) - n PROVE rs[i] = bs[n + i]
    <3>1. rs[i] = bs[n + 1 + i - 1]
      BY <2>3, <2>5
    <3>2. n + 1 + i - 1 = n + i
      BY <2>4
    <3> QED
      BY <3>1, <3>2, Zenon
  <2> QED
    BY <2>3, <2>6, <2>7, Zenon
<1> HIDE DEF cs, rs
<1>4. ds \in Seq(Seq(Records)) /\ es \in Seq(Seq(Records)) /\ Len(ds) = Len(rs) /\ Len(es) = Len(cs)
  BY <1>2, <1>3, DatasOf
<1>5. ASSUME NEW i \in 1 .. Len(rs) PROVE es[i + 1] = ds[i]
  <2>1. i + 1 \in 1 .. Len(cs) /\ n + (i + 1) - 1 = n + i
    BY <1>1, <1>2, <1>3
  <2>2. cs[i + 1] = bs[n + (i + 1) - 1] /\ rs[i] = bs[n + i]
    BY <1>2, <1>3, <2>1
  <2> QED
    BY <2>1, <2>2
<1>6. es[1] = bs[n].data
  <2>1. 1 \in 1 .. Len(cs) /\ n + 1 - 1 = n
    BY <1>1, <1>2
  <2>2. cs[1] = bs[n + 1 - 1]
    BY <1>2, <2>1
  <2> QED
    BY <2>1, <2>2
<1>7. Len(es) = Len(ds) + 1
  BY <1>1, <1>2, <1>3, <1>4
<1> HIDE DEF ds, es
<1>8. FlattenSeq(es) = es[1] \o FlattenSeq(ds)
  BY <1>4, <1>5, <1>7, FlattenFirst
<1>9. FlattenSeq(es) = bs[n].data \o FlattenSeq(ds)
  BY <1>6, <1>8
<1> QED
  BY <1>9 DEF Data, ds, es, cs, rs

(* A record appended to what ends a sequence is appended to the sequence.  *)
LEMMA AppendInside ==
  ASSUME NEW s \in Seq(Records), NEW t \in Seq(Records), NEW r \in Records
  PROVE  Append(s \o t, r) = s \o Append(t, r)
<1>1. s \o t \in Seq(Records)
  BY ConcatProperties
<1>2. Append(s \o t, r) = (s \o t) \o <<r>>
  BY <1>1, AppendIsConcat
<1>3. Append(t, r) = t \o <<r>> /\ <<r>> \in Seq(Records)
  BY AppendIsConcat
<1>4. Associates(s, t, <<r>>)
  BY <1>3, JoinAssociates
<1> QED
  BY <1>2, <1>3, <1>4, Zenon DEF Associates

(* s is the end of t, told from behind. *)
EndsWith(t, s) ==
  /\ Len(s) <= Len(t)
  /\ \A i \in 1 .. Len(s) : s[(Len(s) - i) + 1] = t[(Len(t) - i) + 1]

LEMMA EndsWithEmpty ==
  ASSUME NEW S, NEW t \in Seq(S)
  PROVE  EndsWith(t, <<>>)
  BY LenProperties, EmptySeq DEF EndsWith

LEMMA EndsWithSame ==
  ASSUME NEW S, NEW s \in Seq(S), NEW t \in Seq(S), NEW u \in Seq(S), EndsWith(t, s)
  PROVE  EndsWith(t \o u, s \o u)
<1> DEFINE a == s \o u
           b == t \o u
<1>1. Len(s) \in Nat /\ Len(t) \in Nat /\ Len(u) \in Nat /\ Len(s) <= Len(t)
  BY LenProperties DEF EndsWith
<1>2. /\ Len(a) = Len(s) + Len(u)
      /\ \A i \in 1 .. Len(s) + Len(u) : a[i] = IF i <= Len(s) THEN s[i] ELSE u[i - Len(s)]
  BY ConcatProperties
<1>3. /\ Len(b) = Len(t) + Len(u)
      /\ \A i \in 1 .. Len(t) + Len(u) : b[i] = IF i <= Len(t) THEN t[i] ELSE u[i - Len(t)]
  BY ConcatProperties
<1> HIDE DEF a, b
<1>4. ASSUME NEW i \in 1 .. Len(a)
      PROVE  a[(Len(a) - i) + 1] = b[(Len(b) - i) + 1]
  <2> DEFINE x == (Len(a) - i) + 1
             y == (Len(b) - i) + 1
  <2>1. x \in 1 .. Len(s) + Len(u) /\ y \in 1 .. Len(t) + Len(u)
    BY <1>1, <1>2, <1>3
  <2>2. CASE i <= Len(u)
    <3>1. ~(x <= Len(s)) /\ ~(y <= Len(t)) /\ x - Len(s) = y - Len(t)
      BY <1>1, <1>2, <1>3, <2>2
    <3> HIDE DEF x, y
    <3>2. a[x] = u[x - Len(s)] /\ b[y] = u[y - Len(t)]
      BY <1>2, <1>3, <2>1, <3>1
    <3>3. a[x] = b[y]
      BY <3>1, <3>2
    <3> QED
      BY <3>3 DEF x, y
  <2>3. CASE ~(i <= Len(u))
    <3> DEFINE j == i - Len(u)
    <3>1. j \in 1 .. Len(s) /\ x <= Len(s) /\ y <= Len(t)
          /\ x = (Len(s) - j) + 1 /\ y = (Len(t) - j) + 1
      BY <1>1, <1>2, <1>3, <2>3
    <3> HIDE DEF x, y, j
    <3>2. a[x] = s[x] /\ b[y] = t[y]
      BY <1>2, <1>3, <2>1, <3>1
    <3>3. s[(Len(s) - j) + 1] = t[(Len(t) - j) + 1]
      BY <3>1 DEF EndsWith
    <3>4. a[x] = b[y]
      BY <3>1, <3>2, <3>3
    <3> QED
      BY <3>4 DEF x, y
  <2> QED
    BY <2>2, <2>3
<1>5. Len(a) <= Len(b)
  BY <1>1, <1>2, <1>3
<1> QED
  BY <1>4, <1>5 DEF EndsWith, a, b

LEMMA EndsWithSuffix ==
  ASSUME NEW S, NEW s \in Seq(S), NEW t \in Seq(S), EndsWith(t, s)
  PROVE  IsSuffix(s, t)
<1> DEFINE n == Len(s)
           a == Reverse(s)
           b == Reverse(t)
<1>1. n \in Nat /\ Len(t) \in Nat /\ n <= Len(t)
  BY LenProperties DEF EndsWith
<1>2. a \in Seq(S) /\ Len(a) = n /\ \A i \in 1 .. n : a[i] = s[(n - i) + 1]
  <2>1. \A i \in 1 .. n : (n - i) + 1 \in 1 .. n
    BY <1>1
  <2>2. a \in [1 .. n -> S] /\ \A i \in 1 .. n : a[i] = s[(n - i) + 1]
    BY <2>1, ElementOfSeq DEF Reverse
  <2> HIDE DEF a
  <2>3. a \in Seq(S) /\ DOMAIN a = 1 .. n
    BY <1>1, <2>2, SeqDef
  <2>4. Len(a) = n
    BY <1>1, <2>3, LenProperties
  <2> QED
    BY <2>2, <2>3, <2>4
<1>3. b \in Seq(S) /\ Len(b) = Len(t) /\ \A i \in 1 .. Len(t) : b[i] = t[(Len(t) - i) + 1]
  <2>1. \A i \in 1 .. Len(t) : (Len(t) - i) + 1 \in 1 .. Len(t)
    BY <1>1
  <2>2. b \in [1 .. Len(t) -> S] /\ \A i \in 1 .. Len(t) : b[i] = t[(Len(t) - i) + 1]
    BY <2>1, ElementOfSeq DEF Reverse
  <2> HIDE DEF b
  <2>3. b \in Seq(S) /\ DOMAIN b = 1 .. Len(t)
    BY <1>1, <2>2, SeqDef
  <2>4. Len(b) = Len(t)
    BY <1>1, <2>3, LenProperties
  <2> QED
    BY <2>2, <2>3, <2>4
<1> HIDE DEF a, b
<1>4. ASSUME NEW i \in 1 .. n PROVE a[i] = b[i]
  <2>1. i \in 1 .. Len(t)
    BY <1>1
  <2>2. a[i] = s[(n - i) + 1] /\ b[i] = t[(Len(t) - i) + 1]
    BY <1>2, <1>3, <2>1
  <2>3. s[(n - i) + 1] = t[(Len(t) - i) + 1]
    BY Zenon DEF EndsWith
  <2> QED
    BY <2>2, <2>3
<1>5. SubSeq(a, 1, n) = SubSeq(b, 1, n)
  <2> DEFINE c == SubSeq(a, 1, n)
             d == SubSeq(b, 1, n)
  <2>1. \A i \in 1 .. n : a[i] \in S /\ b[i] \in S
    BY <1>1, <1>2, <1>4, ElementOfSeq
  <2>2. c \in Seq(S) /\ d \in Seq(S)
    BY <1>1, <2>1, SubSeqProperties
  <2>3. Len(c) = n /\ Len(d) = n
    BY <1>1, <2>1, SubSeqProperties
  <2>4. \A i \in 1 .. n : c[i] = a[i] /\ d[i] = b[i]
    BY <1>1, <2>1, SubSeqProperties
  <2> HIDE DEF c, d
  <2>5. c = d
    BY <1>4, <2>2, <2>3, <2>4, SeqEqual
  <2> QED
    BY <2>5 DEF c, d
<1> QED
  BY <1>1, <1>2, <1>3, <1>5 DEF IsSuffix, IsPrefix, a, b

----------------------------------------------------------------------------
(* Where a record is, from append() to the file. *)

Pending == SubSeq(buffersToWrite, next, Len(buffersToWrite))

InOrder == appended = output \o Data(Pending) \o Data(m_buffers) \o m_currentBuffer.data

(* The buffers that wait for their turn are empty: a record that does not  *)
(* fit the current one fits the next.                                      *)
Spares ==
  \A b \in {m_nextBuffer, backupBuffer1, backupBuffer2} : b = NULL \/ b = NewBuffer

(* The file ends with the last record written, if none was refused. *)
FileWhole == ~torn => EndsWith(output, file)

RecordsInv == InOrder /\ FileWhole /\ Spares

LogInv == IInv /\ RecordsInv

LEMMA PlacesTyped ==
  ASSUME IInv
  PROVE  /\ output \in Seq(Records) /\ file \in Seq(Records) /\ appended \in Seq(Records)
         /\ buffersToWrite \in Seq(Buffers) /\ next \in Nat \ {0} /\ Len(buffersToWrite) \in Nat
         /\ Pending \in Seq(Buffers) /\ Data(Pending) \in Seq(Records)
         /\ m_buffers \in Seq(Buffers) /\ Data(m_buffers) \in Seq(Records)
         /\ m_currentBuffer \in Buffers /\ m_currentBuffer.data \in Seq(Records)
<1>1. /\ output \in Seq(Records) /\ file \in Seq(Records) /\ appended \in Seq(Records)
      /\ buffersToWrite \in Seq(Buffers) /\ next \in Nat \ {0}
      /\ m_buffers \in Seq(Buffers) /\ m_currentBuffer \in Buffers
  BY DEF IInv, TypeOK
<1>2. Len(buffersToWrite) \in Nat /\ \A i \in 1 .. Len(buffersToWrite) : buffersToWrite[i] \in Buffers
  BY <1>1, LenProperties, ElementOfSeq
<1>3. \A i \in next .. Len(buffersToWrite) : buffersToWrite[i] \in Buffers
  BY <1>1, <1>2
<1>4. Pending \in Seq(Buffers)
  BY <1>1, <1>2, <1>3, SubSeqProperties DEF Pending
<1>5. Data(Pending) \in Seq(Records) /\ Data(m_buffers) \in Seq(Records)
  BY <1>1, <1>4, DataType
<1>6. m_currentBuffer.data \in Seq(Records)
  BY <1>1 DEF Buffers
<1> QED
  BY <1>1, <1>2, <1>4, <1>5, <1>6

LEMMA NothingPending ==
  ASSUME buffersToWrite \in Seq(Buffers), next \in Nat \ {0}, next > Len(buffersToWrite)
  PROVE  Data(Pending) = <<>>
<1>1. Len(buffersToWrite) \in Nat
  BY LenProperties
<1>2. Pending = <<>>
  BY <1>1, SubSeqEmpty DEF Pending
<1> QED
  BY <1>2, DataOfNone

LEMMA InitRecords == Init => RecordsInv
<1> SUFFICES ASSUME Init PROVE RecordsInv
  OBVIOUS
<1>1. /\ buffersToWrite = <<>> /\ next = 1 /\ m_buffers = <<>> /\ output = <<>>
      /\ m_currentBuffer.data = <<>> /\ appended = <<>> /\ file = <<>>
  BY DEF Init, NewBuffer
<1>2. <<>> \in Seq(Buffers) /\ <<>> \in Seq(Records) /\ Len(<<>>) = 0
  BY EmptySeq
<1>3. Data(Pending) = <<>> /\ Data(m_buffers) = <<>>
  BY <1>1, <1>2, NothingPending, DataOfNone
<1>4. <<>> \o <<>> = <<>>
  BY <1>2, ConcatEmptySeq
<1>5. InOrder
  BY <1>1, <1>3, <1>4, Zenon DEF InOrder
<1>6. FileWhole
  BY <1>1, <1>2, EndsWithEmpty DEF FileWhole
<1>7. Spares
  BY DEF Init, Spares
<1> QED
  BY <1>5, <1>6, <1>7 DEF RecordsInv

(* append(): the record goes behind all others, into the current buffer or *)
(* the empty one that takes its place.                                     *)
LEMMA AppendRecords ==
  ASSUME LogInv, NEW n \in Sizes, AppendRecord(n)
  PROVE  RecordsInv'
<1> DEFINE r == [id |-> Len(appended) + 1, size |-> n]
           h == output \o Data(Pending)
           c == m_currentBuffer.data
<1>1. IInv /\ InOrder /\ FileWhole /\ Spares
  BY DEF LogInv, RecordsInv
<1>2. /\ output \in Seq(Records) /\ Data(Pending) \in Seq(Records)
      /\ m_buffers \in Seq(Buffers) /\ Data(m_buffers) \in Seq(Records)
      /\ m_currentBuffer \in Buffers /\ c \in Seq(Records) /\ appended \in Seq(Records)
  BY <1>1, PlacesTyped
<1>3. r \in Records /\ r.size = n /\ n \in Nat /\ n < SIZE
  BY <1>2, SizesAssumption, LenProperties DEF Records
<1>4. /\ appended' = Append(appended, r)
      /\ output' = output /\ file' = file /\ torn' = torn /\ buffersToWrite' = buffersToWrite /\ next' = next
      /\ backupBuffer1' = backupBuffer1 /\ backupBuffer2' = backupBuffer2
  BY DEF AppendRecord
<1>5. h \in Seq(Records) /\ h \o Data(m_buffers) \in Seq(Records)
  BY <1>2, ConcatProperties
<1>6. Data(Pending)' = Data(Pending)
  BY <1>4 DEF Pending
<1>7. FileWhole'
  BY <1>1, <1>4 DEF FileWhole
<1>8. appended = (h \o Data(m_buffers)) \o c
  BY <1>1 DEF InOrder
<1>9. CASE Fits(m_currentBuffer, r)
  <2>1. m_currentBuffer' = [used |-> m_currentBuffer.used + r.size, data |-> Append(c, r)]
        /\ m_buffers' = m_buffers /\ m_nextBuffer' = m_nextBuffer
    BY <1>9 DEF AppendRecord, BufferAppend
  <2>2. m_currentBuffer'.data = Append(c, r) /\ Data(m_buffers)' = Data(m_buffers)
    BY <2>1
  <2> HIDE DEF r, h, c
  <2>3. Append((h \o Data(m_buffers)) \o c, r) = (h \o Data(m_buffers)) \o Append(c, r)
    BY <1>2, <1>3, <1>5, AppendInside
  <2>4. appended' = (h \o Data(m_buffers)) \o m_currentBuffer'.data
    BY <1>4, <1>8, <2>2, <2>3, Zenon
  <2>5. InOrder'
    BY <1>4, <1>6, <2>2, <2>4, Zenon DEF InOrder, h
  <2>6. Spares'
    BY <1>1, <1>4, <2>1 DEF Spares
  <2> QED
    BY <1>7, <2>5, <2>6 DEF RecordsInv
<1>10. CASE ~Fits(m_currentBuffer, r)
  <2>1. /\ m_buffers' = Append(m_buffers, m_currentBuffer)
        /\ m_currentBuffer' = BufferAppend(IF m_nextBuffer # NULL THEN m_nextBuffer ELSE NewBuffer, r)
        /\ m_nextBuffer' = NULL
    BY <1>10 DEF AppendRecord
  <2>2. (IF m_nextBuffer # NULL THEN m_nextBuffer ELSE NewBuffer) = NewBuffer
    BY <1>1 DEF Spares
  <2>3. m_currentBuffer' = BufferAppend(NewBuffer, r)
    BY <2>1, <2>2, Zenon
  <2>4. NewBuffer.used + r.size < SIZE
    BY <1>3, SizesAssumption DEF NewBuffer
  <2>5. m_currentBuffer'.data = Append(<<>>, r)
    BY <2>3, <2>4 DEF BufferAppend, Fits, NewBuffer
  <2> HIDE DEF r
  <2>6. Append(<<>>, r) = <<r>> /\ <<r>> \in Seq(Records)
    BY <1>3
  <2>7. Data(m_buffers') = Data(m_buffers) \o c
    BY <1>2, <2>1, DataOfAppend
  <2>8. Append((h \o Data(m_buffers)) \o c, r) = ((h \o Data(m_buffers)) \o c) \o <<r>>
    BY <1>2, <1>3, <1>5, <1>8, AppendIsConcat
  <2>9. (h \o Data(m_buffers)) \o c = h \o (Data(m_buffers) \o c)
    <3> HIDE DEF h, c
    <3>1. Associates(h, Data(m_buffers), c)
      BY <1>2, <1>5, JoinAssociates
    <3> QED
      BY <3>1, Zenon DEF Associates
  <2> HIDE DEF h, c
  <2>10. appended' = (h \o Data(m_buffers')) \o m_currentBuffer'.data
    BY <1>4, <1>8, <2>5, <2>6, <2>7, <2>8, <2>9, Zenon
  <2>11. InOrder'
    BY <1>4, <1>6, <2>10, Zenon DEF InOrder, h
  <2>12. Spares'
    BY <1>1, <1>4, <2>1 DEF Spares
  <2> QED
    BY <1>7, <2>11, <2>12 DEF RecordsInv
<1> QED
  BY <1>9, <1>10

(* The swap: what was full and what was current is now to be written, and  *)
(* the front end has an empty buffer.                                      *)
LEMMA SwapRecords ==
  ASSUME LogInv, Swap
  PROVE  RecordsInv'
<1> DEFINE d == Data(m_buffers)
           c == m_currentBuffer.data
<1>1. IInv /\ InOrder /\ FileWhole /\ Spares
  BY DEF LogInv, RecordsInv
<1>2. /\ output \in Seq(Records) /\ buffersToWrite \in Seq(Buffers) /\ next \in Nat \ {0}
      /\ m_buffers \in Seq(Buffers) /\ d \in Seq(Records)
      /\ m_currentBuffer \in Buffers /\ c \in Seq(Records)
  BY <1>1, PlacesTyped
<1>3. /\ buffersToWrite' = Append(m_buffers, m_currentBuffer)
      /\ m_buffers' = buffersToWrite
      /\ m_currentBuffer' = backupBuffer1
      /\ backupBuffer1' = NULL
      /\ next' = 1
      /\ appended' = appended /\ output' = output /\ file' = file /\ torn' = torn
  BY DEF Swap
<1>4. buffersToWrite = <<>> /\ backupBuffer1 # NULL
  BY <1>1 DEF IInv, PoolInv, Swap
<1>5. m_currentBuffer'.data = <<>> /\ Data(m_buffers') = <<>>
  BY <1>1, <1>3, <1>4, DataOfNone DEF Spares, NewBuffer
<1>6. Data(Pending) = <<>>
  BY <1>2, <1>4, EmptySeq, NothingPending
<1>7. Data(Pending') = d \o c
  <2> DEFINE w == Append(m_buffers, m_currentBuffer)
  <2>1. w \in Seq(Buffers)
    BY <1>2, AppendProperties
  <2>2. SubSeq(w, 1, Len(w)) = w
    BY <2>1, SubSeqFull
  <2>3. Pending' = SubSeq(w, 1, Len(w))
    BY <1>3 DEF Pending
  <2>4. Data(w) = d \o c
    BY <1>2, DataOfAppend
  <2> QED
    BY <2>2, <2>3, <2>4, Zenon
<1> HIDE DEF d, c
<1>8. appended = ((output \o <<>>) \o d) \o c
  BY <1>1, <1>6, Zenon DEF InOrder, d, c
<1>9. output \o <<>> = output
  BY <1>2, ConcatEmptySeq
<1>10. Associates(output, d, c)
  BY <1>2, JoinAssociates
<1>11. appended = output \o (d \o c)
  BY <1>8, <1>9, <1>10, Zenon DEF Associates
<1>12. appended \o <<>> = appended
  BY <1>1, ConcatEmptySeq, PlacesTyped
<1>13. InOrder'
  BY <1>3, <1>5, <1>7, <1>11, <1>12, Zenon DEF InOrder
<1>14. Spares'
  BY <1>1, <1>3 DEF Spares, Swap
<1>15. FileWhole'
  BY <1>1, <1>3 DEF FileWhole
<1> QED
  BY <1>13, <1>14, <1>15 DEF RecordsInv

(* Writing a buffer: its records are the next in order. *)
LEMMA WriteRecords ==
  ASSUME LogInv, WriteBuffer \/ RollFails
  PROVE  RecordsInv'
<1> DEFINE x == buffersToWrite[next].data
           p == Data(SubSeq(buffersToWrite, next + 1, Len(buffersToWrite)))
<1>1. IInv /\ InOrder /\ FileWhole /\ Spares
  BY DEF LogInv, RecordsInv
<1>2. /\ output \in Seq(Records) /\ file \in Seq(Records)
      /\ buffersToWrite \in Seq(Buffers) /\ next \in Nat \ {0} /\ Len(buffersToWrite) \in Nat
  BY <1>1, PlacesTyped
<1>3. /\ next <= Len(buffersToWrite)
      /\ output' = output \o x
      /\ FileAppend(buffersToWrite[next]) \/ RollFile
      /\ next' = next + 1
      /\ UNCHANGED <<m_currentBuffer, m_nextBuffer, m_buffers, backupBuffer1, backupBuffer2,
                     buffersToWrite, appended>>
  BY BufferWritten DEF Writes
<1>4. next \in 1 .. Len(buffersToWrite)
  BY <1>2, <1>3
<1>5. buffersToWrite[next] \in Buffers /\ x \in Seq(Records)
  <2>1. buffersToWrite[next] \in Buffers
    BY <1>2, <1>4, ElementOfSeq
  <2> QED
    BY <2>1 DEF Buffers
<1>6. p \in Seq(Records)
  <2>1. \A i \in next + 1 .. Len(buffersToWrite) : buffersToWrite[i] \in Buffers
    BY <1>2, ElementOfSeq
  <2>2. SubSeq(buffersToWrite, next + 1, Len(buffersToWrite)) \in Seq(Buffers)
    BY <1>2, <2>1, SubSeqProperties
  <2> QED
    BY <2>2, DataType
<1>7. Data(Pending) = x \o p
  BY <1>2, <1>4, DataFrom DEF Pending
<1>8. Data(Pending') = p
  BY <1>3 DEF Pending
<1> HIDE DEF x, p
<1>9. Associates(output, x, p)
  BY <1>2, <1>5, <1>6, JoinAssociates
<1>10. output' \o Data(Pending') = output \o Data(Pending)
  BY <1>3, <1>7, <1>8, <1>9, Zenon DEF Associates
<1>11. InOrder'
  <2>1. m_buffers' = m_buffers /\ m_currentBuffer' = m_currentBuffer /\ appended' = appended
    BY <1>3
  <2> QED
    BY <1>1, <1>10, <2>1, Zenon DEF InOrder
<1>12. FileWhole'
  <2>1. ~torn' => file' = <<>> \/ (~torn /\ file' = file \o x)
    <3>1. torn \in BOOLEAN /\ m_writtenBytes \in Nat
      BY <1>1 DEF IInv, TypeOK
    <3> QED
      BY <1>2, <1>3, <1>5, <3>1, FileWritten DEF x
  <2>2. ~torn => EndsWith(output \o x, file \o x)
    BY <1>1, <1>2, <1>5, EndsWithSame DEF FileWhole
  <2>3. EndsWith(output \o x, <<>>)
    <3>1. output \o x \in Seq(Records)
      BY <1>2, <1>5, ConcatProperties
    <3> QED
      BY <3>1, EndsWithEmpty
  <2> QED
    BY <1>3, <2>1, <2>2, <2>3, Zenon DEF FileWhole
<1>13. Spares'
  BY <1>1, <1>3 DEF Spares
<1> QED
  BY <1>11, <1>12, <1>13 DEF RecordsInv

(* The buffers the writer recycles have been written, and are reset. *)
LEMMA RecycleRecords ==
  ASSUME LogInv, Recycle
  PROVE  RecordsInv'
<1>1. IInv /\ InOrder /\ FileWhole /\ Spares
  BY DEF LogInv, RecordsInv
<1>2. buffersToWrite \in Seq(Buffers) /\ next \in Nat \ {0}
  BY <1>1, PlacesTyped
<1>3. /\ next > Len(buffersToWrite)
      /\ UNCHANGED <<m_currentBuffer, m_nextBuffer, m_buffers, next, appended, output, file, torn>>
      /\ buffersToWrite' = <<>> \/ buffersToWrite' = buffersToWrite
  BY DEF Recycle
<1>4. Data(Pending) = <<>>
  BY <1>2, <1>3, NothingPending
<1>5. Data(Pending') = <<>>
  <2>1. CASE buffersToWrite' = <<>>
    <3>1. Pending' = SubSeq(<<>>, next, 0)
      BY <1>3, <2>1, EmptySeq DEF Pending
    <3>2. SubSeq(<<>>, next, 0) = <<>>
      BY <1>2, SubSeqEmpty
    <3> QED
      BY <3>1, <3>2, DataOfNone
  <2>2. CASE buffersToWrite' = buffersToWrite
    BY <1>3, <1>4, <2>2 DEF Pending
  <2> QED
    BY <1>3, <2>1, <2>2
<1>6. InOrder'
  <2>1. m_buffers' = m_buffers /\ m_currentBuffer' = m_currentBuffer /\ appended' = appended
        /\ output' = output
    BY <1>3
  <2> QED
    BY <1>1, <1>4, <1>5, <2>1, Zenon DEF InOrder
<1>7. Spares'
  BY <1>1, <1>3 DEF Spares, Recycle
<1>8. FileWhole'
  BY <1>1, <1>3 DEF FileWhole
<1> QED
  BY <1>6, <1>7, <1>8 DEF RecordsInv

(* Steps that touch no record. *)
LEMMA OtherRecords ==
  ASSUME LogInv,
         UNCHANGED <<m_currentBuffer, m_nextBuffer, m_buffers, buffersToWrite, next,
                     appended, output, file, torn>>,
         \A b \in {backupBuffer1', backupBuffer2'} :
           b \in {backupBuffer1, backupBuffer2, NewBuffer}
  PROVE  RecordsInv'
<1>1. InOrder /\ FileWhole /\ Spares
  BY DEF LogInv, RecordsInv
<1>2. InOrder'
  BY <1>1 DEF InOrder, Pending
<1>3. Spares'
  BY <1>1 DEF Spares
<1>4. FileWhole'
  BY <1>1 DEF FileWhole
<1> QED
  BY <1>2, <1>3, <1>4 DEF RecordsInv

LEMMA NextRecords ==
  ASSUME LogInv, [Next]_vars
  PROVE  RecordsInv'
<1>1. CASE \E n \in Sizes : AppendRecord(n)
  BY <1>1, AppendRecords
<1>2. CASE Start
  BY <1>2, OtherRecords DEF Start
<1>3. CASE Stop
  BY <1>3, OtherRecords DEF Stop
<1>4. CASE Join
  BY <1>4, OtherRecords DEF Join
<1>5. CASE Begin
  BY <1>5, OtherRecords DEF Begin
<1>6. CASE While
  BY <1>6, OtherRecords DEF While
<1>7. CASE Wait
  BY <1>7, OtherRecords DEF Wait
<1>8. CASE Swap
  BY <1>8, SwapRecords
<1>9. CASE WriteBuffer \/ RollFails
  BY <1>9, WriteRecords
<1>10. CASE Recycle
  BY <1>10, RecycleRecords
<1>11. CASE UNCHANGED vars
  BY <1>11, OtherRecords DEF vars
<1> QED
  BY <1>1, <1>2, <1>3, <1>4, <1>5, <1>6, <1>7, <1>8, <1>9, <1>10, <1>11 DEF Next, Writer

(* append() and threadRoutine() hand records over without a loss, a copy   *)
(* or a change of order, and the log file ends with the last one written   *)
(* unless the disk has refused a write since the file was begun:           *)
(* NoRecordLost holds in every state.                                      *)
THEOREM RecordsKept == Safety => []NoRecordLost
<1>1. Init => LogInv
  BY InitInv, InitRecords DEF LogInv
<1>2. LogInv /\ [Next]_vars => LogInv'
  <2> SUFFICES ASSUME LogInv, [Next]_vars PROVE LogInv'
    OBVIOUS
  <2>1. IInv'
    BY NextInv DEF LogInv
  <2>2. RecordsInv'
    BY NextRecords
  <2> QED
    BY <2>1, <2>2 DEF LogInv
<1>3. LogInv => NoRecordLost
  <2> SUFFICES ASSUME LogInv PROVE NoRecordLost
    OBVIOUS
  <2>1. IInv /\ InOrder /\ FileWhole
    BY DEF LogInv, RecordsInv
  <2>2. ~torn => IsSuffix(file, output)
    BY <2>1, PlacesTyped, EndsWithSuffix DEF FileWhole
  <2> QED
    BY <2>1, <2>2 DEF NoRecordLost, InOrder, Pending
<1> QED
  BY <1>1, <1>2, <1>3, PTL DEF Safety
=============================================================================
