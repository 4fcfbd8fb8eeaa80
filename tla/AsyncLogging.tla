----------------------------- MODULE AsyncLogging -----------------------------
(***************************************************************************)
(* The asynchronous log of src/Logger/AsyncLogging.{h,cpp}, with the       *)
(* LogBuffer it fills, the ptr_vector it keeps buffers in and the LogFile  *)
(* it writes: any thread appends records, one thread writes the buffers.   *)
(*                                                                         *)
(* append() holds m_mutex throughout: one step, whichever thread calls.    *)
(* The writer's critical section is one step.  Its wait is timed           *)
(* (m_flushInterval), so it may end at any moment, notified or not.        *)
(* A unique_ptr is NULL or the buffer it owns.                             *)
(***************************************************************************)
EXTENDS Naturals, Sequences, SequencesExt

CONSTANTS
  SIZE,        \* capacity of a buffer
  Sizes,       \* lengths of records
  RollSize,    \* m_rollSize
  MaxRecords,  \* bound: records appended
  NULL

(* A record comes from a LogStream buffer, much smaller than a log buffer. *)
ASSUME SizesAssumption ==
  /\ SIZE \in Nat
  /\ Sizes \subseteq {n \in Nat : n < SIZE}

Records == [id : Nat, size : Nat]
Buffers == [used : Nat, data : Seq(Records)]

ASSUME NullAssumption == NULL \notin Buffers

VARIABLES
  m_isRunning,
  m_currentBuffer, m_nextBuffer, m_buffers,       \* guarded by m_mutex
  backupBuffer1, backupBuffer2, buffersToWrite,   \* locals of threadRoutine
  next,       \* index in buffersToWrite of the next buffer to write
  pc,         \* where threadRoutine is
  stopper,    \* the thread that calls start() and stop()
  file,       \* records in the log file
  torn,       \* a write to it has failed: it has a gap
  m_writtenBytes,
  appended,   \* history: records appended
  output      \* history: records handed to the LogFile

front == <<m_currentBuffer, m_nextBuffer, m_buffers>>
back  == <<backupBuffer1, backupBuffer2, buffersToWrite, next>>
disk  == <<file, torn, m_writtenBytes, output>>
vars == <<m_isRunning, m_currentBuffer, m_nextBuffer, m_buffers, backupBuffer1, backupBuffer2,
          buffersToWrite, next, pc, stopper, file, torn, m_writtenBytes, appended, output>>

NewBuffer == [used |-> 0, data |-> <<>>]

(* LogBuffer::avail() > len. *)
Fits(b, r) == b.used + r.size < SIZE

(* LogBuffer::append, which drops what does not fit. *)
BufferAppend(b, r) ==
  IF Fits(b, r) THEN [used |-> b.used + r.size, data |-> Append(b.data, r)] ELSE b

Init ==
  /\ m_isRunning = FALSE
  /\ m_currentBuffer = NewBuffer
  /\ m_nextBuffer = NewBuffer
  /\ m_buffers = <<>>
  /\ backupBuffer1 = NULL
  /\ backupBuffer2 = NULL
  /\ buffersToWrite = <<>>
  /\ next = 1
  /\ pc = "none"
  /\ stopper = "idle"
  /\ file = <<>>
  /\ torn = FALSE
  /\ m_writtenBytes = 0
  /\ appended = <<>>
  /\ output = <<>>

----------------------------------------------------------------------------
(* append() of a record of n bytes. *)
AppendRecord(n) ==
  /\ Len(appended) < MaxRecords
  /\ LET r == [id |-> Len(appended) + 1, size |-> n] IN
       /\ appended' = Append(appended, r)
       /\ IF Fits(m_currentBuffer, r)
            THEN /\ m_currentBuffer' = BufferAppend(m_currentBuffer, r)
                 /\ UNCHANGED <<m_buffers, m_nextBuffer>>
            ELSE /\ m_buffers' = Append(m_buffers, m_currentBuffer)
                 /\ m_currentBuffer' =
                      BufferAppend(IF m_nextBuffer # NULL THEN m_nextBuffer ELSE NewBuffer, r)
                 /\ m_nextBuffer' = NULL
  /\ UNCHANGED <<m_isRunning, back, pc, stopper, disk>>

(* start(). *)
Start ==
  /\ stopper = "idle"
  /\ m_isRunning' = TRUE
  /\ pc' = "started"
  /\ stopper' = "started"
  /\ UNCHANGED <<front, back, appended, disk>>

(* stop(), from ~AsyncLogging at the latest: m_isRunning = false without   *)
(* the lock, the notify, and the join.                                     *)
Stop ==
  /\ stopper = "started"
  /\ m_isRunning' = FALSE
  /\ stopper' = "joining"
  /\ UNCHANGED <<front, back, pc, appended, disk>>

Join ==
  /\ stopper = "joining"
  /\ pc = "done"
  /\ stopper' = "joined"
  /\ UNCHANGED <<m_isRunning, front, back, pc, appended, disk>>

----------------------------------------------------------------------------
(* threadRoutine begins: assert(m_isRunning == true), the file, which must *)
(* open, and two new buffers.                                              *)
Begin ==
  /\ pc = "started"
  /\ \/ /\ m_isRunning
        /\ pc' = "while"
        /\ backupBuffer1' = NewBuffer
        /\ backupBuffer2' = NewBuffer
     \/ pc' = "aborted" /\ UNCHANGED <<backupBuffer1, backupBuffer2>>
  /\ UNCHANGED <<m_isRunning, front, buffersToWrite, next, stopper, appended, disk>>

(* Mutant: the flag is not looked at. *)
WhileTrue ==
  /\ pc = "while"
  /\ pc' = "lock"
  /\ UNCHANGED <<m_isRunning, front, back, stopper, appended, disk>>

(* while (m_isRunning). *)
While ==
  /\ pc = "while"
  /\ pc' = IF m_isRunning THEN "lock" ELSE "done"
  /\ UNCHANGED <<m_isRunning, front, back, stopper, appended, disk>>

(* Nothing to write: the writer waits, at most m_flushInterval. *)
Wait ==
  /\ pc = "lock"
  /\ m_buffers = <<>>
  /\ pc' = "waiting"
  /\ UNCHANGED <<m_isRunning, front, back, stopper, appended, disk>>

(* Mutant: the second spare buffer is handed over whether needed or not. *)
SwapGivesBoth ==
  /\ pc = "waiting" \/ (pc = "lock" /\ m_buffers # <<>>)
  /\ buffersToWrite' = Append(m_buffers, m_currentBuffer)
  /\ m_buffers' = buffersToWrite
  /\ m_currentBuffer' = backupBuffer1
  /\ backupBuffer1' = NULL
  /\ m_nextBuffer' = backupBuffer2
  /\ backupBuffer2' = NULL
  /\ pc' = "write"
  /\ next' = 1
  /\ UNCHANGED <<m_isRunning, stopper, appended, disk>>

(* Mutant: a writer whose wait ends with no full buffer waits again. *)
SwapOnlyFull ==
  /\ pc \in {"lock", "waiting"}
  /\ m_buffers # <<>>
  /\ buffersToWrite' = Append(m_buffers, m_currentBuffer)
  /\ m_buffers' = buffersToWrite
  /\ m_currentBuffer' = backupBuffer1
  /\ backupBuffer1' = NULL
  /\ IF m_nextBuffer = NULL
       THEN m_nextBuffer' = backupBuffer2 /\ backupBuffer2' = NULL
       ELSE UNCHANGED <<m_nextBuffer, backupBuffer2>>
  /\ pc' = "write"
  /\ next' = 1
  /\ UNCHANGED <<m_isRunning, stopper, appended, disk>>

(* The critical section after the wait, if there was one. *)
Swap ==
  /\ pc = "waiting" \/ (pc = "lock" /\ m_buffers # <<>>)
  /\ buffersToWrite' = Append(m_buffers, m_currentBuffer)
  /\ m_buffers' = buffersToWrite
  /\ m_currentBuffer' = backupBuffer1
  /\ backupBuffer1' = NULL
  /\ IF m_nextBuffer = NULL
       THEN m_nextBuffer' = backupBuffer2 /\ backupBuffer2' = NULL
       ELSE UNCHANGED <<m_nextBuffer, backupBuffer2>>
  /\ pc' = "write"
  /\ next' = 1
  /\ UNCHANGED <<m_isRunning, stopper, appended, disk>>

(* LogFile::rollFile removes the file and begins it again. *)
RollFile == file' = <<>> /\ torn' = FALSE /\ m_writtenBytes' = 0

(* AppendFile::append gives up after a write of nothing (the disk is       *)
(* full): k of the records are in the file, and all their bytes counted.   *)
FileAppend(b) ==
  /\ \E k \in 0 .. Len(b.data) :
       /\ file' = file \o SubSeq(b.data, 1, k)
       /\ torn' = (torn \/ k < Len(b.data))
  /\ m_writtenBytes' = m_writtenBytes + b.used

(* After an append the file has grown past m_roolSize. *)
Full(b) == m_writtenBytes + b.used > RollSize

(* output.append of one buffer. *)
WriteBuffer ==
  /\ pc = "write"
  /\ next <= Len(buffersToWrite)
  /\ LET b == buffersToWrite[next] IN
       /\ output' = output \o b.data
       /\ \/ ~Full(b) /\ FileAppend(b)
          \/ Full(b) /\ RollFile
  /\ next' = next + 1
  /\ UNCHANGED <<m_isRunning, front, backupBuffer1, backupBuffer2, buffersToWrite, pc,
                 stopper, appended>>

(* assert(remove(...) == 0), or assert(m_fp) of the new file, fails. *)
RollFails ==
  /\ pc = "write"
  /\ next <= Len(buffersToWrite)
  /\ LET b == buffersToWrite[next] IN
       /\ output' = output \o b.data
       /\ Full(b) /\ FileAppend(b)
  /\ next' = next + 1
  /\ pc' = "aborted"
  /\ UNCHANGED <<m_isRunning, front, backupBuffer1, backupBuffer2, buffersToWrite, stopper,
                 appended>>

(* resize(2) when there are more; backupBuffer1, then backupBuffer2, is    *)
(* taken from the end of what is left, which must not be empty.            *)
Kept == IF Len(buffersToWrite) > 2 THEN SubSeq(buffersToWrite, 1, 2) ELSE buffersToWrite

Needed == (IF backupBuffer1 = NULL THEN 1 ELSE 0) + (IF backupBuffer2 = NULL THEN 1 ELSE 0)

(* Mutant: the buffers are recycled with what they hold. *)
RecycleUnreset ==
  /\ pc = "write"
  /\ next > Len(buffersToWrite)
  /\ backupBuffer1' = IF backupBuffer1 = NULL THEN Kept[Len(Kept)] ELSE backupBuffer1
  /\ backupBuffer2' = IF backupBuffer2 = NULL THEN Kept[Len(Kept) + 1 - Needed] ELSE backupBuffer2
  /\ buffersToWrite' = <<>>
  /\ pc' = "while"
  /\ UNCHANGED <<m_isRunning, front, next, stopper, appended, disk>>

(* The recycled buffers are reset, the others deleted, the file flushed.   *)
Recycle ==
  /\ pc = "write"
  /\ next > Len(buffersToWrite)
  /\ IF Needed <= Len(Kept)
       THEN /\ backupBuffer1' = IF backupBuffer1 = NULL THEN NewBuffer ELSE backupBuffer1
            /\ backupBuffer2' = IF backupBuffer2 = NULL THEN NewBuffer ELSE backupBuffer2
            /\ buffersToWrite' = <<>>
            /\ pc' = "while"
       ELSE pc' = "aborted" /\ UNCHANGED <<backupBuffer1, backupBuffer2, buffersToWrite>>
  /\ UNCHANGED <<m_isRunning, front, next, stopper, appended, disk>>

Writer == Begin \/ While \/ Wait \/ Swap \/ WriteBuffer \/ RollFails \/ Recycle

Next ==
  /\ pc # "aborted"
  /\ \/ \E n \in Sizes : AppendRecord(n)
     \/ Start \/ Stop \/ Join
     \/ Writer

Safety == Init /\ [][Next]_vars

(* The writer's thread is scheduled, and its timed wait ends.  Nobody need *)
(* call start, stop or append.                                             *)
Spec == Safety /\ WF_vars(pc # "aborted" /\ (Writer \/ Join))

----------------------------------------------------------------------------
PCs == {"none", "started", "while", "lock", "waiting", "write", "done", "aborted"}

(* Types; m_currentBuffer is never NULL when the lock is free, so that     *)
(* append() may use it.                                                    *)
TypeOK ==
  /\ m_isRunning \in BOOLEAN
  /\ m_currentBuffer \in Buffers
  /\ m_nextBuffer \in Buffers \cup {NULL}
  /\ m_buffers \in Seq(Buffers)
  /\ backupBuffer1 \in Buffers \cup {NULL}
  /\ backupBuffer2 \in Buffers \cup {NULL}
  /\ buffersToWrite \in Seq(Buffers)
  /\ next \in Nat \ {0}
  /\ pc \in PCs
  /\ stopper \in {"idle", "started", "joining", "joined"}
  /\ file \in Seq(Records) /\ torn \in BOOLEAN /\ m_writtenBytes \in Nat
  /\ appended \in Seq(Records)
  /\ output \in Seq(Records)

(***************************************************************************)
(* The asserts of threadRoutine on its buffers, and the ASSERTs of         *)
(* ptr_vector: buffersToWrite is empty at the top of the loop, there is    *)
(* something to write after the swap, and after the writing there are      *)
(* enough buffers left to replace the ones the front end took.  (With them *)
(* the types, which say that append() always finds a buffer.)              *)
(***************************************************************************)
BufferAsserts ==
  /\ TypeOK
  /\ pc \in {"while", "lock", "waiting"} => buffersToWrite = <<>>
  /\ pc = "write" => buffersToWrite # <<>> /\ Needed <= Len(Kept)

(***************************************************************************)
(* Why they hold.  A spare buffer is missing in front only if append() has *)
(* pushed a full one since the last swap; the writer has both its spares   *)
(* whenever it takes the lock; after the swap it lacks the second only if  *)
(* it gave it to a front end that had pushed one.  start() finds no thread *)
(* yet.                                                                    *)
(***************************************************************************)
PoolInv ==
  /\ stopper = "idle" => pc = "none"
  /\ m_nextBuffer = NULL => m_buffers # <<>>
  /\ pc \in {"none", "started", "while", "lock", "waiting", "done"} => buffersToWrite = <<>>
  /\ pc \in {"while", "lock", "waiting"} => backupBuffer1 # NULL /\ backupBuffer2 # NULL
  /\ pc = "write" => Len(buffersToWrite) >= Needed /\ buffersToWrite # <<>>

(* Every record appended is in exactly one place, in the order of the      *)
(* appends: on its way through the file, in a buffer being written, in a   *)
(* full buffer or in the current one.  None is lost, written twice or      *)
(* overtaken while buffers change hands.  The log file holds the latest    *)
(* records written, without a gap, whenever it was rolled, unless the disk *)
(* has refused some since then.                                            *)
Data(bs) == FlattenSeq([i \in 1 .. Len(bs) |-> bs[i].data])

NoRecordLost ==
  /\ appended = output \o Data(SubSeq(buffersToWrite, next, Len(buffersToWrite)))
                       \o Data(m_buffers) \o m_currentBuffer.data
  /\ ~torn => IsSuffix(file, output)

(* A record appended is written, unless the log is stopped first or an     *)
(* assert on the file has failed.                                          *)
RecordsWritten ==
  \A n \in 1 .. MaxRecords :
    m_isRunning /\ Len(appended) >= n ~> Len(output) >= n \/ ~m_isRunning \/ pc = "aborted"

(* stop() returns: the writer leaves its wait and its loop.                *)
StopReturns == stopper = "joining" ~> stopper = "joined" \/ pc = "aborted"

=============================================================================
