------------------------ MODULE EventLoopThreadProofs ------------------------
(***************************************************************************)
(* Theorems about EventLoop and EventLoopThread, for any number of         *)
(* threads, functors and channels.  Of the loop:                           *)
(*   - TypeCorrect: the types, and the agreement of the flags with pc;     *)
(*   - WakeupSafe: a blocked loop is never left without a wakeup;          *)
(*   - QueueSafe: no functor is lost, duplicated or overtaken;             *)
(*   - LoopImplementsQueue: the safety part of the refinement of           *)
(*     FunctorQueue.                                                       *)
(* Of the thread that runs it:                                             *)
(*   - ThreadRunsLoop: an EventLoopThread takes only steps that EventLoop  *)
(*     allows, so that the theorems about the loop hold of it too;         *)
(*   - NoLostWakeupInThread: NoLostWakeup, as an instance of this;         *)
(*   - OwnerOutlives, FailuresOutsideLoop and StartLoopNeverNull, from the *)
(*     inductive invariant ELTInv.                                         *)
(***************************************************************************)
EXTENDS EventLoopThread, SequenceTheorems, TLAPS

----------------------------------------------------------------------------
(* Facts about sequences. *)

(* Pushing at the end of the second part pushes at the end of the whole.   *)
LEMMA AppendToConcat ==
  ASSUME NEW S, NEW s \in Seq(S), NEW t \in Seq(S), NEW e \in S
  PROVE  s \o Append(t, e) = Append(s \o t, e)
<1>1. <<e>> \in Seq(S)
  OBVIOUS
<1>2. s \o t \in Seq(S)
  BY ConcatProperties
<1>3. Append(t, e) = t \o <<e>> /\ Append(s \o t, e) = (s \o t) \o <<e>>
  BY <1>2, AppendIsConcat
<1>4. (s \o t) \o <<e>> = s \o (t \o <<e>>)
  BY <1>1, ConcatAssociative
<1> QED
  BY <1>3, <1>4

(* Taking the head off a concatenation whose first part is not empty.      *)
LEMMA HeadTailOfConcat ==
  ASSUME NEW S, NEW s \in Seq(S), NEW t \in Seq(S), s # <<>>
  PROVE  /\ s \o t # <<>>
         /\ Head(s \o t) = Head(s)
         /\ Tail(s \o t) = Tail(s) \o t
<1>1. s \o t \in Seq(S) /\ Len(s \o t) = Len(s) + Len(t)
  BY ConcatProperties
<1>2. Len(s) \in Nat \ {0} /\ Len(t) \in Nat
  BY EmptySeq, LenProperties
<1>3. s \o t # <<>>
  BY <1>1, <1>2, ConcatEqualIffEmpty
<1>4. Head(s \o t) = Head(s)
  BY <1>1, <1>2, ConcatProperties
<1>5. Tail(s) \in Seq(S) /\ Len(Tail(s)) = Len(s) - 1
      /\ \A i \in 1 .. Len(s) - 1 : Tail(s)[i] = s[i + 1]
  BY HeadTailProperties
<1>6. Tail(s \o t) \in Seq(S) /\ Len(Tail(s \o t)) = Len(s) + Len(t) - 1
      /\ \A i \in 1 .. Len(s) + Len(t) - 1 : Tail(s \o t)[i] = (s \o t)[i + 1]
  BY <1>1, <1>3, HeadTailProperties
<1>7. Tail(s) \o t \in Seq(S) /\ Len(Tail(s) \o t) = Len(s) - 1 + Len(t)
      /\ \A i \in 1 .. Len(s) - 1 + Len(t) :
           (Tail(s) \o t)[i] = IF i <= Len(s) - 1 THEN Tail(s)[i] ELSE t[i - (Len(s) - 1)]
  BY <1>5, ConcatProperties
<1>8. ASSUME NEW i \in 1 .. Len(s) + Len(t) - 1
      PROVE  Tail(s \o t)[i] = (Tail(s) \o t)[i]
  <2>1. i + 1 \in 1 .. Len(s) + Len(t)
    BY <1>2
  <2>2. (s \o t)[i + 1] = IF i + 1 <= Len(s) THEN s[i + 1] ELSE t[i + 1 - Len(s)]
    BY <2>1, ConcatProperties
  <2>3. CASE i + 1 <= Len(s)
    BY <2>2, <2>3, <1>2, <1>5, <1>6, <1>7
  <2>4. CASE ~(i + 1 <= Len(s))
    <3>1. i - (Len(s) - 1) = i + 1 - Len(s) /\ ~(i <= Len(s) - 1)
      BY <2>4, <1>2
    <3> QED
      BY <2>2, <2>4, <3>1, <1>2, <1>6, <1>7
  <2> QED
    BY <2>3, <2>4
<1>9. Tail(s \o t) = Tail(s) \o t
  BY <1>2, <1>6, <1>7, <1>8, SeqEqual
<1> QED
  BY <1>3, <1>4, <1>9

(* Moving the head of the second part to the end of the first.             *)
LEMMA MoveHead ==
  ASSUME NEW S, NEW s \in Seq(S), NEW t \in Seq(S), t # <<>>
  PROVE  Append(s, Head(t)) \o Tail(t) = s \o t
<1>1. Head(t) \in S /\ Tail(t) \in Seq(S)
  BY HeadTailProperties
<1>2. <<Head(t)>> \in Seq(S)
  BY <1>1
<1>3. Append(s, Head(t)) = s \o <<Head(t)>>
  BY <1>1, AppendIsConcat
<1>4. (s \o <<Head(t)>>) \o Tail(t) = s \o (<<Head(t)>> \o Tail(t))
  BY <1>1, <1>2, ConcatAssociative
<1>5. <<Head(t)>> \o Tail(t) = t
  BY <1>1, <1>2, EmptySeq, LenProperties, HeadTailProperties, ConcatProperties, SeqEqual
<1> QED
  BY <1>3, <1>4, <1>5

----------------------------------------------------------------------------
(* Types *)

USE DEF flags, history, AllThreads, InCallback, CanCall, PCs

(* The types and the flags of EventLoop are right in every state.          *)
THEOREM TypeCorrect == Safety => []TypeOK
<1>1. Init => TypeOK
  <2> SUFFICES ASSUME Init PROVE TypeOK
    OBVIOUS
  <2>1. m_looping \in BOOLEAN /\ m_callingPendingFunctors \in BOOLEAN
    BY Zenon DEF Init
  <2>2. /\ m_looping <=> pc \notin {"created", "exited"}
        /\ m_callingPendingFunctors <=> pc \in {"run", "functor"}
    BY DEF Init
  <2> QED
    BY <2>1, <2>2 DEF Init, TypeOK
<1>2. TypeOK /\ [Next]_vars => TypeOK'
  <2> SUFFICES ASSUME TypeOK, [Next]_vars PROVE TypeOK'
    OBVIOUS
  <2> USE DEF TypeOK
  <2>1. CASE Loop
    BY <2>1 DEF Loop
  <2>2. CASE EnterPoll
    BY <2>2 DEF EnterPoll
  <2>3. CASE LeaveLoop
    BY <2>3 DEF LeaveLoop
  <2>4. CASE HandleRead
    BY <2>4 DEF HandleRead
  <2>5. CASE HandleEvent
    BY <2>5 DEF HandleEvent
  <2>6. CASE DoPendingFunctors
    BY <2>6 DEF DoPendingFunctors
  <2>7. CASE RunFunctor
    <3>1. Head(functors) \in Functors /\ Tail(functors) \in Seq(Functors)
      BY <2>7, HeadTailProperties DEF RunFunctor
    <3>2. Append(ran, Head(functors)) \in Seq(Functors)
      BY <3>1, AppendProperties
    <3> QED
      BY <2>7, <3>1, <3>2 DEF RunFunctor
  <2>8. CASE CallbackReturns
    BY <2>8 DEF CallbackReturns
  <2>9. CASE PendingFunctorsDone
    BY <2>9 DEF PendingFunctorsDone
  <2>10. CASE Poll
    BY <2>10 DEF Poll
  <2>11. CASE PollInterrupted
    BY <2>11 DEF PollInterrupted
  <2>12. CASE \E f \in Functors : RunInLoop(f)
    BY <2>12 DEF RunInLoop
  <2>13. CASE \E t \in AllThreads : \E f \in Functors : QueueInLoop(t, f)
    <3> PICK t \in AllThreads, f \in Functors : QueueInLoop(t, f)
      BY <2>13
    <3>1. Append(m_pendingFunctors, f) \in Seq(Functors) /\ Append(queued, f) \in Seq(Functors)
      BY AppendProperties
    <3> QED
      BY <3>1 DEF QueueInLoop
  <2>14. CASE \E t \in AllThreads : Quit(t)
    BY <2>14 DEF Quit
  <2>15. CASE \E t \in AllThreads : Wakeup(t)
    BY <2>15 DEF Wakeup
  <2>16. CASE UNCHANGED vars
    BY <2>16 DEF vars
  <2> QED
    BY <2>1, <2>2, <2>3, <2>4, <2>5, <2>6, <2>7, <2>8, <2>9, <2>10, <2>11, <2>12, <2>13,
       <2>14, <2>15, <2>16 DEF Next, LoopStep, Call
<1> QED
  BY <1>1, <1>2, PTL DEF Safety

----------------------------------------------------------------------------
(* The wakeup protocol *)

(* WakeupInv is what a blocked loop needs to know.                         *)
LEMMA WakeupInvSuffices == TypeOK /\ WakeupInv => NoLostWakeup
BY LoopThreadAssumption DEF TypeOK, WakeupInv, NoLostWakeup, WakeupDue, MustBeWoken

(* NoLostWakeup holds in every state: the eventfd protocol of queueInLoop, *)
(* quit and handleRead never leaves a blocked loop with work and no wakeup.*)
THEOREM WakeupSafe == Safety => []NoLostWakeup
<1>1. Init => WakeupInv
  BY DEF Init, WakeupInv
<1>2. TypeOK /\ WakeupInv /\ [Next]_vars => WakeupInv'
  <2> SUFFICES ASSUME TypeOK, WakeupInv, [Next]_vars PROVE WakeupInv'
    OBVIOUS
  <2> USE LoopThreadAssumption DEF TypeOK, WakeupInv, WakeupDue, MustBeWoken
  <2>1. CASE Loop
    BY <2>1 DEF Loop
  <2>2. CASE EnterPoll
    BY <2>2 DEF EnterPoll
  <2>3. CASE LeaveLoop
    BY <2>3 DEF LeaveLoop
  <2>4. CASE HandleRead
    BY <2>4 DEF HandleRead
  <2>5. CASE HandleEvent
    BY <2>5 DEF HandleEvent
  <2>6. CASE DoPendingFunctors
    BY <2>6 DEF DoPendingFunctors
  <2>7. CASE RunFunctor
    BY <2>7 DEF RunFunctor
  <2>8. CASE CallbackReturns
    BY <2>8 DEF CallbackReturns
  <2>9. CASE PendingFunctorsDone
    BY <2>9 DEF PendingFunctorsDone
  <2>10. CASE Poll
    BY <2>10 DEF Poll
  <2>11. CASE PollInterrupted
    BY <2>11 DEF PollInterrupted
  <2>12. CASE \E f \in Functors : RunInLoop(f)
    BY <2>12 DEF RunInLoop
  <2>13. CASE \E t \in AllThreads : \E f \in Functors : QueueInLoop(t, f)
    BY <2>13 DEF QueueInLoop
  <2>14. CASE \E t \in AllThreads : Quit(t)
    BY <2>14 DEF Quit
  <2>15. CASE \E t \in AllThreads : Wakeup(t)
    BY <2>15 DEF Wakeup, NeedsWakeup
  <2>16. CASE UNCHANGED vars
    BY <2>16 DEF vars
  <2> QED
    BY <2>1, <2>2, <2>3, <2>4, <2>5, <2>6, <2>7, <2>8, <2>9, <2>10, <2>11, <2>12, <2>13,
       <2>14, <2>15, <2>16 DEF Next, LoopStep, Call
<1> QED
  BY <1>1, <1>2, TypeCorrect, WakeupInvSuffices, PTL DEF Safety

----------------------------------------------------------------------------
(* The queue *)

(* Steps that leave the functors where they are. *)
QueueUnchanged == UNCHANGED <<m_pendingFunctors, functors, queued, ran>>

(* The queue changes in three ways only: the swap, a call and a push.      *)
LEMMA QueueSteps ==
  ASSUME [Next]_vars
  PROVE  \/ QueueUnchanged
         \/ DoPendingFunctors
         \/ RunFunctor
         \/ \E t \in AllThreads : \E f \in Functors : QueueInLoop(t, f)
BY DEF QueueUnchanged, Next, LoopStep, Call, Loop, EnterPoll, LeaveLoop, HandleRead,
       HandleEvent, CallbackReturns, PendingFunctorsDone, Poll, PollInterrupted, RunInLoop,
       Quit, Wakeup, vars

(* The swap is made only when the previous batch has been run.             *)
BatchDone == pc \notin {"run", "functor"} => functors = <<>>

(* A batch is run to its end before the loop goes on: BatchDone holds.     *)
LEMMA BatchDoneCorrect == Safety => []BatchDone
<1>1. Init => BatchDone
  BY DEF Init, BatchDone
<1>2. TypeOK /\ BatchDone /\ [Next]_vars => BatchDone'
  BY DEF TypeOK, BatchDone, Next, LoopStep, Call, Loop, EnterPoll, LeaveLoop, HandleRead,
         HandleEvent, DoPendingFunctors, RunFunctor, CallbackReturns, PendingFunctorsDone,
         Poll, PollInterrupted, RunInLoop, QueueInLoop, Quit, Wakeup, vars
<1> QED
  BY <1>1, <1>2, TypeCorrect, PTL DEF Safety

(* QueueIntegrity holds in every state: queueInLoop and doPendingFunctors  *)
(* lose, repeat and reorder nothing.                                       *)
THEOREM QueueSafe == Safety => []QueueIntegrity
<1>1. Init => QueueIntegrity
  BY DEF Init, QueueIntegrity
<1>2. TypeOK /\ BatchDone /\ QueueIntegrity /\ [Next]_vars => QueueIntegrity'
  <2> SUFFICES ASSUME TypeOK, BatchDone, QueueIntegrity, [Next]_vars
               PROVE  QueueIntegrity'
    OBVIOUS
  <2>0. /\ ran \in Seq(Functors) /\ functors \in Seq(Functors)
        /\ m_pendingFunctors \in Seq(Functors) /\ queued \in Seq(Functors)
        /\ ran \o functors \in Seq(Functors)
    BY ConcatProperties DEF TypeOK
  <2>1. CASE QueueUnchanged
    BY <2>1 DEF QueueUnchanged, QueueIntegrity
  <2>2. CASE DoPendingFunctors
    <3>1. functors = <<>> /\ functors' = m_pendingFunctors /\ m_pendingFunctors' = <<>>
          /\ UNCHANGED <<ran, queued>>
      BY <2>2 DEF DoPendingFunctors, BatchDone
    <3>2. (ran \o functors) \o m_pendingFunctors = ran \o m_pendingFunctors
      BY <2>0, <3>1, ConcatEmptySeq
    <3>3. ran \o m_pendingFunctors \in Seq(Functors)
      BY <2>0, ConcatProperties
    <3>4. (ran \o m_pendingFunctors) \o <<>> = ran \o m_pendingFunctors
      BY <3>3, ConcatEmptySeq
    <3> QED
      BY <3>1, <3>2, <3>4 DEF QueueIntegrity
  <2>3. CASE RunFunctor
    <3>1. functors # <<>> /\ functors' = Tail(functors) /\ ran' = Append(ran, Head(functors))
          /\ UNCHANGED <<m_pendingFunctors, queued>>
      BY <2>3 DEF RunFunctor
    <3>2. Append(ran, Head(functors)) \o Tail(functors) = ran \o functors
      BY <2>0, <3>1, MoveHead
    <3> QED
      BY <3>1, <3>2 DEF QueueIntegrity
  <2>4. CASE \E t \in AllThreads : \E f \in Functors : QueueInLoop(t, f)
    <3> PICK t \in AllThreads, f \in Functors : QueueInLoop(t, f)
      BY <2>4
    <3>1. m_pendingFunctors' = Append(m_pendingFunctors, f) /\ queued' = Append(queued, f)
          /\ UNCHANGED <<ran, functors>>
      BY DEF QueueInLoop
    <3>2. (ran \o functors) \o Append(m_pendingFunctors, f)
            = Append((ran \o functors) \o m_pendingFunctors, f)
      BY <2>0, AppendToConcat
    <3> QED
      BY <3>1, <3>2 DEF QueueIntegrity
  <2> QED
    BY <2>1, <2>2, <2>3, <2>4, QueueSteps
<1> QED
  BY <1>1, <1>2, TypeCorrect, BatchDoneCorrect, PTL DEF Safety

----------------------------------------------------------------------------
(* Refinement *)

(* Every step of the loop is a step of FunctorQueue, or stutters there.    *)
THEOREM LoopImplementsQueue == Safety => Queue!FQSafety
<1>1. Init => Queue!FQInit
  <2> SUFFICES ASSUME Init PROVE Queue!FQInit
    OBVIOUS
  <2>1. functors \o m_pendingFunctors = <<>>
    BY ConcatEmptySeq, EmptySeq DEF Init
  <2> QED
    BY <2>1 DEF Init, Queue!FQInit
<1>2. TypeOK /\ BatchDone /\ [Next]_vars => [Queue!FQNext]_(Queue!fqVars)
  <2> SUFFICES ASSUME TypeOK, BatchDone, [Next]_vars
               PROVE  Queue!FQNext \/ UNCHANGED Queue!fqVars
    OBVIOUS
  <2> USE DEF Queue!fqVars
  <2>0. functors \in Seq(Functors) /\ m_pendingFunctors \in Seq(Functors)
    BY DEF TypeOK
  <2>1. CASE LeaveLoop
    BY <2>1 DEF LeaveLoop, Queue!Close, Queue!FQNext
  <2>2. CASE DoPendingFunctors
    <3>1. functors \o m_pendingFunctors = m_pendingFunctors
          /\ m_pendingFunctors \o <<>> = m_pendingFunctors
      BY <2>0, <2>2, ConcatEmptySeq DEF DoPendingFunctors, BatchDone
    <3> QED
      BY <2>2, <3>1 DEF DoPendingFunctors
  <2>3. CASE RunFunctor
    <3>1. functors # <<>> /\ functors' = Tail(functors) /\ ran' = Append(ran, Head(functors))
          /\ pc = "run" /\ pc' = "functor" /\ UNCHANGED m_pendingFunctors
      BY <2>3 DEF RunFunctor
    <3>2. /\ functors \o m_pendingFunctors # <<>>
          /\ Head(functors \o m_pendingFunctors) = Head(functors)
          /\ Tail(functors \o m_pendingFunctors) = Tail(functors) \o m_pendingFunctors
      BY <2>0, <3>1, HeadTailOfConcat
    <3> QED
      BY <3>1, <3>2 DEF Queue!RunNext, Queue!FQNext
  <2>4. CASE \E t \in AllThreads : \E f \in Functors : QueueInLoop(t, f)
    <3> PICK t \in AllThreads, f \in Functors : QueueInLoop(t, f)
      BY <2>4
    <3>1. functors \o Append(m_pendingFunctors, f) = Append(functors \o m_pendingFunctors, f)
      BY <2>0, AppendToConcat
    <3> QED
      BY <3>1 DEF QueueInLoop, Queue!Post, Queue!FQNext
  <2>5. CASE QueueUnchanged /\ (pc = "exited" <=> pc' = "exited")
    BY <2>5 DEF QueueUnchanged
  <2>6. QueueUnchanged => LeaveLoop \/ (pc = "exited" <=> pc' = "exited")
    BY DEF Next, LoopStep, Call, Loop, EnterPoll, HandleRead, HandleEvent,
           DoPendingFunctors, RunFunctor, CallbackReturns, PendingFunctorsDone, Poll,
           PollInterrupted, RunInLoop, QueueInLoop, Quit, Wakeup, vars
  <2> QED
    BY <2>1, <2>2, <2>3, <2>4, <2>5, <2>6, QueueSteps
<1> QED
  BY <1>1, <1>2, TypeCorrect, BatchDoneCorrect, PTL DEF Safety, Queue!FQSafety

HIDE DEF flags, history, AllThreads, InCallback, CanCall, PCs

----------------------------------------------------------------------------
(* The thread of the loop. *)

LEMMA StepRefinesLoop == [ELTNext]_allVars => [Next]_vars
<1> SUFFICES ASSUME ELTNext PROVE [Next]_vars
  BY DEF allVars
<1>1. CASE OwnerStep
  <2>1. Quit(Owner) => Next
    BY OwnerAssumption DEF Next, Call, AllThreads
  <2> QED
    BY <1>1, <2>1 DEF OwnerStep, StartLoop, StartLoopWaits, StartLoopLeavesWait,
       StartLoopReturns, Destruct, DestructQuits, DestructJoins
<1>2. CASE ThreadStep
  <2>1. Wakeup(LoopThread) => Next
    BY DEF Next, Call, AllThreads
  <2>2. LoopStep => Next
    BY DEF Next
  <2> QED
    BY <1>2, <2>1, <2>2 DEF ThreadStep, Publish, RunLoop, ThreadFuncLeaves, ThreadFuncReturns
<1>3. CASE LoopEnvironment
  BY <1>3 DEF LoopEnvironment, ThreadPoll, Next, Call, AllThreads
<1>4. ASSUME NEW t \in Threads, UserStep(t) PROVE [Next]_vars
  <2>1. t \in AllThreads /\ (Call(t) => Next)
    BY DEF Next, AllThreads
  <2> QED
    BY <1>4, <2>1 DEF UserStep, Queues, Quits, Wakes, Call
<1> QED
  BY <1>1, <1>2, <1>3, <1>4 DEF ELTNext

(* threadFunc runs the loop as EventLoop describes it: whatever the owner, *)
(* the users and the destructor do, the loop sees only its own calls.      *)
THEOREM ThreadRunsLoop == ELTSafety => Safety
<1>1. ELTInit => Init
  BY DEF ELTInit
<1> QED
  BY <1>1, StepRefinesLoop, PTL DEF ELTSafety, Safety

(* The loop of an EventLoopThread is never left in poll(-1) with functors  *)
(* pending, or with the destructor's quit(), and no wakeup under way.      *)
THEOREM NoLostWakeupInThread == ELTSafety => []NoLostWakeup
BY ThreadRunsLoop, WakeupSafe, PTL

----------------------------------------------------------------------------
(* Until startLoop has returned nobody knows the loop: it has nothing to   *)
(* run and is not told to quit, so threadFunc cannot have come to its end. *)
Unshared == owner \in {"constructed", "testing", "waiting", "unlocked"}

Quiet ==
  /\ pc \in {"created", "while", "poll", "dispatch", "run"}
  /\ pc # "created" => m_quit = FALSE
  /\ ran = <<>> /\ functors = <<>> /\ m_pendingFunctors = <<>>
  /\ wakers = {}
  /\ m_activeChannels \subseteq {WakeupChannel}

(* The inductive invariant. *)
ELTInv ==
  /\ ELTTypeOK
  /\ owner = "constructed" => thread = "notStarted"
  /\ owner \in {"unlocked", "using", "quit", "quitting", "joining"} =>
       thread \in {"published", "left", "finished"}
  /\ thread \in {"notStarted", "started"} => pc = "created"
  /\ thread \in {"left", "finished"} => pc = "exited"
  /\ pc = "created" => ran = <<>>
  /\ pc = "exited" => m_quit = TRUE
  /\ Unshared => Quiet
  /\ owner # "gotNull"
  /\ ThreadOutlivedByOwner
  /\ FailsOnlyOutsideLoop

LEMMA ELTInitInv == ASSUME ELTInit, TypeOK PROVE ELTInv
BY DEF ELTInit, Init, ELTInv, ELTTypeOK, OwnerPCs, Unshared, Quiet, ThreadOutlivedByOwner,
   FailsOnlyOutsideLoop, Alive

(* What a step of the loop, or a call on it, may do to pc, ran and m_quit. *)
LEMMA LoopSteps ==
  ASSUME TypeOK, [Next]_vars
  PROVE  /\ pc = "exited" => pc' = "exited" /\ m_quit' = m_quit
         /\ pc' = "created" => pc = "created" /\ ran' = ran
         /\ pc' = "exited" /\ pc # "exited" => m_quit = TRUE /\ m_quit' = m_quit
BY DEF TypeOK, PCs, InCallback, Next, LoopStep, Call, Loop, EnterPoll, LeaveLoop, HandleRead, HandleEvent,
       DoPendingFunctors, RunFunctor, CallbackReturns, PendingFunctorsDone, Poll,
       PollInterrupted, RunInLoop, QueueInLoop, Quit, Wakeup, vars, flags, history

(* Alone, the loop stays quiet. *)
LEMMA LoopStaysQuiet ==
  ASSUME TypeOK, Quiet, RunLoop \/ LoopEnvironment
  PROVE  Quiet'
<1> USE DEF Quiet, TypeOK
<1>1. CASE LoopStep
  BY <1>1 DEF LoopStep, Loop, EnterPoll, LeaveLoop, HandleRead, HandleEvent,
     DoPendingFunctors, RunFunctor, CallbackReturns, PendingFunctorsDone, InCallback, flags, history
<1>2. CASE LoopEnvironment
  BY <1>2 DEF LoopEnvironment, ThreadPoll, Poll, PollInterrupted, RunInLoop, QueueInLoop, Quit,
     CanCall, InCallback, flags, history
<1>3. ~Wakeup(LoopThread)
  BY DEF Wakeup
<1> QED
  BY <1>1, <1>2, <1>3 DEF RunLoop

LEMMA ELTStepInv == ASSUME ELTInv, [ELTNext]_allVars, TypeOK' PROVE ELTInv'
<1> USE DEF ELTInv
<1>0. TypeOK /\ [Next]_vars
  BY StepRefinesLoop DEF ELTTypeOK
<1>1. CASE UNCHANGED allVars
  BY <1>1 DEF ELTTypeOK, Unshared, Quiet, ThreadOutlivedByOwner, FailsOnlyOutsideLoop, Alive,
     allVars, eltVars, vars
<1>2. CASE Alive /\ OwnerStep
  <2> USE DEF ELTTypeOK, OwnerPCs, Unshared, Quiet, ThreadOutlivedByOwner, FailsOnlyOutsideLoop,
              Alive
  <2>1. CASE StartLoop \/ StartLoopWaits \/ StartLoopLeavesWait
    BY <1>2, <2>1 DEF StartLoop, StartLoopWaits, StartLoopLeavesWait, vars
  <2>2. CASE StartLoopReturns
    BY <1>2, <2>2 DEF StartLoopReturns, vars
  <2>3. CASE Destruct
    BY <1>2, <2>3 DEF Destruct, vars
  <2>4. CASE DestructQuits /\ QuitFails
    <3>1. pc \in {"created", "exited"}
      BY <2>4 DEF DestructQuits, QuitFails, LoopDestroyed, TypeOK
    <3>2. UNCHANGED <<vars, p_loop, thread>> /\ owner' \in {"undefined", "aborted"}
      BY <2>4 DEF DestructQuits, FailedQuit
    <3> QED
      BY <3>1, <3>2 DEF vars
  <2>5. CASE DestructQuits /\ ~QuitFails
    <3>1. /\ UNCHANGED <<p_loop, thread, pc, ran>>
          /\ owner = "quit" /\ owner' = "quitting" /\ m_quit' = TRUE
      BY <2>5 DEF DestructQuits, Quit, history
    <3> QED
      BY <3>1
  <2>6. CASE DestructJoins
    BY <1>2, <2>6 DEF DestructJoins, vars
  <2> QED
    BY <1>2, <2>1, <2>2, <2>3, <2>4, <2>5, <2>6 DEF OwnerStep
<1>3. CASE Alive /\ (RunLoop \/ LoopEnvironment)
  <2>1. Unshared' => Quiet'
    BY <1>0, <1>3, LoopStaysQuiet DEF Unshared, RunLoop, LoopEnvironment, eltVars
  <2>2. UNCHANGED <<p_loop, owner, thread>> /\ thread = "published"
    BY <1>3 DEF RunLoop, LoopEnvironment, eltVars
  <2>3. /\ pc' = "created" => ran' = <<>>
        /\ pc' = "exited" => m_quit' = TRUE
    BY <1>0, LoopSteps
  <2> QED
    BY <1>3, <2>1, <2>2, <2>3 DEF ELTTypeOK, ThreadOutlivedByOwner, FailsOnlyOutsideLoop, Alive
<1>4. CASE Alive /\ (Publish \/ ThreadFuncLeaves \/ ThreadFuncReturns)
  <2> USE DEF ELTTypeOK, OwnerPCs, Unshared, Quiet, ThreadOutlivedByOwner, FailsOnlyOutsideLoop,
              Alive
  <2>1. CASE Publish
    BY <1>4, <2>1 DEF Publish, vars
  <2>2. CASE ThreadFuncLeaves
    BY <1>4, <2>2 DEF ThreadFuncLeaves, vars
  <2>3. CASE ThreadFuncReturns
    BY <1>4, <2>3 DEF ThreadFuncReturns, vars
  <2> QED
    BY <1>4, <2>1, <2>2, <2>3
<1>5. ASSUME Alive, NEW t \in Threads, UserStep(t) PROVE ELTInv'
  <2> USE DEF ELTTypeOK, OwnerPCs, Unshared, ThreadOutlivedByOwner, FailsOnlyOutsideLoop, Alive
  <2>0. /\ UNCHANGED <<p_loop, thread>>
        /\ owner' \in {owner, "joining", "undefined", "aborted"}
        /\ owner' = "joining" => owner \in {"joining", "quitting"}
    BY <1>5 DEF UserStep, Queues, Quits, Wakes, Shared, FailedQuit, eltVars
  <2>1. ~Unshared
    BY <1>5 DEF UserStep, Queues, Quits, Wakes, Shared, Quiet
  <2>2. /\ pc' = "created" => ran' = <<>> /\ pc = "created"
        /\ pc' = "exited" => m_quit' = TRUE
        /\ pc = "exited" => pc' = "exited"
    BY <1>0, LoopSteps
  <2>3. pc' \in {"created", "exited"} \/ owner' \in {owner, "joining"}
    <3>1. CASE Quits(t)
      BY <3>1 DEF Quits, QuitFails, LoopDestroyed, TypeOK, vars
    <3>2. CASE Wakes(t)
      BY <3>2 DEF Wakes, LoopDestroyed, vars
    <3> QED
      BY <1>5, <3>1, <3>2 DEF UserStep, Queues, eltVars
  <2>4. pc = "created" <=> pc' = "created"
    BY <1>5 DEF UserStep, Queues, Quits, Wakes, QueueInLoop, Quit, Wakeup, vars
  <2> QED
    BY <1>5, <2>0, <2>1, <2>2, <2>3, <2>4
<1> QED
  BY <1>1, <1>2, <1>3, <1>4, <1>5 DEF ELTNext, ThreadStep

LEMMA ELTInvCorrect == ELTSafety => []ELTInv
<1>1. ELTInit /\ TypeOK => ELTInv
  BY ELTInitInv
<1>2. ELTInv /\ [ELTNext]_allVars /\ TypeOK' => ELTInv'
  BY ELTStepInv
<1>3. ELTSafety => []TypeOK
  BY ThreadRunsLoop, TypeCorrect, PTL
<1> QED
  BY <1>1, <1>2, <1>3, PTL DEF ELTSafety

(* The thread's last use of the members, p_loop = NULL, is over when the   *)
(* EventLoopThread has been destroyed.                                     *)
THEOREM OwnerOutlives == ELTSafety => []ThreadOutlivedByOwner
BY ELTInvCorrect, PTL DEF ELTInv

(* assert(m_looping) and the writes to the eventfd fail only before loop() *)
(* is entered, or after a quit() has made it return.                       *)
THEOREM FailuresOutsideLoop == ELTSafety => []FailsOnlyOutsideLoop
BY ELTInvCorrect, PTL DEF ELTInv

(* startLoop's unlocked `return p_loop` never reads the NULL that          *)
(* threadFunc stores when loop() returns: the safety part of               *)
(* StartLoopGivesLoop.                                                     *)
THEOREM StartLoopNeverNull == ELTSafety => [](owner # "gotNull")
BY ELTInvCorrect, PTL DEF ELTInv

=============================================================================
