------------------------------ MODULE EventLoop ------------------------------
(***************************************************************************)
(* The reactor of src/Reactor/EventLoop.{h,cpp}: one loop, the thread that *)
(* created it and runs loop(), and the other threads that hand it functors *)
(* with queueInLoop / runInLoop or stop it with quit().                    *)
(*                                                                         *)
(* Granularity.  A section under m_mutex is one step.  queueInLoop is two  *)
(* steps (the push under the lock, then the test and the wakeup()), and so *)
(* is quit() (m_quit = true, then the wakeup()): every interleaving of the *)
(* loop with a thread that stands between the two is explored.  The body   *)
(* of a callback is the steps the loop thread takes while pc is "handler"  *)
(* or "functor"; it may call back into the loop any number of times.       *)
(*                                                                         *)
(* The epoll set is abstracted to the set of channels that poll() reports: *)
(* the wakeup channel exactly when the eventfd counter is positive         *)
(* (level-triggered), and any set of the other channels.                   *)
(***************************************************************************)
EXTENDS Naturals, Sequences

CONSTANTS
  LoopThread,  \* the thread whose id is m_threadId
  Threads,     \* the other threads that hold a pointer to the loop
  Functors,    \* the callables handed to the loop; each one is handed in once
  Channels     \* the registered channels, besides p_wakeupChannel

ASSUME LoopThreadAssumption == LoopThread \notin Threads

WakeupChannel == "m_wakeupFd"

ASSUME ChannelsAssumption == WakeupChannel \notin Channels

VARIABLES
  m_looping,
  m_quit,
  m_callingPendingFunctors,
  m_pendingFunctors,   \* guarded by m_mutex
  functors,            \* the local vector of doPendingFunctors, still to run
  m_wakeupFd,          \* the counter of the eventfd
  m_activeChannels,    \* reported by poll and not yet handled
  pc,                  \* where the loop thread is
  wakers,              \* threads between the two steps of queueInLoop or quit
  posted,              \* history: functors handed to the loop
  queued,              \* history: functors pushed, in the order of the pushes
  ran                  \* history: queued functors called, in that order

flags    == <<m_looping, m_quit, m_callingPendingFunctors>>
history  == <<posted, queued, ran>>
vars == <<m_looping, m_quit, m_callingPendingFunctors, m_pendingFunctors, functors,
          m_wakeupFd, m_activeChannels, pc, wakers, posted, queued, ran>>

AllThreads == Threads \cup {LoopThread}

(* The loop thread is inside a callback, hence inside user code. *)
InCallback == pc \in {"handler", "functor"}

(* Thread t can make a call on the loop now. *)
CanCall(t) == t \notin wakers /\ (t = LoopThread => InCallback)

----------------------------------------------------------------------------
(* The constructor registers the wakeup channel and leaves m_quit unset.   *)
Init ==
  /\ m_looping = FALSE
  /\ m_quit \in BOOLEAN
  /\ m_callingPendingFunctors = FALSE
  /\ m_pendingFunctors = <<>>
  /\ functors = <<>>
  /\ m_wakeupFd = 0
  /\ m_activeChannels = {}
  /\ pc = "created"
  /\ wakers = {}
  /\ posted = {}
  /\ queued = <<>>
  /\ ran = <<>>

(* Mutant: the flag that quit() asserts is not set. *)
LoopUnannounced ==
  /\ pc = "created"
  /\ m_quit' = FALSE
  /\ pc' = "while"
  /\ UNCHANGED <<m_looping, m_callingPendingFunctors, m_pendingFunctors, functors, m_wakeupFd,
                 m_activeChannels, wakers, history>>

(* loop() is entered. *)
Loop ==
  /\ pc = "created"
  /\ m_quit' = FALSE
  /\ m_looping' = TRUE
  /\ pc' = "while"
  /\ UNCHANGED <<m_callingPendingFunctors, m_pendingFunctors, functors, m_wakeupFd,
                 m_activeChannels, wakers, history>>

(* while (!m_quit): one more round, or loop() returns. *)
EnterPoll ==
  /\ pc = "while"
  /\ ~m_quit
  /\ m_activeChannels' = {}
  /\ pc' = "poll"
  /\ UNCHANGED <<flags, m_pendingFunctors, functors, m_wakeupFd, wakers, history>>

LeaveLoop ==
  /\ pc = "while"
  /\ m_quit
  /\ m_looping' = FALSE
  /\ pc' = "exited"
  /\ UNCHANGED <<m_quit, m_callingPendingFunctors, m_pendingFunctors, functors,
                 m_wakeupFd, m_activeChannels, wakers, history>>

(* m_poller->poll(-1, ...) returns with what is ready. *)
Poll ==
  /\ pc = "poll"
  /\ \E ready \in SUBSET Channels :
       m_activeChannels' = ready \cup (IF m_wakeupFd > 0 THEN {WakeupChannel} ELSE {})
  /\ m_activeChannels' # {}
  /\ pc' = "dispatch"
  /\ UNCHANGED <<flags, m_pendingFunctors, functors, m_wakeupFd, wakers, history>>

(* epoll_wait fails with EINTR: the error is logged, the round goes on.    *)
PollInterrupted ==
  /\ pc = "poll"
  /\ m_activeChannels' = {}
  /\ pc' = "dispatch"
  /\ UNCHANGED <<flags, m_pendingFunctors, functors, m_wakeupFd, wakers, history>>

(* handleRead of the wakeup channel: read() takes the whole counter.       *)
HandleRead ==
  /\ pc = "dispatch"
  /\ WakeupChannel \in m_activeChannels
  /\ m_activeChannels' = m_activeChannels \ {WakeupChannel}
  /\ m_wakeupFd' = 0
  /\ UNCHANGED <<flags, m_pendingFunctors, functors, pc, wakers, history>>

(* handleEvent of another channel: its callback starts.                    *)
HandleEvent ==
  /\ pc = "dispatch"
  /\ \E c \in m_activeChannels \ {WakeupChannel} :
       m_activeChannels' = m_activeChannels \ {c}
  /\ pc' = "handler"
  /\ UNCHANGED <<flags, m_pendingFunctors, functors, m_wakeupFd, wakers, history>>

(* Mutant: the functors are copied, not swapped, out of the member.        *)
DoPendingFunctorsByCopy ==
  /\ pc = "dispatch"
  /\ m_activeChannels = {}
  /\ m_callingPendingFunctors' = TRUE
  /\ functors' = m_pendingFunctors
  /\ pc' = "run"
  /\ UNCHANGED <<m_looping, m_quit, m_pendingFunctors, m_wakeupFd, m_activeChannels, wakers,
                 history>>

(* doPendingFunctors up to the end of its critical section.                *)
DoPendingFunctors ==
  /\ pc = "dispatch"
  /\ m_activeChannels = {}
  /\ m_callingPendingFunctors' = TRUE
  /\ functors' = m_pendingFunctors
  /\ m_pendingFunctors' = <<>>
  /\ pc' = "run"
  /\ UNCHANGED <<m_looping, m_quit, m_wakeupFd, m_activeChannels, wakers, history>>

(* Mutant: the newest functor of the batch is called first. *)
RunLastFunctor ==
  /\ pc = "run"
  /\ functors # <<>>
  /\ functors' = SubSeq(functors, 1, Len(functors) - 1)
  /\ ran' = Append(ran, functors[Len(functors)])
  /\ pc' = "functor"
  /\ UNCHANGED <<flags, m_pendingFunctors, m_wakeupFd, m_activeChannels, wakers, posted,
                 queued>>

(* functors[i]() is called ... *)
RunFunctor ==
  /\ pc = "run"
  /\ functors # <<>>
  /\ functors' = Tail(functors)
  /\ ran' = Append(ran, Head(functors))
  /\ pc' = "functor"
  /\ UNCHANGED <<flags, m_pendingFunctors, m_wakeupFd, m_activeChannels, wakers, posted,
                 queued>>

(* ... and, like the callback of a channel, it returns.                    *)
CallbackReturns ==
  /\ InCallback
  /\ LoopThread \notin wakers
  /\ pc' = IF pc = "handler" THEN "dispatch" ELSE "run"
  /\ UNCHANGED <<flags, m_pendingFunctors, functors, m_wakeupFd, m_activeChannels, wakers,
                 history>>

(* Mutant: the flag m_callingPendingFunctors is never reset. *)
PendingFunctorsKeepFlag ==
  /\ pc = "run"
  /\ functors = <<>>
  /\ pc' = "while"
  /\ UNCHANGED <<flags, m_pendingFunctors, functors, m_wakeupFd, m_activeChannels, wakers,
                 history>>

(* The batch has been run: back to while (!m_quit).                        *)
PendingFunctorsDone ==
  /\ pc = "run"
  /\ functors = <<>>
  /\ m_callingPendingFunctors' = FALSE
  /\ pc' = "while"
  /\ UNCHANGED <<m_looping, m_quit, m_pendingFunctors, functors, m_wakeupFd,
                 m_activeChannels, wakers, history>>

----------------------------------------------------------------------------
(* queueInLoop, and runInLoop when it is called by another thread: the     *)
(* push under m_mutex.                                                     *)
QueueInLoop(t, f) ==
  /\ CanCall(t)
  /\ f \notin posted
  /\ m_pendingFunctors' = Append(m_pendingFunctors, f)
  /\ queued' = Append(queued, f)
  /\ posted' = posted \cup {f}
  /\ wakers' = wakers \cup {t}
  /\ UNCHANGED <<flags, functors, m_wakeupFd, m_activeChannels, pc, ran>>

(* runInLoop called by the loop thread: cb() is called at once, and what it *)
(* does is part of the callback that is running.                           *)
RunInLoop(f) ==
  /\ CanCall(LoopThread)
  /\ f \notin posted
  /\ posted' = posted \cup {f}
  /\ UNCHANGED <<flags, m_pendingFunctors, functors, m_wakeupFd, m_activeChannels, pc,
                 wakers, queued, ran>>

(* Mutant: the loop thread never wakes itself up. *)
WakesOnlyForOthers(t) == t # LoopThread

(* The condition under which queueInLoop calls wakeup(); quit() calls it   *)
(* when t is another thread, and there the two coincide.                   *)
NeedsWakeup(t) == t # LoopThread \/ m_callingPendingFunctors

(* The second step of queueInLoop and of quit.                             *)
Wakeup(t) ==
  /\ t \in wakers
  /\ wakers' = wakers \ {t}
  /\ m_wakeupFd' = IF NeedsWakeup(t) THEN m_wakeupFd + 1 ELSE m_wakeupFd
  /\ UNCHANGED <<flags, m_pendingFunctors, functors, m_activeChannels, pc, history>>

(* Mutant: quit() does not wake the loop. *)
QuitSilently(t) ==
  /\ CanCall(t)
  /\ m_looping
  /\ m_quit' = TRUE
  /\ UNCHANGED <<m_looping, m_callingPendingFunctors, m_pendingFunctors, functors,
                 m_wakeupFd, m_activeChannels, pc, wakers, history>>

(* quit() where assert(m_looping) holds; it may be called again.           *)
Quit(t) ==
  /\ CanCall(t)
  /\ m_looping
  /\ m_quit' = TRUE
  /\ wakers' = IF t = LoopThread THEN wakers ELSE wakers \cup {t}
  /\ UNCHANGED <<m_looping, m_callingPendingFunctors, m_pendingFunctors, functors,
                 m_wakeupFd, m_activeChannels, pc, history>>

----------------------------------------------------------------------------
(* Steps the loop thread takes by itself. *)
LoopStep ==
  \/ Loop \/ EnterPoll \/ LeaveLoop \/ HandleRead \/ HandleEvent
  \/ DoPendingFunctors \/ RunFunctor \/ CallbackReturns \/ PendingFunctorsDone

(* Calls on the loop, by other threads and by callbacks. *)
Call(t) ==
  \/ \E f \in Functors : QueueInLoop(t, f)
  \/ Quit(t)
  \/ Wakeup(t)

Next ==
  \/ LoopStep
  \/ Poll
  \/ PollInterrupted
  \/ \E f \in Functors : RunInLoop(f)
  \/ \E t \in AllThreads : Call(t)

Safety == Init /\ [][Next]_vars

----------------------------------------------------------------------------
PCs == {"created", "while", "poll", "dispatch", "handler", "run", "functor", "exited"}

(* Types, and the flags of the loop agree with where its thread is: a flag *)
(* left set would make every later queueInLoop raise the eventfd.          *)
TypeOK ==
  /\ m_looping \in BOOLEAN
  /\ m_quit \in BOOLEAN
  /\ m_callingPendingFunctors \in BOOLEAN
  /\ m_pendingFunctors \in Seq(Functors)
  /\ functors \in Seq(Functors)
  /\ m_wakeupFd \in Nat
  /\ m_activeChannels \subseteq Channels \cup {WakeupChannel}
  /\ pc \in PCs
  /\ wakers \subseteq AllThreads
  /\ posted \subseteq Functors
  /\ queued \in Seq(Functors)
  /\ ran \in Seq(Functors)
  /\ m_looping <=> pc \notin {"created", "exited"}
  /\ m_callingPendingFunctors <=> pc \in {"run", "functor"}
  /\ LoopThread \in wakers => InCallback

(***************************************************************************)
(* queueInLoop against doPendingFunctors: the functors that were pushed    *)
(* are those run, those of the current batch and those still pending, in   *)
(* this order.  None is lost, run twice or overtaken, whatever the         *)
(* interleaving of the pushes with the swap.                               *)
(***************************************************************************)
QueueIntegrity == queued = ran \o functors \o m_pendingFunctors

(***************************************************************************)
(* The wakeup protocol: a loop blocked in poll(-1) while work is pending,  *)
(* or while it has been told to quit, has its eventfd raised, or a thread  *)
(* stands before the wakeup() that raises it.                              *)
(***************************************************************************)
NoLostWakeup ==
  pc = "poll" /\ (m_pendingFunctors # <<>> \/ m_quit) =>
    \/ m_wakeupFd > 0
    \/ wakers \ {LoopThread} # {}

(***************************************************************************)
(* The inductive form of NoLostWakeup.  Work that is pending outside the   *)
(* dispatch of a round is work the next poll must be woken for.  During    *)
(* the dispatch nothing is claimed: callbacks push without a wakeup, and   *)
(* the wakeup is read away; the swap that ends it takes both.              *)
(***************************************************************************)
MustBeWoken == {"created", "while", "poll", "run", "functor"}

WakeupDue(t) == t \in wakers /\ (t = LoopThread => m_callingPendingFunctors)

WakeupInv ==
  /\ pc \in MustBeWoken /\ m_pendingFunctors # <<>> =>
       m_wakeupFd > 0 \/ \E t \in AllThreads : WakeupDue(t)
  /\ pc = "poll" /\ m_quit => m_wakeupFd > 0 \/ \E t \in Threads : t \in wakers

(* EventLoop implements FunctorQueue; the queue is the batch being run     *)
(* followed by m_pendingFunctors.                                          *)
Queue == INSTANCE FunctorQueue WITH
           queue <- functors \o m_pendingFunctors,
           closed <- (pc = "exited")

=============================================================================
