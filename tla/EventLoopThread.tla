--------------------------- MODULE EventLoopThread ---------------------------
(***************************************************************************)
(* src/Reactor/EventLoopThread.{h,cpp}: the thread that owns an            *)
(* EventLoopThread starts it, uses the loop it returns and destroys it;    *)
(* the thread it starts creates an EventLoop on its stack, publishes its   *)
(* address and runs it.  The loop itself is EventLoop.tla: LoopThread is   *)
(* the thread of threadFunc, Owner one of the other threads; the rest of   *)
(* them have the loop's address from the owner and use it meanwhile.       *)
(*                                                                         *)
(* The asserts are compiled in.  A failed assert ends the process          *)
(* ("aborted"); touching the EventLoop after threadFunc has returned, when *)
(* its stack frame is gone, is undefined behaviour ("undefined").  Nothing *)
(* is said of what follows either.                                         *)
(***************************************************************************)
EXTENDS EventLoop

CONSTANT Owner

ASSUME OwnerAssumption == Owner \in Threads

VARIABLES
  p_loop,  \* p_loop # NULL
  owner,   \* where the owner is
  thread   \* where the thread of threadFunc is

eltVars == <<p_loop, owner, thread>>
allVars == <<vars, eltVars>>

(* The process is still running. *)
Alive == owner \notin {"aborted", "undefined"}

(* The EventLoop on the stack of threadFunc is gone. *)
LoopDestroyed == thread = "finished"

ELTInit ==
  /\ Init
  /\ p_loop = FALSE
  /\ owner = "constructed"
  /\ thread = "notStarted"

----------------------------------------------------------------------------
(* The owner *)

(* startLoop: m_thread.start(), then the lock is taken. *)
StartLoop ==
  /\ owner = "constructed"
  /\ thread' = "started"
  /\ owner' = "testing"
  /\ UNCHANGED <<vars, p_loop>>

(* while (p_loop == NULL) m_cond.wait(lock): the test, under m_mutex. *)
StartLoopWaits ==
  /\ owner = "testing"
  /\ ~p_loop
  /\ owner' = "waiting"
  /\ UNCHANGED <<vars, p_loop, thread>>

StartLoopLeavesWait ==
  /\ owner = "testing"
  /\ p_loop
  /\ owner' = "unlocked"
  /\ UNCHANGED <<vars, p_loop, thread>>

(* return p_loop, read again without the lock. *)
StartLoopReturns ==
  /\ owner = "unlocked"
  /\ owner' = IF p_loop THEN "using" ELSE "gotNull"
  /\ UNCHANGED <<vars, p_loop, thread>>

(* The address has been handed out, and nobody has been told that the loop *)
(* is gone.                                                                *)
Shared == owner = "using" /\ p_loop

(* The owner or another thread hands work to the loop. *)
Queues(t) ==
  /\ Shared
  /\ \E f \in Functors : QueueInLoop(t, f)
  /\ UNCHANGED eltVars

(* p_loop->quit() up to m_quit = true: it fails where there is no loop, or *)
(* assert(m_looping) does not hold.                                        *)
QuitFails == ~p_loop \/ LoopDestroyed \/ ~m_looping
FailedQuit == IF ~p_loop \/ LoopDestroyed THEN "undefined" ELSE "aborted"

(* Another thread stops the loop; a bound: unless somebody has done so. *)
Quits(t) ==
  /\ Shared
  /\ t # Owner
  /\ t \notin wakers
  /\ m_quit => pc = "created"
  /\ IF QuitFails
       THEN owner' = FailedQuit /\ UNCHANGED vars
       ELSE Quit(t) /\ UNCHANGED owner
  /\ UNCHANGED <<p_loop, thread>>

(* ~EventLoopThread: if (p_loop != NULL), read without the lock.  No other *)
(* thread is inside a call by then.                                        *)
Destruct ==
  /\ owner \in {"constructed", "using"}
  /\ wakers \cap Threads = {}
  /\ owner' = IF p_loop THEN "quit" ELSE "destroyed"
  /\ UNCHANGED <<vars, p_loop, thread>>

(* Mutant: the destructor's quit() does not wake the loop. *)
DestructQuitsSilently ==
  /\ owner = "quit"
  /\ IF QuitFails
       THEN owner' = FailedQuit /\ UNCHANGED vars
       ELSE QuitSilently(Owner) /\ owner' = "joining"
  /\ UNCHANGED <<p_loop, thread>>

DestructQuits ==
  /\ owner = "quit"
  /\ IF QuitFails
       THEN owner' = FailedQuit /\ UNCHANGED vars
       ELSE Quit(Owner) /\ owner' = "quitting"
  /\ UNCHANGED <<p_loop, thread>>

(* wakeup() of a call that t made on the loop, queueInLoop or quit. *)
Wakes(t) ==
  /\ t \in wakers
  /\ IF LoopDestroyed
       THEN owner' = "undefined" /\ UNCHANGED vars
       ELSE /\ Wakeup(t)
            /\ owner' = IF t = Owner /\ owner = "quitting" THEN "joining" ELSE owner
  /\ UNCHANGED <<p_loop, thread>>

(* Mutant: the destructor does not wait for the thread. *)
DestructDetaches ==
  /\ owner = "joining"
  /\ owner' = "destroyed"
  /\ UNCHANGED <<vars, p_loop, thread>>

(* m_thread.join(). *)
DestructJoins ==
  /\ owner = "joining"
  /\ thread = "finished"
  /\ owner' = "destroyed"
  /\ UNCHANGED <<vars, p_loop, thread>>

OwnerStep ==
  \/ StartLoop \/ StartLoopWaits \/ StartLoopLeavesWait \/ StartLoopReturns
  \/ Destruct \/ DestructQuits \/ DestructJoins

(* Calls on the loop by the threads that were given its address. *)
UserStep(t) == Queues(t) \/ Quits(t) \/ Wakes(t)

----------------------------------------------------------------------------
(* The thread *)

(* Mutant: the address is published without a notify. *)
PublishSilently ==
  /\ thread = "started"
  /\ p_loop' = TRUE
  /\ thread' = "published"
  /\ UNCHANGED <<vars, owner>>

(* threadFunc up to the end of its critical section: notify() makes a      *)
(* waiting owner test again.                                               *)
Publish ==
  /\ thread = "started"
  /\ p_loop' = TRUE
  /\ thread' = "published"
  /\ owner' = IF owner = "waiting" THEN "testing" ELSE owner
  /\ UNCHANGED vars

(* loop.loop(): a step of EventLoop. *)
RunLoop ==
  /\ thread = "published"
  /\ LoopStep \/ Wakeup(LoopThread)
  /\ UNCHANGED eltVars

(* A channel is registered by a functor that runs in the loop, so that     *)
(* poll() reports none, besides the wakeup channel, before one has run.    *)
ThreadPoll == Poll /\ (ran = <<>> => m_activeChannels' = {WakeupChannel})

(* poll() returns, and what the callbacks do to their own loop. *)
LoopEnvironment ==
  /\ thread = "published"
  /\ \/ ThreadPoll
     \/ PollInterrupted
     \/ \E f \in Functors : RunInLoop(f) \/ QueueInLoop(LoopThread, f)
     \/ Quit(LoopThread)
  /\ UNCHANGED eltVars

(* loop() has returned: p_loop = NULL, without the lock ... *)
ThreadFuncLeaves ==
  /\ thread = "published"
  /\ pc = "exited"
  /\ p_loop' = FALSE
  /\ thread' = "left"
  /\ UNCHANGED <<vars, owner>>

(* ... and ~EventLoop at the end of the scope. *)
ThreadFuncReturns ==
  /\ thread = "left"
  /\ thread' = "finished"
  /\ UNCHANGED <<vars, p_loop, owner>>

ThreadStep == Publish \/ RunLoop \/ ThreadFuncLeaves \/ ThreadFuncReturns

ELTNext ==
  /\ Alive
  /\ OwnerStep \/ ThreadStep \/ LoopEnvironment \/ \E t \in Threads : UserStep(t)

(***************************************************************************)
(* The operating system keeps running a thread that can run, and callbacks *)
(* return.  The owner and the others need not call anything, but once      *)
(* inside a call they go on.  epoll_wait returns when the eventfd is       *)
(* readable; nothing is assumed about the other channels or about signals, *)
(* so a loop that needs a wakeup and does not get one stays in poll.       *)
(***************************************************************************)
OwnerGoesOn ==
  \/ StartLoopWaits \/ StartLoopLeavesWait \/ StartLoopReturns
  \/ DestructQuits \/ DestructJoins

ELTFairness ==
  /\ WF_allVars(Alive /\ OwnerGoesOn)
  /\ \A t \in Threads : WF_allVars(Alive /\ Wakes(t))
  /\ WF_allVars(Alive /\ ThreadStep)
  /\ WF_allVars(Alive /\ thread = "published" /\ m_wakeupFd > 0 /\ ThreadPoll
                 /\ UNCHANGED eltVars)

ELTSafety == ELTInit /\ [][ELTNext]_allVars

ELTSpec == ELTSafety /\ ELTFairness

----------------------------------------------------------------------------
OwnerPCs ==
  {"constructed", "testing", "waiting", "unlocked", "using", "gotNull", "quit", "quitting",
   "joining", "destroyed", "aborted", "undefined"}

(* Types of EventLoopThread; p_loop is set exactly while threadFunc is     *)
(* between its two assignments.                                            *)
ELTTypeOK ==
  /\ TypeOK
  /\ p_loop \in BOOLEAN
  /\ owner \in OwnerPCs
  /\ thread \in {"notStarted", "started", "published", "left", "finished"}
  /\ p_loop <=> thread = "published"

(* startLoop returns the loop (the unlocked `return p_loop` never sees the *)
(* NULL that threadFunc stores when loop() returns), and it does return:   *)
(* the notify is not lost whichever of the two threads locks first.        *)
StartLoopGivesLoop ==
  /\ [](owner # "gotNull")
  /\ owner = "testing" ~> owner = "using"

(* An EventLoopThread is not destroyed while its thread may still use its  *)
(* members: the last use is p_loop = NULL.                                 *)
ThreadOutlivedByOwner ==
  owner = "destroyed" => thread \in {"notStarted", "left", "finished"}

(***************************************************************************)
(* A call on the loop fails (assert(m_looping) in quit(), or a write to an *)
(* eventfd that is gone) only before loop() is entered or once a quit()    *)
(* has made it return.  Between the two every thread's calls are safe,     *)
(* however they interleave with the loop.                                  *)
(***************************************************************************)
FailsOnlyOutsideLoop ==
  ~Alive => (pc = "created" /\ ran = <<>>) \/ (pc = "exited" /\ m_quit)

(* The destructor returns: join() does not hang on a loop that missed the  *)
(* quit, unless the process has come to an end.                            *)
DestructorReturns == owner \in {"quit", "quitting", "joining"} ~> owner = "destroyed" \/ ~Alive

(* quit(), of whatever thread or callback, ends loop() and the thread:     *)
(* m_quit is never overlooked by a blocked loop.                           *)
QuitEndsLoop == m_quit /\ m_looping ~> thread = "finished" \/ ~Alive

(* The loop of an EventLoopThread implements FunctorQueue: every functor   *)
(* queued is run, once, in order, unless the loop is left first.           *)
LoopQueue == INSTANCE FunctorQueue WITH
               queue <- functors \o m_pendingFunctors,
               closed <- (pc = "exited" \/ ~Alive)

ImplementsFunctorQueue == LoopQueue!FQSpec

=============================================================================
