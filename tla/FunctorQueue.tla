---------------------------- MODULE FunctorQueue ----------------------------
(***************************************************************************)
(* What an EventLoop promises to the threads that hand it work through     *)
(* queueInLoop (src/Reactor/EventLoop.h): the functors are run by the      *)
(* loop, one at a time, each once, in the order in which they were queued, *)
(* and every one of them is run as long as the loop has not been left.     *)
(*                                                                         *)
(* EventLoop.tla is shown to implement this module; TcpServer.tla uses     *)
(* loops only through it.                                                  *)
(***************************************************************************)
EXTENDS Sequences

CONSTANT Functors

VARIABLES
  queue,   \* functors queued and not yet run, oldest first
  ran,     \* functors run, in the order in which they were run
  closed   \* the loop has been left: nothing more is run

fqVars == <<queue, ran, closed>>

FQInit ==
  /\ queue = <<>>
  /\ ran = <<>>
  /\ closed = FALSE

(* Any thread queues a functor. *)
Post(f) ==
  /\ queue' = Append(queue, f)
  /\ UNCHANGED <<ran, closed>>

(* The loop runs the oldest queued functor. *)
RunNext ==
  /\ ~closed
  /\ queue # <<>>
  /\ ran' = Append(ran, Head(queue))
  /\ queue' = Tail(queue)
  /\ UNCHANGED closed

(* The loop is left; what is still queued is never run. *)
Close ==
  /\ ~closed
  /\ closed' = TRUE
  /\ UNCHANGED <<queue, ran>>

FQNext ==
  \/ \E f \in Functors : Post(f)
  \/ RunNext
  \/ Close

FQSafety == FQInit /\ [][FQNext]_fqVars

FQSpec == FQSafety /\ WF_fqVars(RunNext)

=============================================================================
