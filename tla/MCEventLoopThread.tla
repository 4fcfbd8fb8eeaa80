-------------------------- MODULE MCEventLoopThread --------------------------
(***************************************************************************)
(* One EventLoopThread, its owner and two more threads, three functors    *)
(* (enough for one running, one in the batch and one pushed meanwhile) and *)
(* one channel with callbacks.                                             *)
(***************************************************************************)
EXTENDS EventLoopThread

CONSTANTS loop, main, t1, t2, f1, f2, f3, c1

MCThreads == {main, t1, t2}
MCFunctors == {f1, f2, f3}
MCChannels == {c1}

=============================================================================
