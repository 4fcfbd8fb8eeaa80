------------------------------- MODULE ConnLife -------------------------------
(***************************************************************************)
(* What a TcpServer promises about the life of its connections (the        *)
(* comments of src/Tcp/TcpConnection.h and TcpServer.cpp): every one goes  *)
(* through the same stages, none is left out and none comes back.          *)
(*   absent      not accepted yet                                          *)
(*   connecting  accepted, and handed to its loop                          *)
(*   up          connectEstablished has run, and the server knows it       *)
(*   removed     the server has forgotten it                               *)
(*   destroyed   connectDestroyed has run: its channel is in no epoll set  *)
(*   deleted     nobody refers to it                                       *)
(* TcpServer.tla is shown to implement this module.                        *)
(***************************************************************************)
CONSTANT Conns

VARIABLE life  \* the stage of each connection

LifeInit == life = [c \in Conns |-> "absent"]

Moves(c, from, to) == life[c] = from /\ life' = [life EXCEPT ![c] = to]

(* It is established at once by the server's own loop, and later by others. *)
Accept(c) == \E to \in {"connecting", "up"} : Moves(c, "absent", to)

Establish(c) == Moves(c, "connecting", "up")

Remove(c) == Moves(c, "up", "removed")

Destroy(c) == Moves(c, "removed", "destroyed")

(* A loop lets go of several connections together. *)
Delete(D) ==
  /\ \A c \in D : life[c] = "destroyed"
  /\ life' = [c \in Conns |-> IF c \in D THEN "deleted" ELSE life[c]]

LifeNext ==
  \/ \E c \in Conns : Accept(c) \/ Establish(c) \/ Remove(c) \/ Destroy(c)
  \/ \E D \in SUBSET Conns : Delete(D)

LifeSpec == LifeInit /\ [][LifeNext]_life

=============================================================================
