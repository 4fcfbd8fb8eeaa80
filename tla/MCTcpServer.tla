----------------------------- MODULE MCTcpServer -----------------------------
(* One connection, on the base loop or on the one loop of the pool: every  *)
(* step of its life interleaves the loops, the peer and a thread of the    *)
(* application, which makes two calls on it, so that one can overtake what *)
(* the other has set off; accept() fails once with the peer left waiting.  *)
EXTENDS TcpServer

CONSTANT c1

OneConn == {c1}

=============================================================================
