------------------------------ MODULE MCMySQLPool ------------------------------
(* Three threads and at most two connections, so that threads wait; the pool  *)
(* is destroyed once, with and without users, and made again, and its size is *)
(* set and changed.                                                           *)
EXTENDS MySQLPool

=============================================================================
