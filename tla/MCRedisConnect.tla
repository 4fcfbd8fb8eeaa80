---------------------------- MODULE MCRedisConnect ----------------------------
(* Two users, up to two slots, which are filled again once a connection is *)
(* disabled or the pool cleared: replies of up to five tokens, cut in any  *)
(* place, that come late and are met by the same user's next command or by *)
(* another user's, with up to two tokens on the wire before them; a pool   *)
(* that is full, two threads with the same free slot, and a call that      *)
(* empties the pool.                                                       *)
EXTENDS RedisConnect, TLC

(* wentOn and misread are never reset, so that behind a state with either  *)
(* OwnAnswer is settled; and the pool cannot tell it from one without.     *)
Open == ~wentOn /\ ~misread

Symmetry == Permutations(Threads)

=============================================================================
