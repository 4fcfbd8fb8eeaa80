---------------------------- MODULE MCTimerQueue ----------------------------
(* Two timers and two addresses, so that an address is used again; times   *)
(* in the past, now and later, the invalid time 0 included.                *)
EXTENDS TimerQueue

MCAddrs == 1 .. 2
MCWhens == {0, 3}
MCIntervals == {0, 1}

=============================================================================
