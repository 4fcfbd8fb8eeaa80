------------------------------ MODULE MCLFUCache ------------------------------
(* Two threads, and three keys for a cache of two: keys are evicted, and    *)
(* both threads may set the same one.                                       *)
EXTENDS LFUCache

=============================================================================
