------------------------------- MODULE MCBuffer -------------------------------
(* A buffer of two bytes behind one that is kept for prepending, and an     *)
(* extrabuf of two: up to four bytes of content grow it, move it, and are   *)
(* read in two parts.                                                       *)
EXTENDS Buffer

=============================================================================
