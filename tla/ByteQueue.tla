------------------------------- MODULE ByteQueue -------------------------------
(***************************************************************************)
(* What a Buffer promises its users: a queue of bytes.  What is put in     *)
(* comes out in the order it went in, and what was put in last can be      *)
(* taken back.                                                             *)
(***************************************************************************)
EXTENDS Naturals, Sequences

CONSTANT Data  \* the strings of bytes that may be put in

VARIABLE content

BQInit == content = <<>>

Put(data) == content' = content \o data

Take(n) == content' = SubSeq(content, n + 1, Len(content))

TakeBack(n) == content' = SubSeq(content, 1, Len(content) - n)

BQNext ==
  \/ \E data \in Data : Put(data)
  \/ \E n \in 0 .. Len(content) : Take(n) \/ TakeBack(n)

BQSpec == BQInit /\ [][BQNext]_content

=============================================================================
