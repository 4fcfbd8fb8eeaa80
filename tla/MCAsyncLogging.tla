---------------------------- MODULE MCAsyncLogging ----------------------------
(* Buffers of 4 bytes and records of 1 or 3: a record can fill a buffer, so *)
(* that six records use up the spare buffers and make the writer drop some. *)
EXTENDS AsyncLogging

=============================================================================
