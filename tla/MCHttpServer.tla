---------------------------- MODULE MCHttpServer ----------------------------
(* Up to MaxLines lines, cut into messages anywhere: a whole request with    *)
(* headers and the start of the next one.                                   *)
EXTENDS HttpServer

=============================================================================
