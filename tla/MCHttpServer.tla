---------------------------- MODULE MCHttpServer ----------------------------
(* Two connections, functions for "unavailable" and "error". *)
EXTENDS HttpServer
CONSTANTS c1, c2
=============================================================================
