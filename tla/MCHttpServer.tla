---------------------------- MODULE MCHttpServer ----------------------------
(***************************************************************************)
(* HttpServer on small instances.                                          *)
(***************************************************************************)
EXTENDS HttpServer

CONSTANTS ann, bob, eve

\* The request of bob comes in two pieces, the others in one.
MCPieces == [client \in Clients |-> IF client = bob THEN 2 ELSE 1]
=============================================================================
