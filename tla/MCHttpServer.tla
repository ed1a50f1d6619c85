---------------------------- MODULE MCHttpServer ----------------------------
(* Two connections and a backlog of one: one is served while the other waits, *)
(* and a full backlog keeps it out.  Requests of seven bytes, whose length is  *)
(* not given, less or more than they send, in a buffer at two places.         *)
EXTENDS HttpServer

MCContentLens == {-1, 1, 3}
=============================================================================
