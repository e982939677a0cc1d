---------------------------- MODULE MCHttpServer ----------------------------
(***************************************************************************)
(* The instance of HttpServer on its own that TLC checks: one thread       *)
(* beside start's, which is enough for it to be joined twice.              *)
(***************************************************************************)
EXTENDS HttpServer
=============================================================================
