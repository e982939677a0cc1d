---------------------------- MODULE MCHttpClient ----------------------------
(***************************************************************************)
(* The instances of HttpClient that TLC checks: one plain and one SSL      *)
(* session on two threads.                                                 *)
(***************************************************************************)
EXTENDS HttpClient
=============================================================================
