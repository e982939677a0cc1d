--------------------------- MODULE MCHttpSession ---------------------------
(***************************************************************************)
(* The instances of HttpSession on its own that TLC checks: with a limit   *)
(* of 2 and one request more than that a session pauses and resumes.       *)
(***************************************************************************)
EXTENDS HttpSession
=============================================================================
