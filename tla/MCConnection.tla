---------------------------- MODULE MCConnection ----------------------------
(***************************************************************************)
(* The instance of Connection that TLC checks.  With a limit of 3 and more *)
(* requests than that, the queue fills, the read loop pauses and resumes;  *)
(* the code's limit of 8 differs only in how many requests that takes.     *)
(***************************************************************************)
EXTENDS Connection

\* Every path of up to six characters, and that of an upload.
AllPaths ==
  {<<"/">> \o rest : rest \in UNION {[1..n -> {"/", ".", "a"}] : n \in 0..5}}
  \cup {<<"/", "upload", "/", "data">>}
=============================================================================
