-------------------------- MODULE MCFileTransfers --------------------------
(***************************************************************************)
(* The instance of FileTransfers that TLC checks: two threads beside       *)
(* start's own and two connections, with two uploads of one or two parts   *)
(* and a download between or beside them.                                  *)
(***************************************************************************)
EXTENDS FileTransfers
=============================================================================
