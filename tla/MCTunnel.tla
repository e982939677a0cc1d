------------------------------ MODULE MCTunnel ------------------------------
(***************************************************************************)
(* Instances of Tunnel for TLC: the bounds are in the .cfg files.          *)
(***************************************************************************)
EXTENDS Tunnel
=============================================================================
