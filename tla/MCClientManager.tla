-------------------------- MODULE MCClientManager --------------------------
(* Instances of ClientManager for TLC.                                     *)
EXTENDS ClientManager
=============================================================================
