-------------------------- MODULE MCMachineStatus --------------------------
(* Instances of MachineStatus for TLC.                                     *)
EXTENDS MachineStatus
=============================================================================
