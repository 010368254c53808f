------------------------------ MODULE MCBootISO ------------------------------
(* Instances of BootISO for TLC.                                           *)
EXTENDS BootISO, TLC

MachineSymmetry == Permutations(Machines)
=============================================================================
