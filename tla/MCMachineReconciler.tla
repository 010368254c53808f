------------------------ MODULE MCMachineReconciler ------------------------
(* Instances of MachineReconciler for TLC.                                 *)
EXTENDS MachineReconciler, TLC

\* Machines are interchangeable when none of them is legacy.
MachineSymmetry == Permutations(Machines)
=============================================================================
