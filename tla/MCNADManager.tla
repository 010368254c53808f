---------------------------- MODULE MCNADManager ----------------------------
(* Instances of NADManager for TLC.                                        *)
EXTENDS NADManager, TLC

\* Sound where no NAD is an administrator's: then none differs from another.
MachinesAndNADs == Permutations(Machines) \cup Permutations(NADs)
=============================================================================
