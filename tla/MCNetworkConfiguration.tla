----------------------- MODULE MCNetworkConfiguration -----------------------
(* Instances of NetworkConfiguration for TLC.                              *)
EXTENDS NetworkConfiguration, TLC

\* Addresses are interchangeable, and so are networks.
MACsAndNetworks == Permutations(MACs) \cup Permutations(Networks)
=============================================================================
