SPECIFICATION Spec
CONSTANTS
    n1 = n1
    n2 = n2
    a = a
    b = b
    GuestMAC = GuestMAC
    NoNetwork = NoNetwork
    NoMAC = NoMAC
    Networks = {n1, n2}
    MACs = {a, b}
    MaxLives = 2
SYMMETRY MACsAndNetworks
INVARIANTS
    TypeOK
    VMMatchesNC
    OneNetworkVMHasAddress
    NCGoesWithMachine
PROPERTIES
    MACNeverReplaced
CHECK_DEADLOCK FALSE
