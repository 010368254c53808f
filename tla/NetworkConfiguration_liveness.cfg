SPECIFICATION FairSpec
CONSTANTS
    n1 = n1
    a = a
    b = b
    GuestMAC = GuestMAC
    NoNetwork = NoNetwork
    NoMAC = NoMAC
    Networks = {n1}
    MACs = {a, b}
    MaxLives = 2
PROPERTIES
    LiveMachineGetsVM
    OnlyMismatchBlocksDeletion
    ProviderBackfilled
    NCCollected
