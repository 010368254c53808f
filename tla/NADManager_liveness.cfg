SPECIFICATION FairSpec
CONSTANTS
    m1 = m1
    n1 = n1
    n2 = n2
    None = None
    Machines = {m1}
    NADs = {n1, n2}
    AdminNADs = {n1}
    MaxConcurrentReconciles = 1
PROPERTIES
    ForeignNADGoesWithItsUser
    DeletionEnds
