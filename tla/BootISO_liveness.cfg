SPECIFICATION FairSpec
CONSTANTS
    m1 = m1
    i1 = i1
    None = None
    Machines = {m1}
    ISOs = {i1}
    MaxConcurrentReconciles = 1
PROPERTY InstalledISOIsDetached
