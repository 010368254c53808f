CONSTANTS
    Machines = {m1}
    Clusters = {c1, c2}
    None = None
    Supervisor = Supervisor
    InitialConfigs = {c1}
    UserConfigs = {None, c2}
    DefaultConfig = None
    Legacy = {}
    LateAnnotation = TRUE
    SlowClusters = {}
    MayMismatch = {m1}
    MaxConcurrentReconciles = 1
SPECIFICATION FairSpec
INVARIANTS ResourcesFollowPlacement
PROPERTIES PlacementKeptOnceUsed PlacedMachineDeletes PlacedMachineGetsVM
