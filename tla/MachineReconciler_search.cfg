CONSTANTS
    Machines = {m1, m2}
    Clusters = {c1, c2}
    None = None
    Supervisor = Supervisor
    InitialConfigs = {c1, c2}
    UserConfigs = {None, c1}
    DefaultConfig = None
    Legacy = {m1}
    LateAnnotation = TRUE
    SlowClusters = {c1}
    MayMismatch = {}
    MaxConcurrentReconciles = 1
SPECIFICATION Spec
INVARIANTS TypeOK PlacementInvariant ResourcesFollowPlacement VMHasItsDisks
PROPERTIES ImplementsLifecycle
