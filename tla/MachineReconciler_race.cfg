CONSTANTS
    Machines = {m1, m2}
    Clusters = {c1, c2}
    None = None
    Supervisor = Supervisor
    InitialConfigs = {c1, c2}
    UserConfigs = {None, c1, c2}
    DefaultConfig = None
    Legacy = {}
    LateAnnotation = FALSE
    SlowClusters = {}
    MayMismatch = {}
    MaxConcurrentReconciles = 2
SPECIFICATION Spec
INVARIANTS VMInAnnotatedCluster
