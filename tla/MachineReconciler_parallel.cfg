CONSTANTS
    Machines = {m1, m2}
    Clusters = {c1, c2}
    None = None
    Supervisor = Supervisor
    InitialConfigs = {c1, c2}
    UserConfigs = {None, c2}
    DefaultConfig = c1
    Legacy = {}
    LateAnnotation = FALSE
    SlowClusters = {}
    MayMismatch = {}
    MaxConcurrentReconciles = 2
SPECIFICATION Spec
SYMMETRY MachineSymmetry
INVARIANTS DisksFollowPlacement
PROPERTIES LiveMachineKeepsItsVM
