SPECIFICATION Spec
CONSTANTS
    m1 = m1
    m2 = m2
    i1 = i1
    None = None
    Machines = {m1, m2}
    ISOs = {i1}
    MaxConcurrentReconciles = 1
SYMMETRY MachineSymmetry
INVARIANTS TypeOK AttachedISOIsImported NoISOLeftBehind
PROPERTY DeletedISOIsDetached
