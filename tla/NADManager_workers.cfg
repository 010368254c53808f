SPECIFICATION Spec
CONSTANTS
    m1 = m1
    m2 = m2
    n1 = n1
    n2 = n2
    None = None
    Machines = {m1, m2}
    NADs = {n1, n2}
    AdminNADs = {}
    MaxConcurrentReconciles = 2
SYMMETRY MachinesAndNADs
INVARIANTS
    TypeOK
    LiveVMHasItsNAD
    NothingLeftBehind
