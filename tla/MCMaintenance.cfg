SPECIFICATION Spec
CONSTANTS
    Daemon = Daemon
    Legacy = {l1}
    Commands = {m1, m2}
    Nobody = Nobody
    MaxGens = 3
    l1 = l1
    m1 = m1
    m2 = m2
INVARIANTS
    MaintenanceSafe
PROPERTIES
    CommitsStay
SYMMETRY CommandSymmetry
