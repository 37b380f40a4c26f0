SPECIFICATION InstallFairSpec
CONSTANTS
    Launchers = {l1, l2}
    Setups = {u1}
    Uninstalls = {x1}
    Owner = owner
    l1 = l1
    l2 = l2
    u1 = u1
    x1 = x1
    owner = owner
    MaxServers = 3
    MaxFaults = 1
    Casts = {{l1, l2}, {l1, u1}, {l1, x1}, {u1, x1}}
INVARIANTS
    InstallationSound
PROPERTIES
    StoreKept
    ServedAtLast
CHECK_DEADLOCK FALSE
