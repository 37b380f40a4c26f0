SPECIFICATION FairSpec
CONSTANTS
    Processes = {p1, p2}
    Threads = {t1, t2, t3, u1}
    Copies = {package, bypath}
    Home <- MCHome
    Copy <- MCCopy
    NoThread = NoThread
    MaxDepth = 2
    p1 = p1
    p2 = p2
    package = package
    bypath = bypath
    t1 = t1
    t2 = t2
    t3 = t3
    u1 = u1
PROPERTIES
    ImplementsAdvisoryLock
    LockPassedOn
CHECK_DEADLOCK FALSE
