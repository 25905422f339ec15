SPECIFICATION Spec
CONSTANTS
    a = a
    b = b
    t1 = t1
    t2 = t2
    Changes <- MCOneChange
    Tenants <- MCTenants
    Parties <- MCOneParty
    Touches <- MCTouches
    Fickle = {}
    WithEndpoint = {t1}
    Removers = {t1}
    Runs = {r1, r2}
    LockTime = 1
    Lease = 3
    MaxRun = 2
    FirstRetry = 1
    MaxRetry = 2
    Window = 1
    DeliveryBatch = 2
    MaxFailures = 1
    MaxEndpoints = 2
INVARIANTS NothingHeldTwice NoReaderMissed
PROPERTIES OutcomesAreFinal
CHECK_DEADLOCK FALSE
