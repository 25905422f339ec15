SPECIFICATION FairSpec
CONSTANTS
    a = a
    b = b
    t1 = t1
    t2 = t2
    Changes <- MCOneChange
    Tenants <- MCOneTenant
    Parties <- MCOneParty
    Touches <- MCTouches
    Fickle = {t1}
    WithEndpoint = {t1}
    Removers = {}
    Runs = {r1, r2}
    LockTime = 1
    Lease = 3
    MaxRun = 2
    FirstRetry = 1
    MaxRetry = 2
    Window = 1
    DeliveryBatch = 2
    MaxFailures = 1
    MaxEndpoints = 1
PROPERTIES ChangesAreFannedOut EventsAreSettled
CHECK_DEADLOCK FALSE
