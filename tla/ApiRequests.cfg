SPECIFICATION FairSpec
CONSTANTS
    r1 = r1
    r2 = r2
    Requests = {r1, r2}
    Operations <- MCOperations
    Lease = 1
    MaxFailures = 2
INVARIANTS AnswersDocumented RunOnce PermissionWithItsResponse SuccessIsStored
PROPERTIES KeysAreSettled
CHECK_DEADLOCK FALSE
