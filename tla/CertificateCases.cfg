INIT CasesInit
NEXT Next
CONSTRAINT Within
CONSTANTS
    a = a
    b = b
    ab = ab
    ba = ba
    ba2 = ba2
    Genesis = Genesis
    r1 = r1
    r2 = r2
    s1 = s1
    s2 = s2
    u1 = u1
    Obligations <- MCObligations
    Terms <- MCTerms
    Parties <- MCParties
    CertificateIds <- MCIds
    Unseen <- MCUnseen
    Requests <- MCRequests
    Kinds <- MCKinds
    Searches <- MCSearches
    Closable <- MCDisputable
    Disputable <- MCDisputable
    Lifetime = 1
    Grace = 1
    MaxLag = 1
    MaxAttempts = 3
    LastSearch = 5
    MaxTime = 3
INVARIANTS TypeOK ExpiredNeverApplied RowsFollowLedger AppliedIsRecorded
    OpenCertificatesHold LocksFollowCertificates OutOfSyncIsReal
SYMMETRY Alike
PROPERTIES ClosedStaysClosed
CHECK_DEADLOCK FALSE
