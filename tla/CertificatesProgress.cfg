SPECIFICATION FairSpec
CONSTANTS
    a = a
    b = b
    ab = ab
    ba = ba
    ba2 = ba2
    Obligations <- MCObligations
    Terms <- MCTerms
    Parties <- MCParties
    CertificateIds <- MCOneId
    Unseen = {}
    Genesis = Genesis
    Requests = {r1}
    Kinds = {"view", "sign", "decline"}
    Searches = {s1}
    Closable = {}
    Disputable = {}
    Lifetime = 1
    Grace = 1
    MaxLag = 1
    MaxAttempts = 3
    LastSearch = 1
    MaxTime = 4
PROPERTIES LocksAreReleased ApplicationsAreRecorded
CHECK_DEADLOCK FALSE
