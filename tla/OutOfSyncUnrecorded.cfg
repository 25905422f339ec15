SPECIFICATION Spec
CONSTANTS
    a = a
    b = b
    ab = ab
    ba = ba
    ba2 = ba2
    Obligations <- MCObligations
    Terms <- MCTerms
    Parties <- MCParties
    CertificateIds <- MCOneId
    Unseen = {}
    Genesis = Genesis
    Requests = {r1}
    Kinds = {"view", "sign"}
    Searches = {s1, s2}
    Closable = {}
    Disputable = {}
    Lifetime = 1
    Grace = 1
    MaxLag = 1
    MaxAttempts = 3
    LastSearch = 0
    MaxTime = 0
INVARIANTS OutOfSyncIsUnrecorded
CHECK_DEADLOCK FALSE
