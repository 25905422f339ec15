SPECIFICATION Spec
CONSTANTS
    a = a
    b = b
    c = c
    d = d
    ab1 = ab1
    ab1alt = ab1alt
    ab2 = ab2
    bc = bc
    ca = ca
    ba = ba
    cd = cd
    da = da
    zero = zero
    foreign = foreign
    Ids <- MCIds
    Terms <- MCTerms
    Parties <- MCParties
    ZeroAddress = ZeroAddress
    Here = Here
    NotFound = NotFound
    NoTx = NoTx
    MaxTime = 1
    MaxLoop = 4
INVARIANTS NoPartialLeftover
CHECK_DEADLOCK FALSE
