INIT Init
NEXT Next
CONSTANTS
    a = a
    b = b
    c = c
    d = d
    ab1 = ab1
    ab1alt = ab1alt
    ab2 = ab2
    bc = bc
    ca = ca
    ba = ba
    cd = cd
    da = da
    zero = zero
    foreign = foreign
    k1 = k1
    k2 = k2
    ZeroAddress = zeroAddress
    NoTx = NoTx
    Ids <- MCIds
    Terms <- MCTerms
    Parties = {a, b, c, d}
    Here = Here
    NotFound = NotFound
    SettlementTime = 1
    MaxLoop = 4
    Addresses = {a, b, c, zeroAddress}
    Obligations = {"ab", "ba", "bc", "ca"}
    Commitments = {0, 1, 2, 3}
    Zero = 0
    CertificateIds = {1, 2, 3, 4, 5}
    ZeroId = 0
    Certificates <- MCCertificates
    LedgerTime = 2
    Asks = {k1, k2, k3}
    Grantees = {a, b, c}
    GrantedBefore = {c}
    DailyGrants = 1
    LastDay = 2
    NoAsk = nobody
    Actions = {k1, k2}
    RingInvoices = 2
    Runs = 1
    Budget = 3
    DemoDays = 2
    Syncs = {k1, k2}
    LastBlock = 3
    ChunkBlocks = 1
    MaxEvents = 1
    NoSync = nobody
    Refreshes = {k1, k2}
    LastStatsBlock = 3
    StatsChunk = 2
    NoRefresh = nobody
    LoopInvoices = 3
    MaxResumes = 3
    Pool <- Owed
    Caller = "c"
    Currencies <- InCodeOrder
    Rulings <- Allowlists
    Flaggable = {"q"}
    MinLength = 2
    MinInvoices = 3
    MaxLength = 3
    MaxVertices = 3
    MaxCycles = 3
    PageSize = 3
    MaxRows = 15
    MaxQueries = 6
    MaxQueryParties = 3
    Nonces = {n1, n2}
    SignIns = {k1, k2, k3}
    NonceTTL = 2
    MessageTTL = 2
    SessionTTL = 3
    EndOfTime = 5
    Accounts = {a, b}
    MaxAttempts = 3
    NoAccount = nobody
    MaxWrites = 3
    Viewers = {a, b}
    MaxLoads = 4
    NoViewer = nobody
    MaxOps = 4
    CheckedLoop <- Debts
    CheckedNet = 2
    SmartAccounts = {"r"}
    Me = "p"
    MaxHeight = 4
    FloorBlock = 0
    FloorChunk = 2
    MaxChunks = 2
    Lookback = 2
    LookbackChunk = 2
INVARIANTS PaidOnce SpentWithinBudget ShownAsDone IndexIsComplete
    TotalsAddUp FundedOnce OneSessionUntilItsEnd
    CompletingIsLive NotAskedTwice  NoSecondSubmission BestLoopFound VerdictRight
PROPERTIES PositionsUnchanged ImplementsInvoiceNetting
    ImplementsNettingLedger
SYMMETRY Alike
CHECK_DEADLOCK FALSE
