INIT Init
NEXT Next
CONSTANTS
    Viewers = {p, q}
    MaxLoads = 3
    NoViewer = NoViewer
INVARIANTS NoLeftoverPayload
CHECK_DEADLOCK FALSE
