INIT Init
NEXT Next
CONSTANTS
    MaxWrites = 3
INVARIANTS SentOnce
CHECK_DEADLOCK FALSE
