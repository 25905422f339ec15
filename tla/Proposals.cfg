SPECIFICATION Spec
CONSTANTS
    a = a
    b = b
    s = s
    o1 = o1
    o2 = o2
    doc = doc
    Obligations <- MCObligations
    Pairs <- MCPairs
    DocumentOf <- MCDocumentOf
    Nobody = Nobody
    Parties <- MCParties
    Calls = {c1, c2}
    Lifetime = 1
    MaxTime = 1
INVARIANTS OneObligationPerDocument AcceptedInTime AnswersHold
PROPERTIES ImplementsAgreements
SYMMETRY MCSymmetry
CHECK_DEADLOCK FALSE
