SPECIFICATION Spec
CONSTANTS
    Worker = {w1, w2}
    Record = {p1, p2}
    Copy = {c1, c2}
    Rationale = {r1}
    MaxRequests = 4
    None = None
SYMMETRY Symmetry
PROPERTIES
    LeftAloneWhileRunning
    OriginStaysKnown
    ContractStaysCovering
CHECK_DEADLOCK FALSE
