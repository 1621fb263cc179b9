SPECIFICATION Spec
CONSTANTS
    f1 = f1
    f2 = f2
    x = x
    y = y
    p = p
    q = q
    w1 = w1
    w2 = w2
    File = {f1, f2}
    Identifier = {x, y}
    Project = {p, q}
    Worker = {w1, w2}
    Kinds = {"insert", "update", "upsert", "delete", "patch", "remove", "delete list", "flush list"}
    MaxOld = 1
    MaxRequests = 2
    None = None
SYMMETRY Symmetry
INVARIANTS IdentifiersAreUnique V2IsInStep
PROPERTIES PasFilesAreLeftAlone BulkKeepsOtherChanges
CHECK_DEADLOCK FALSE
