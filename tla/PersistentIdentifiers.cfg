SPECIFICATION Spec
CONSTANTS
    d1 = d1
    d2 = d2
    r1 = r1
    r2 = r2
    x = x
    att = att
    harvested = harvested
    Dataset = {d1, d2}
    Request = {r1, r2}
    Name = {x}
    Catalog = {att, harvested}
    External = {harvested}
    TakesPids = {att, harvested}
    Managed <- MCManaged
    Migrated = d1
    MaxRequests = 4
    MaxMinted = 2
    None = None
SYMMETRY Symmetry
INVARIANTS UniqueUnlessOverlapped GeneratedPidIsOfItsDataset DoiIsDescribed
PROPERTIES GeneratedPidIsKept
CHECK_DEADLOCK FALSE
