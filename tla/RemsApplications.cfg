SPECIFICATION Spec
CONSTANTS
    s1 = s1
    s2 = s2
    h1 = h1
    h2 = h2
    l1 = l1
    None = None
    Session = {s1, s2}
    Handler = {h1, h2}
    License = {l1}
    MaxSubmits = 2
SYMMETRY Handlers
INVARIANTS
    AccessIsApproved
    DecisionsAreMailed
PROPERTY
    DecisionsStay
