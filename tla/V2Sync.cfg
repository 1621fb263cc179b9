SPECIFICATION Spec
CONSTANTS
    w1 = w1
    w2 = w2
    Worker = {w1, w2}
    Kinds = {"create", "update", "update removed", "delete", "flush", "restore"}
    MaxChanges = 3
    MaxCrashes = 1
    MaxFailures = 2
    None = None
INVARIANT FailureIsRemembered
PROPERTIES
    NeverBackInTime
    EventuallyInSync
CHECK_DEADLOCK FALSE
