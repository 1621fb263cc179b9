SPECIFICATION SyncSpec
CONSTANTS
    a1 = a1
    o1 = o1
    o2 = o2
    None = None
    Applicant = {a1}
    Org = {o1, o2}
    Described <- OneChangeEach
    Kinds = {"delete", "label", "command"}
    MayFail = {"create", "disable", "close"}
    MaxTerms = 2
    MaxChanges = 3
    MaxFailures = 1
    MaxCrashes = 1
INVARIANTS
    NeverInUse
    PublishedIsOffered
    UnpublishedIsHidden
    FailedRemovalIsListed
PROPERTY
    OldApplicationsAreClosed
CHECK_DEADLOCK FALSE
