SPECIFICATION Spec
CONSTANTS
    r1 = r1
    r2 = r2
    f1 = f1
    f2 = f2
    Reader = {r1, r2}
    File = {f1, f2}
    MaxChanges = 3
    None = None
SYMMETRY Symmetry
INVARIANTS OnlyCommittedIsShown DeletedFilesAreNotCounted
PROPERTY RepliesDoNotGoBack
CHECK_DEADLOCK FALSE
