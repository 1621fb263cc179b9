SPECIFICATION ContentsSpec
CONSTANTS
    d1 = d1
    d2 = d2
    f1 = f1
    f2 = f2
    dir = dir
    subdir = subdir
    None = None
    Dataset = {d1, d2}
    File = {f1, f2}
    Dir = {dir, subdir}
    Under <- FilesUnder
    Cumulative = {d2}
    DirActions <- OnDirectories
    FileActions <- OnFiles
    MaxDirActions = 2
    MaxFileActions = 2
    MaxActions = 3
    MaxChanges = 3
    DeletionKinds = {"delete"}
CONSTRAINT LongRequestsOfOne
INVARIANT
    MetadataIsOfItems
PROPERTY
    UpdateIsInSequence
CHECK_DEADLOCK FALSE
