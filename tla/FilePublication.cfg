SPECIFICATION PublicationSpec
CONSTANTS
    d1 = d1
    d2 = d2
    f1 = f1
    w1 = w1
    w2 = w2
    Dataset = {d1, d2}
    File = {f1}
    TaskWorker = {w1, w2}
    RequestKinds = {"publish", "add", "draft", "add to draft", "merge", "remove", "flush", "restore", "delete file"}
    MaxSets = 3
    MaxChanges = 4
    MaxCrashes = 1
    None = None
INVARIANT NothingElseIsPublished
PROPERTY EventuallyPublished
CHECK_DEADLOCK FALSE
