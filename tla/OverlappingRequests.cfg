SPECIFICATION Spec
CONSTANTS
    Worker = {w1, w2}
    File = {f1, f2}
    Kinds = {"update", "create_draft", "publish", "delete", "restore", "delete_file"}
    None = None
SYMMETRY Symmetry
PROPERTIES
    NoDraftIsLeftBehind
    ClosedStaysClosed
    RemovedStaysRemoved
