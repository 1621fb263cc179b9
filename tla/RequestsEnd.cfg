SPECIFICATION Spec
CONSTANTS
    Worker = {w1, w2}
    File = {f1}
    Kinds = {"create_draft", "publish", "delete", "restore", "delete_file"}
    None = None
PROPERTIES
    RequestsEnd
