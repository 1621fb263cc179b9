---------------------------- MODULE MCDatasetFiles ----------------------------
(* A small instance of DatasetFiles: two files, one in a subdirectory. *)
EXTENDS DatasetFiles

CONSTANTS d1, d2, f1, f2, dir, subdir

FilesUnder == [p \in Dir |-> IF p = dir THEN File ELSE {f2}]

Does(action, on, only_unpublished, metadata) ==
    [action |-> action, on |-> on, only_unpublished |-> only_unpublished, metadata |-> metadata]

OnDirectories ==
    {Does(action, p, unpublished, "as it is") :
        action \in {"add", "remove"}, p \in Dir, unpublished \in BOOLEAN}
    \cup {Does("update", dir, FALSE, "text"), Does("add", subdir, FALSE, "text"),
          Does("update", subdir, FALSE, None)}

OnFiles ==
    {Does(action, f, FALSE, "as it is") : action \in {"add", "remove"}, f \in File}
    \cup {Does("add", f1, FALSE, "text"), Does("update", f2, FALSE, "text"),
          Does("update", f2, FALSE, None)}

\* Long requests about one of the datasets are enough.
LongRequestsOfOne == req # None /\ req.dataset = d2 => Len(req.dirs) + Len(req.files) <= 1
=============================================================================
