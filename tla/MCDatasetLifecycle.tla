------------------------- MODULE MCDatasetLifecycle -------------------------
(* Instances of DatasetLifecycle for TLC. *)
EXTENDS DatasetLifecycle, TLC

\* Ids are opaque to every request, and so are files.
Symmetry == Permutations(Dataset) \cup Permutations(File)

\* No request reads what a row held before it was flushed.
OfRows(f) == [d \in Rows |-> f[d]]

View == << state, draftOf, versions, files, fileState, clock, OfRows(order),
           OfRows(created), OfRows(removed), OfRows(deprecated), OfRows(cumulative) >>

\* Version sets meet only through files, so a run with files needs only one.
OneVersionSet == \A d, e \in Rows : versions[d] = versions[e]

NoFiles == (\A d \in Rows : files[d] = {}) /\ \A f \in File : fileState[f] = "stored"

\* Bound of the run: several version sets, or one whose rows have files.
OneVersionSetWithFiles == NoFiles \/ OneVersionSet
=============================================================================
