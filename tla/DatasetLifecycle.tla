--------------------------- MODULE DatasetLifecycle ---------------------------
(***************************************************************************)
(* The life of dataset rows behind the dataset API of Metax V3: drafts,    *)
(* publication, linked drafts of published datasets and their merge, new   *)
(* versions and their order, removal, restoration and flushing, the        *)
(* cumulative state, the file set, and what deleting a file does to it.    *)
(*                                                                         *)
(* One action is one HTTP request. The default database runs with          *)
(* ATOMIC_REQUESTS, so a request either commits all it did or nothing;     *)
(* requests that fail validation change no state and are not actions.      *)
(* Module OverlappingRequests looks inside the requests, at what happens when  *)
(* two of them overlap.                                                    *)
(*                                                                         *)
(* All datasets are in one catalog which allows versioning and whose       *)
(* storage service holds all files; descriptive metadata is abstracted to  *)
(* metadata that passes validate_published.                                *)
(***************************************************************************)
EXTENDS Naturals, FiniteSets

CONSTANTS Dataset,  \* dataset ids; an id is a UUID and is never reused
          File,     \* files in the storage service
          None      \* Python's None

ASSUME DatasetsAreFinite == IsFiniteSet(Dataset)
ASSUME NoneIsNoDataset == None \notin Dataset

VARIABLES
    state,       \* "unused" before the row exists, "flushed" after it is gone
    draftOf,     \* the published dataset a linked draft is a draft of
    versions,    \* the version set of the row, named by its first dataset
    order,       \* dataset_versions_order
    created,     \* creation timestamp
    removed,     \* soft deleted
    deprecated,
    cumulative,  \* cumulative_state
    files,       \* rows of the file set, including soft deleted files
    fileState,
    clock        \* the latest creation timestamp

vars == << state, draftOf, versions, order, created, removed, deprecated,
           cumulative, files, fileState, clock >>

DatasetState == {"unused", "draft", "published", "flushed"}
CumulativeState == {"NOT_CUMULATIVE", "ACTIVE", "CLOSED"}

TypeOK ==
    /\ state \in [Dataset -> DatasetState]
    /\ draftOf \in [Dataset -> Dataset \cup {None}]
    /\ versions \in [Dataset -> Dataset \cup {None}]
    /\ order \in [Dataset -> Nat]
    /\ created \in [Dataset -> Nat]
    /\ removed \in [Dataset -> BOOLEAN]
    /\ deprecated \in [Dataset -> BOOLEAN]
    /\ cumulative \in [Dataset -> CumulativeState]
    /\ files \in [Dataset -> SUBSET File]
    /\ fileState \in [File -> {"stored", "removed", "flushed"}]
    /\ clock \in Nat

Init ==
    /\ state = [d \in Dataset |-> "unused"]
    /\ draftOf = [d \in Dataset |-> None]
    /\ versions = [d \in Dataset |-> None]
    /\ order = [d \in Dataset |-> 0]
    /\ created = [d \in Dataset |-> 0]
    /\ removed = [d \in Dataset |-> FALSE]
    /\ deprecated = [d \in Dataset |-> FALSE]
    /\ cumulative = [d \in Dataset |-> "NOT_CUMULATIVE"]
    /\ files = [d \in Dataset |-> {}]
    /\ fileState = [f \in File |-> "stored"]
    /\ clock = 0

-----------------------------------------------------------------------------
(* What the code reads off the rows. *)

Rows == {d \in Dataset : state[d] \in {"draft", "published"}}

\* Drafts linked to p: the row behind p.next_draft, if there is one.
NextDrafts(p) == {d \in Rows : draftOf[d] = p}

\* Rows of a version set that are versions of their own, not linked drafts.
IndependentVersions(v) == {d \in Rows : versions[d] = v /\ draftOf[d] = None}

\* Faulty variant of NextExistingVersions: an unpublished version does not count.
NextPublishedVersions(d) ==
    {e \in IndependentVersions(versions[d]) :
        state[e] = "published" /\ ~removed[e] /\ created[e] > created[d]}

\* The default manager hides removed datasets.
NextExistingVersions(d) ==
    {e \in IndependentVersions(versions[d]) : ~removed[e] /\ created[e] > created[d]}

\* Faulty variant of OlderVersions: counts through the default manager.
OlderExistingVersions(d) ==
    LET at == IF draftOf[d] = None THEN created[d] ELSE created[draftOf[d]]
    IN  {e \in IndependentVersions(versions[d]) : created[e] < at /\ ~removed[e]}

\* A linked draft is placed by the creation time of its original.
OlderVersions(d) ==
    LET at == IF draftOf[d] = None THEN created[d] ELSE created[draftOf[d]]
    IN  {e \in IndependentVersions(versions[d]) : created[e] < at}

\* Faulty variants of VersionOrder: a linked draft shares the number of its
\* original, or independent rows are numbered from the row before them.
VersionOrderOfOriginal(d) == 2 * Cardinality(OlderVersions(d))
VersionOrderOffByOne(d) ==
    2 * Cardinality(OlderVersions(d)) - (IF draftOf[d] = None THEN 1 ELSE 0)

VersionOrder(d) ==
    2 * Cardinality(OlderVersions(d)) + (IF draftOf[d] = None THEN 0 ELSE 1)

\* Renumbers every row of the set, removed ones included, as the step leaves them.
UpdateDatasetOrder(v) ==
    order' = [d \in Dataset |->
                IF d \in Rows' /\ versions'[d] = v THEN VersionOrder(d)' ELSE order[d]]

Stored == {f \in File : fileState[f] = "stored"}

\* FileSet.files without soft deleted files.
AvailableFiles(d) == files[d] \cap Stored

\* has_files counts soft deleted files too.
HasFiles(d) == files[d] # {}

HasPublishedFiles(d) ==
    \/ state[d] = "published" /\ HasFiles(d)
    \/ state[d] = "draft" /\ draftOf[d] # None /\ HasFiles(draftOf[d])

AllowRemovingFiles(d) == ~HasPublishedFiles(d)

AllowAddingFiles(d) ==
    LET Open(p) == cumulative[p] = "ACTIVE" \/ ~HasFiles(p)
    IN  \/ state[d] = "published" /\ Open(d)
        \/ state[d] = "draft" /\ (draftOf[d] # None => Open(draftOf[d]))

CumulativeAfter(c) == {c} \cup (IF c = "ACTIVE" THEN {"CLOSED"} ELSE {})

\* Faulty variant of AllowedCumulative: only linked drafts are held to a value.
AllowedCumulativeOfDraft(d) ==
    IF draftOf[d] # None THEN CumulativeAfter(cumulative[draftOf[d]])
    ELSE {"NOT_CUMULATIVE", "ACTIVE"}

\* Values of cumulative_state with which Dataset.save accepts row d.
AllowedCumulative(d) ==
    IF state[d] = "published" THEN CumulativeAfter(cumulative[d])
    ELSE IF draftOf[d] # None THEN CumulativeAfter(cumulative[draftOf[d]])
    ELSE {"NOT_CUMULATIVE", "ACTIVE"}

CumulativeOfCopy(d) ==
    IF cumulative[d] = "CLOSED" THEN "NOT_CUMULATIVE" ELSE cumulative[d]

\* version_number counts the published rows before d. When the rows of the set
\* are prefetched, as they are for GET, removed ones count; when they are
\* queried through the default manager, as for every other method, they do not.
VersionNumberAmong(rows, d) ==
    LET before == {e \in rows : /\ versions[e] = versions[d]
                                /\ state[e] = "published"
                                /\ order[e] < order[d]}
    IN  Cardinality(before) + (IF draftOf[d] = None THEN 1 ELSE 0)

VersionNumberPrefetched(d) == VersionNumberAmong(Rows, d)
VersionNumberQueried(d) == VersionNumberAmong({e \in Rows : ~removed[e]}, d)

-----------------------------------------------------------------------------
(* What several requests do to the rows. *)

AddRow(d, st, original, v, c, fs) ==
    /\ state[d] = "unused"
    /\ clock' = clock + 1
    /\ state' = [state EXCEPT ![d] = st]
    /\ draftOf' = [draftOf EXCEPT ![d] = original]
    /\ versions' = [versions EXCEPT ![d] = v]
    /\ created' = [created EXCEPT ![d] = clock + 1]
    /\ cumulative' = [cumulative EXCEPT ![d] = c]
    /\ files' = [files EXCEPT ![d] = fs]
    /\ UNCHANGED << removed, deprecated, fileState >>

\* Hard delete; the file set of a deleted row goes with it.
DeleteRows(ds) ==
    /\ state' = [d \in Dataset |-> IF d \in ds THEN "flushed" ELSE state[d]]
    /\ draftOf' = [d \in Dataset |-> IF d \in ds THEN None ELSE draftOf[d]]
    /\ versions' = [d \in Dataset |-> IF d \in ds THEN None ELSE versions[d]]
    /\ files' = [d \in Dataset |-> IF d \in ds THEN {} ELSE files[d]]

-----------------------------------------------------------------------------
(* Requests. *)

\* POST /v3/datasets, which saves a draft and publishes it if so asked. It may
\* give a creation time of its own, but the row is alone in its version set.
CreateDataset(d, st, c, fs) ==
    /\ c \in {"NOT_CUMULATIVE", "ACTIVE"}
    /\ fs \subseteq Stored
    /\ AddRow(d, st, None, d, c, fs)
    /\ order' = [order EXCEPT ![d] = 0]

\* PATCH /v3/datasets/<d>. The file set is updated before the dataset is saved,
\* so files are still added to a dataset the same request closes.
UpdateDataset(d, added, dropped, c) ==
    /\ d \in Rows
    /\ added \subseteq Stored \ files[d]
    /\ dropped \subseteq AvailableFiles(d)
    /\ dropped # {} => AllowRemovingFiles(d)
    /\ added # {} => AllowAddingFiles(d)
    /\ c \in AllowedCumulative(d)
    /\ files' = [files EXCEPT ![d] = (@ \ dropped) \cup added]
    /\ cumulative' = [cumulative EXCEPT ![d] = c]
    /\ UNCHANGED << state, draftOf, versions, order, created, removed, deprecated,
                    fileState, clock >>

\* POST /v3/datasets/<d>/publish of a draft that is not linked.
PublishDataset(d) ==
    /\ state[d] = "draft"
    /\ draftOf[d] = None
    /\ state' = [state EXCEPT ![d] = "published"]
    /\ UNCHANGED << draftOf, versions, order, created, removed, deprecated,
                    cumulative, files, fileState, clock >>

\* _check_merge_draft_files sees only the files that are not soft deleted.
MergeKeepsFiles(d, p) ==
    AvailableFiles(p) # {} =>
        /\ AvailableFiles(p) \subseteq AvailableFiles(d)
        /\ AvailableFiles(d) \subseteq AvailableFiles(p) \/ cumulative[p] = "ACTIVE"

\* POST /v3/datasets/<d>/publish of a linked draft: its fields replace those of
\* the published dataset, removed and deprecated among them.
MergeDraft(d) ==
    LET p == draftOf[d] IN
    /\ state[d] = "draft"
    /\ p # None
    /\ ~deprecated[d]
    /\ MergeKeepsFiles(d, p)
    /\ cumulative[d] \in AllowedCumulative(p)
    /\ state' = [state EXCEPT ![d] = "flushed"]
    /\ draftOf' = [draftOf EXCEPT ![d] = None]
    /\ versions' = [versions EXCEPT ![d] = None]
    /\ files' = [files EXCEPT ![p] = files[d], ![d] = {}]
    /\ cumulative' = [cumulative EXCEPT ![p] = cumulative[d]]
    /\ removed' = [removed EXCEPT ![p] = removed[d]]
    /\ deprecated' = [deprecated EXCEPT ![p] = deprecated[d]]
    /\ UNCHANGED << order, created, fileState, clock >>

\* POST /v3/datasets/<p>/new-version; d is the id of the copy.
CreateNewVersion(p, d) ==
    /\ state[p] = "published"
    /\ ~removed[p]
    /\ NextExistingVersions(p) = {}
    /\ AddRow(d, "draft", None, versions[p], CumulativeOfCopy(p), AvailableFiles(p))
    /\ UpdateDatasetOrder(versions[p])

\* Saving the copy fails unless its cumulative state may follow the original's.
CopyCanBeSavedAsDraftOf(p) == CumulativeOfCopy(p) \in CumulativeAfter(cumulative[p])

\* POST /v3/datasets/<p>/create-draft; d is the id of the copy.
CreateNewDraft(p, d) ==
    /\ state[p] = "published"
    /\ ~removed[p]
    /\ NextDrafts(p) = {}
    /\ CopyCanBeSavedAsDraftOf(p)
    /\ AddRow(d, "draft", p, versions[p], CumulativeOfCopy(p), AvailableFiles(p))
    /\ UpdateDatasetOrder(versions[p])

\* DELETE /v3/datasets/<d> of a draft.
DeleteDraft(d) ==
    /\ state[d] = "draft"
    /\ DeleteRows({d})
    /\ UNCHANGED << order, created, removed, deprecated, cumulative, fileState, clock >>

\* Faulty variant of DeletePublished: the linked draft stays.
DeletePublishedOnly(d) ==
    /\ state[d] = "published"
    /\ ~removed[d]
    /\ removed' = [removed EXCEPT ![d] = TRUE]
    /\ UNCHANGED << state, draftOf, versions, created, deprecated, cumulative, files,
                    fileState, clock >>
    /\ UpdateDatasetOrder(versions[d])

\* DELETE /v3/datasets/<d> of a published dataset takes its linked draft along.
\* The order is cleared before the save, which renumbers the version set.
DeletePublished(d) ==
    /\ state[d] = "published"
    /\ ~removed[d]
    /\ DeleteRows(NextDrafts(d))
    /\ removed' = [removed EXCEPT ![d] = TRUE]
    /\ UNCHANGED << created, deprecated, cumulative, fileState, clock >>
    /\ UpdateDatasetOrder(versions[d])

\* DELETE /v3/datasets/<d>?flush=true, also of a removed dataset. The other
\* versions keep their numbers.
FlushDataset(d) ==
    /\ state[d] = "published"
    /\ DeleteRows({d} \cup NextDrafts(d))
    /\ UNCHANGED << order, created, removed, deprecated, cumulative, fileState, clock >>

\* POST /v3/datasets/<d>/restore.
RestoreDataset(d) ==
    /\ state[d] = "published"
    /\ removed[d]
    /\ removed' = [removed EXCEPT ![d] = FALSE]
    /\ UNCHANGED << state, draftOf, versions, order, created, deprecated, cumulative,
                    files, fileState, clock >>

\* Faulty variant of DatasetsToDeprecate: removed datasets are not looked at.
ExistingDatasetsToDeprecate(f) ==
    {d \in Rows : f \in files[d] /\ HasPublishedFiles(d) /\ ~deprecated[d] /\ ~removed[d]}

\* handle_files_deleted: rows that lose published file f are deprecated and saved.
DatasetsToDeprecate(f) ==
    {d \in Rows : f \in files[d] /\ HasPublishedFiles(d) /\ ~deprecated[d]}

DeprecateDatasets(f) ==
    LET lost == DatasetsToDeprecate(f) IN
    /\ \A d \in lost : cumulative[d] \in AllowedCumulative(d)
    /\ deprecated' = [d \in Dataset |-> deprecated[d] \/ d \in lost]

\* DELETE /v3/files/<f>
DeleteFile(f) ==
    /\ fileState[f] = "stored"
    /\ DeprecateDatasets(f)
    /\ fileState' = [fileState EXCEPT ![f] = "removed"]
    /\ UNCHANGED << state, draftOf, versions, order, created, removed, cumulative,
                    files, clock >>

\* DELETE /v3/files?flush=true, also of a soft deleted file.
FlushFile(f) ==
    /\ fileState[f] # "flushed"
    /\ DeprecateDatasets(f)
    /\ fileState' = [fileState EXCEPT ![f] = "flushed"]
    /\ files' = [d \in Dataset |-> files[d] \ {f}]
    /\ UNCHANGED << state, draftOf, versions, order, created, removed, cumulative, clock >>

DatasetRequest(d) ==
    \/ \E st \in {"draft", "published"}, c \in CumulativeState, fs \in SUBSET File :
           CreateDataset(d, st, c, fs)
    \/ \E added, dropped \in SUBSET File, c \in CumulativeState :
           UpdateDataset(d, added, dropped, c)
    \/ PublishDataset(d)
    \/ MergeDraft(d)
    \/ \E copy \in Dataset : CreateNewVersion(d, copy)
    \/ \E copy \in Dataset : CreateNewDraft(d, copy)
    \/ DeleteDraft(d)
    \/ DeletePublished(d)
    \/ FlushDataset(d)
    \/ RestoreDataset(d)

FileRequest(f) == DeleteFile(f) \/ FlushFile(f)

Next ==
    \/ \E d \in Dataset : DatasetRequest(d)
    \/ \E f \in File : FileRequest(f)

Spec == Init /\ [][Next]_vars

-----------------------------------------------------------------------------
(* Properties. *)

\* A linked draft is a draft, is the only one of its original, and its original
\* is a published dataset of the same version set that has not been removed.
\* (create-draft, delete, flush and merge each keep their part of it.)
LinkedDraftsHaveTheirOriginal ==
    \A d \in Rows : draftOf[d] # None =>
        LET p == draftOf[d] IN
        /\ state[d] = "draft"
        /\ state[p] = "published"
        /\ ~removed[p]
        /\ versions[p] = versions[d]
        /\ NextDrafts(p) = {d}

\* The order of the independent rows of a version set follows their creation,
\* with room for a linked draft between any two, and a linked draft is right
\* after its original: whatever was removed, restored or flushed in between,
\* the constraint unique_version_order cannot fail a request.
OrderFollowsCreation ==
    \A d \in Rows :
        IF draftOf[d] # None THEN order[d] = order[draftOf[d]] + 1
        ELSE \A e \in IndependentVersions(versions[d]) :
                 created[d] < created[e] => order[d] + 1 < order[e]

\* An unpublished version is the newest row of its version set, so there is at
\* most one: what _deny_if_versioning_not_allowed is for, removals included.
UnpublishedVersionIsNewest ==
    \A d \in Rows : state[d] = "draft" /\ draftOf[d] = None =>
        \A e \in IndependentVersions(versions[d]) \ {d} : created[e] < created[d]

\* A later published version has a larger version number than an earlier one,
\* and a linked draft has the version number of its original.
VersionNumbersFollowCreation ==
    \A d \in Rows :
        IF draftOf[d] # None
        THEN VersionNumberPrefetched(d) = VersionNumberPrefetched(draftOf[d])
        ELSE \A e \in IndependentVersions(versions[d]) :
                 state[d] = "published" /\ created[d] < created[e] =>
                     VersionNumberPrefetched(d) < VersionNumberPrefetched(e)

StaysPublished(d) == state[d] = "published" /\ state'[d] = "published"

\* A published dataset never becomes cumulative, and is not reopened once its
\* cumulation is closed, by no update and no merge of a draft made earlier.
CumulationNeverReopens ==
    [][\A d \in Dataset : StaysPublished(d) =>
           cumulative'[d] \in CumulativeAfter(cumulative[d])]_vars

\* A published dataset loses a file only by deletion of the file itself.
PublishedFilesAreKept ==
    [][\A d \in Dataset : StaysPublished(d) =>
           files[d] \cap {f \in File : fileState'[f] = "stored"} \subseteq files'[d]]_vars

\* A published dataset that still has files gains files only while cumulative.
FilesAreAddedOnlyWhileOpen ==
    [][\A d \in Dataset : StaysPublished(d) /\ AvailableFiles(d) # {} =>
           AvailableFiles(d)' \subseteq files[d] \/ cumulative[d] = "ACTIVE"]_vars

-----------------------------------------------------------------------------
(* What readers see. *)

NotYetPublished == {d \in Dataset : state[d] \in {"unused", "draft"}}
PublishedRows == {d \in Dataset : state[d] = "published"}
RemovedRows == {d \in PublishedRows : removed[d]}
CumulativeRows == {d \in PublishedRows : cumulative[d] = "ACTIVE"}
DeprecatedRows == {d \in PublishedRows : deprecated[d]}
FilesShown == [d \in Dataset |-> IF d \in PublishedRows THEN AvailableFiles(d) ELSE {}]

Published == INSTANCE PublishedDatasets WITH
    fresh <- NotYetPublished, public <- PublishedRows, withdrawn <- RemovedRows,
    open <- CumulativeRows, outdated <- DeprecatedRows,
    contents <- FilesShown, stored <- Stored

\* Requests about drafts, linked drafts and versions keep what the readers of
\* published datasets rely on: a dataset is published once, changes one at a
\* time and only as its cumulative state allows, comes back from removal as it
\* was, and is deprecated when it loses a file.
ImplementsPublishedDatasets == Published!Spec

-----------------------------------------------------------------------------
(* What the repository says and the code does not do. *)

\* The version number of a row does not depend on how it was requested: the
\* comment in version_number gives it one meaning, "how many of the published
\* datasets in dataset_versions have been created earlier".
VersionNumberHasOneMeaning ==
    \A d \in Rows : VersionNumberPrefetched(d) = VersionNumberQueried(d)

\* docs/user-guide/datasets-api.md: for published datasets "it is also possible
\* to create a linked temporary draft dataset with create-draft";
\* check_new_draft_allowed asks for no more than the first line here.
PublishedDatasetCanGetDraft ==
    \A p \in Rows :
        /\ state[p] = "published" /\ ~removed[p] /\ NextDrafts(p) = {}
        /\ \E d \in Dataset : state[d] = "unused"
        => \E d \in Dataset : ENABLED CreateNewDraft(p, d)

\* docs/user-guide/files-api.md: delete-many "Deletes existing files"; the
\* datasets of a deleted file are deprecated, they do not keep it.
StoredFileCanBeDeleted == \A f \in Stored : ENABLED DeleteFile(f)
=============================================================================
