--------------------------- MODULE FilePublication ---------------------------
(* When a file counts as published: File.published is set when some published  *)
(* dataset has the file, and is recomputed by background tasks                 *)
(* (FileSet.update_published). A request commits as one step; the tasks it     *)
(* made are run some time later, by any worker, in any order, and again after  *)
(* a crash. A task carries the file set and the dataset as they were when it   *)
(* was made. Each of its two UPDATE statements is one step.                    *)
(* The specification is PublicationSpec: a module that reasons about files     *)
(* extends this one and FileRecords.                                           *)
EXTENDS Naturals, FiniteSets, Bags, Files

CONSTANTS
    Dataset,
    TaskWorker,     \* the workers that run tasks
    RequestKinds,   \* the kinds of request that may come
    MaxSets,        \* bound: file sets made in all
    MaxChanges,     \* bound: requests after the creation of datasets
    MaxCrashes      \* bound: crashes of workers

ASSUME PublicationAssumption ==
    /\ MaxSets \in Nat /\ MaxChanges \in Nat /\ MaxCrashes \in Nat
    /\ None \notin Dataset

Sets == 1..MaxSets

VARIABLES
    dataset,        \* the datasets: state, removed, deprecated, file set
    draft,          \* the linked draft of a dataset, or None
    files,          \* which files each file set has
    stored,         \* files that have not been deleted
    published,      \* files with a publication time
    tasks,          \* bag of the tasks that wait
    pc, taken,      \* what each worker does, and its task
    used,           \* file sets made, requests handled, crashes
    missed,         \* files of a dataset that became public without a task
    leaked          \* files of a dataset that stopped being public without one

publicationVars ==
    << dataset, draft, files, stored, published, tasks, pc, taken, used, missed, leaked >>

Task == [set : Sets, excludeSelf : BOOLEAN, wasPublic : BOOLEAN]

NoDataset == [state |-> "none", removed |-> FALSE, deprecated |-> FALSE, set |-> None]

PublicationTypeOK ==
    /\ dataset \in [Dataset -> [state : {"none", "draft", "published", "flushed"},
                                removed : BOOLEAN, deprecated : BOOLEAN,
                                set : Sets \cup {None}]]
    /\ draft \in [Dataset -> [set : Sets, deprecated : BOOLEAN] \cup {None}]
    /\ files \in [Sets -> SUBSET File]
    /\ stored \subseteq File /\ published \subseteq File
    /\ IsABag(tasks) /\ BagToSet(tasks) \subseteq Task
    /\ pc \in [TaskWorker -> {"idle", "unpublish", "publish"}]
    /\ taken \in [TaskWorker -> Task \cup {None}]
    /\ used \in [sets : 0..MaxSets, requests : 0..MaxChanges, crashes : 0..MaxCrashes]
    /\ missed \subseteq File /\ leaked \subseteq File

PublicationInit ==
    /\ dataset = [d \in Dataset |-> NoDataset]
    /\ draft = [d \in Dataset |-> None]
    /\ files = [s \in Sets |-> {}]
    /\ stored = File
    /\ published = {}
    /\ tasks = EmptyBag
    /\ pc = [w \in TaskWorker |-> "idle"]
    /\ taken = [w \in TaskWorker |-> None]
    /\ used = [sets |-> 0, requests |-> 0, crashes |-> 0]
    /\ missed = {}
    /\ leaked = {}

-----------------------------------------------------------------------------
IsPublic(row) == row.state = "published" /\ ~row.deprecated /\ ~row.removed

PublicSets == {dataset[d].set : d \in {e \in Dataset : IsPublic(dataset[e])}}

FilesOf(sets) == UNION {files[s] : s \in sets}

Exists(d) == dataset[d].state \in {"draft", "published"}

DraftSets(d) == {draft[e].set : e \in {e \in {d} : draft[e] # None}}

\* Datasets that requests find: removed ones only if they ask for them.
Found(d) == Exists(d) /\ ~dataset[d].removed

Make(new) == tasks' = tasks (+) SetToBag(new)

TaskOf(s, excludeSelf, wasPublic) ==
    [set |-> s, excludeSelf |-> excludeSelf, wasPublic |-> wasPublic]

Asked(kind) ==
    /\ kind \in RequestKinds
    /\ used.requests < MaxChanges
    /\ used' = [used EXCEPT !.requests = @ + 1]

AskedForSet(kind) ==
    /\ kind \in RequestKinds
    /\ used.requests < MaxChanges
    /\ used.sets < MaxSets
    /\ used' = [used EXCEPT !.requests = @ + 1, !.sets = @ + 1]

\* Faulty variant of TasksOfSave: added files are forgotten.
TasksOfPublish(row, isNew, added) ==
    IF row.state = "published" /\ (isNew \/ row.deprecated)
    THEN {TaskOf(row.set, FALSE, IsPublic(row))}
    ELSE {}

\* Dataset.save of a published dataset makes a task when it has just been
\* published, when the request added files, or when it is deprecated.
TasksOfSave(row, isNew, added) ==
    IF row.state = "published" /\ (isNew \/ added \/ row.deprecated)
    THEN {TaskOf(row.set, FALSE, IsPublic(row))}
    ELSE {}

\* A draft makes no task when it is deleted.
TasksOfDelete(row) ==
    IF row.state = "published" THEN {TaskOf(row.set, TRUE, IsPublic(row))} ELSE {}

-----------------------------------------------------------------------------
(* Requests. *)

\* A new dataset is a draft. Its files are added without signals.
Create(d, fs) ==
    /\ used.sets < MaxSets
    /\ dataset[d].state = "none"
    /\ used' = [used EXCEPT !.sets = @ + 1]
    /\ dataset' = [dataset EXCEPT ![d] = [@ EXCEPT !.state = "draft", !.set = used'.sets]]
    /\ files' = [files EXCEPT ![used'.sets] = fs \cap stored]
    /\ UNCHANGED << draft, stored, published, tasks, pc, taken, missed, leaked >>

Publish(d) ==
    /\ Asked("publish")
    /\ dataset[d].state = "draft"
    /\ dataset' = [dataset EXCEPT ![d].state = "published"]
    /\ Make(TasksOfSave(dataset'[d], TRUE, FALSE))
    /\ UNCHANGED << draft, files, stored, published, pc, taken, missed, leaked >>

\* The dataset is cumulative: files may be added and not removed.
AddFile(d, f) ==
    /\ Asked("add")
    /\ Found(d)
    /\ f \in stored \ files[dataset[d].set]
    /\ files' = [files EXCEPT ![dataset[d].set] = @ \cup {f}]
    /\ Make(TasksOfSave(dataset[d], FALSE, TRUE))
    /\ UNCHANGED << dataset, draft, stored, published, pc, taken, missed, leaked >>

\* The copier fills the copy's file set with the m2m manager, whose signal
\* makes a task for the file set of a draft.
CreateDraft(d) ==
    /\ AskedForSet("draft")
    /\ Found(d) /\ dataset[d].state = "published"
    /\ draft[d] = None
    /\ draft' = [draft EXCEPT ![d] = [set |-> used'.sets, deprecated |-> FALSE]]
    /\ files' = [files EXCEPT ![used'.sets] = files[dataset[d].set] \cap stored]
    /\ Make({TaskOf(s, FALSE, FALSE) : s \in {t \in {used'.sets} : files'[t] # {}}})
    /\ UNCHANGED << dataset, stored, published, pc, taken, missed, leaked >>

AddFileToDraft(d, f) ==
    /\ Asked("add to draft")
    /\ draft[d] # None
    /\ f \in stored \ files[draft[d].set]
    /\ files' = [files EXCEPT ![draft[d].set] = @ \cup {f}]
    /\ UNCHANGED << dataset, draft, stored, published, tasks, pc, taken, missed, leaked >>

\* The dataset gets the draft's file set and its `deprecated`, which is not
\* set: the save that follows sees no change of files or of the state, and a
\* task that still waits finds the replaced file set empty.
Merge(d) ==
    LET old == dataset[d].set
        new == draft[d].set
        row == [dataset[d] EXCEPT !.set = new, !.deprecated = FALSE]
    IN /\ Asked("merge")
       /\ draft[d] # None /\ ~draft[d].deprecated
       /\ files[old] \cap stored \subseteq files[new]
       /\ dataset' = [dataset EXCEPT ![d] = row]
       /\ draft' = [draft EXCEPT ![d] = None]
       /\ files' = [files EXCEPT ![old] = {}]
       /\ Make(TasksOfSave(row, FALSE, FALSE))
       /\ missed' = missed \cup (files[new] \ published)
       /\ UNCHANGED << stored, published, pc, taken, leaked >>

\* A published dataset is kept as removed, a draft is deleted with its file
\* set. A linked draft is deleted with its original.
Remove(d) ==
    /\ Asked("remove")
    /\ Found(d)
    /\ IF dataset[d].state = "published"
       THEN /\ dataset' = [dataset EXCEPT ![d].removed = TRUE]
            /\ files' = [s \in Sets |-> IF s \in DraftSets(d) THEN {} ELSE files[s]]
       ELSE /\ dataset' = [dataset EXCEPT ![d] = [NoDataset EXCEPT !.state = "flushed"]]
            /\ files' = [files EXCEPT ![dataset[d].set] = {}]
    /\ draft' = [draft EXCEPT ![d] = None]
    /\ Make(TasksOfDelete(dataset[d]))
    /\ UNCHANGED << stored, published, pc, taken, missed, leaked >>

\* The row is deleted with its file set before the task is run, which then
\* finds no files.
Flush(d) ==
    /\ Asked("flush")
    /\ Exists(d)
    /\ dataset' = [dataset EXCEPT ![d] = [NoDataset EXCEPT !.state = "flushed"]]
    /\ files' = [s \in Sets |-> IF s \in {dataset[d].set} \cup DraftSets(d) THEN {} ELSE files[s]]
    /\ draft' = [draft EXCEPT ![d] = None]
    /\ Make(TasksOfDelete(dataset[d]))
    /\ leaked' = leaked \cup files[dataset[d].set]
    /\ UNCHANGED << stored, published, pc, taken, missed >>

\* Dataset.save sees no change that concerns files.
Restore(d) ==
    /\ Asked("restore")
    /\ Exists(d) /\ dataset[d].removed
    /\ dataset' = [dataset EXCEPT ![d].removed = FALSE]
    /\ Make(TasksOfSave(dataset'[d], FALSE, FALSE))
    /\ missed' = missed \cup files[dataset[d].set]
    /\ UNCHANGED << draft, files, stored, published, pc, taken, leaked >>

\* The datasets that are deprecated when a file is deleted, removed ones too.
Deprecates(f) ==
    {d \in Dataset : /\ dataset[d].state = "published" /\ ~dataset[d].deprecated
                     /\ f \in files[dataset[d].set]}

\* A linked draft that has the file is deprecated if its original has files.
LosesFile(d, f) ==
    /\ draft[d] # None
    /\ f \in files[draft[d].set]
    /\ files[dataset[d].set] # {}

DeleteFile(f) ==
    /\ Asked("delete file")
    /\ f \in stored
    /\ stored' = stored \ {f}
    /\ published' = published \ {f}
    /\ dataset' = [d \in Dataset |->
                     [dataset[d] EXCEPT !.deprecated = @ \/ d \in Deprecates(f)]]
    /\ draft' = [d \in Dataset |->
                   IF LosesFile(d, f) THEN [draft[d] EXCEPT !.deprecated = TRUE] ELSE draft[d]]
    /\ Make(UNION {TasksOfSave(dataset'[d], FALSE, FALSE) : d \in Deprecates(f)})
    /\ UNCHANGED << files, pc, taken, missed, leaked >>

-----------------------------------------------------------------------------
(* Workers: FileSet.update_published. *)

\* The dataset was public when the task was made.
PublishesAll(t) == t.wasPublic /\ ~t.excludeSelf

TakeTask(w) ==
    \E t \in BagToSet(tasks) :
        /\ pc[w] = "idle"
        /\ tasks' = tasks (-) SetToBag({t})
        /\ taken' = [taken EXCEPT ![w] = t]
        /\ pc' = [pc EXCEPT ![w] =
                    IF PublishesAll(t) THEN "publish" ELSE "unpublish"]
        /\ UNCHANGED << dataset, draft, files, stored, published, used, missed, leaked >>

\* Faulty variant of Counted: the file set of a removed dataset is counted.
CountedWithSelf(t) == PublicSets \cup {t.set}

\* The file sets that keep a file published when this task is done.
Counted(t) == IF t.excludeSelf THEN PublicSets \ {t.set} ELSE PublicSets

UnpublishFiles(w) ==
    LET gone == (files[taken[w].set] \cap published) \ FilesOf(Counted(taken[w]))
    IN /\ pc[w] = "unpublish"
       /\ published' = published \ gone
       /\ missed' = missed \cup (gone \cap FilesOf(PublicSets))
       /\ pc' = [pc EXCEPT ![w] = "publish"]
       /\ UNCHANGED << dataset, draft, files, stored, tasks, taken, used, leaked >>

\* All files of the dataset, or those that are in some public dataset.
FilesToPublish(t) ==
    IF PublishesAll(t)
    THEN files[t.set] \cap stored
    ELSE files[t.set] \cap stored \cap FilesOf(Counted(t))

PublishFiles(w) ==
    LET new == FilesToPublish(taken[w])
    IN /\ pc[w] = "publish"
       /\ published' = published \cup new
       /\ leaked' = leaked \cup
             (IF PublishesAll(taken[w]) THEN new \ FilesOf(PublicSets) ELSE {})
       /\ pc' = [pc EXCEPT ![w] = "idle"]
       /\ taken' = [taken EXCEPT ![w] = None]
       /\ UNCHANGED << dataset, draft, files, stored, tasks, used, missed >>

\* A worker dies or is stopped: the task is delivered again.
Crash(w) ==
    /\ pc[w] # "idle"
    /\ used.crashes < MaxCrashes
    /\ used' = [used EXCEPT !.crashes = @ + 1]
    /\ Make({taken[w]})
    /\ pc' = [pc EXCEPT ![w] = "idle"]
    /\ taken' = [taken EXCEPT ![w] = None]
    /\ UNCHANGED << dataset, draft, files, stored, published, missed, leaked >>

-----------------------------------------------------------------------------
PublicationNext ==
    \/ \E d \in Dataset :
          \/ \E fs \in SUBSET File : Create(d, fs)
          \/ Publish(d)
          \/ CreateDraft(d)
          \/ Merge(d)
          \/ Remove(d)
          \/ Flush(d)
          \/ Restore(d)
          \/ \E f \in File : AddFile(d, f) \/ AddFileToDraft(d, f)
    \/ \E f \in File : DeleteFile(f)
    \/ \E w \in TaskWorker : TakeTask(w) \/ UnpublishFiles(w) \/ PublishFiles(w) \/ Crash(w)

\* Workers take tasks and finish them.
Fairness ==
    \A w \in TaskWorker : WF_publicationVars(TakeTask(w) \/ UnpublishFiles(w) \/ PublishFiles(w))

PublicationSpec == PublicationInit /\ [][PublicationNext]_publicationVars /\ Fairness

-----------------------------------------------------------------------------
(* Properties. *)

Quiet == tasks = EmptyBag /\ \A w \in TaskWorker : pc[w] = "idle"

PublicFiles == FilesOf(PublicSets) \cap stored

\* When all tasks are done only files of public datasets are published, in
\* whatever order the tasks came, except those that a flush (its task comes
\* when the file set is gone) or an overtaken task left so.
NothingElseIsPublished == Quiet => published \subseteq PublicFiles \cup leaked

\* The files of public datasets become published once requests end, except
\* those for which a restored or merged dataset made no task, or that the task
\* of a removal unpublished after the dataset was restored.
EventuallyPublished == <>[](PublicFiles \subseteq published \cup missed)

\* When all tasks are done the files of flushed datasets are not published
\* either. (It fails: README, Known divergences.)
FlushedFilesAreUnpublished == Quiet => published \subseteq PublicFiles
=============================================================================
