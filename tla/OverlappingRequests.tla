------------------------- MODULE OverlappingRequests -------------------------
(***************************************************************************)
(* Requests that overlap in time, about one published dataset and its      *)
(* linked draft. Each request is a transaction of PostgreSQL at isolation  *)
(* level READ COMMITTED: it sees what others have committed when it reads, *)
(* its own changes are seen by others when it commits, and an UPDATE or    *)
(* DELETE holds the lock of a row until then.                              *)
(*                                                                         *)
(* Views lock the row of the request's target before they read it, but a   *)
(* merge also writes the row of the original, DELETE that of the linked    *)
(* draft, and the deletion of a file those of datasets with the file, and  *)
(* Dataset.save writes all columns as they were read.                      *)
(*                                                                         *)
(* The dataset has been published and is not flushed; it and its draft     *)
(* have a file set, maybe empty. Removing files from drafts is left out.   *)
(***************************************************************************)
EXTENDS FiniteSets, Files

CONSTANTS Worker,  \* processes that serve requests, one at a time each
          Kinds    \* kinds of requests that are made

Row == {"original", "draft"}

\* "file_set" is the row of the file set of the original.
Lock == Row \cup {"file_set"}

CumulativeState == {"NOT_CUMULATIVE", "ACTIVE", "CLOSED"}

DatasetRow == [removed: BOOLEAN, deprecated: BOOLEAN, cumulative: CumulativeState]

\* A PATCH may add a file, set the cumulative state, or both.
Request ==
    { r \in [kind: {"update"}, target: Row, file: File \cup {None},
             cumulative: CumulativeState \cup {None}]
        \cup [kind: {"create_draft", "restore"}, target: {"original"}]
        \cup [kind: {"publish"}, target: {"draft"}]
        \cup [kind: {"delete"}, target: Row]
        \cup [kind: {"delete_file"}, file: File] : r.kind \in Kinds }

ASSUME NoneIsNoRecord ==
    /\ None \notin Worker \cup DatasetRow \cup Request
    /\ None \notin CumulativeState

VARIABLES
    row,       \* committed rows of core_dataset, None for a row that does not exist
    files,     \* committed files of the file set of each row
    deleted,   \* files that are soft deleted
    owner,     \* the worker whose transaction holds a row lock
    job,       \* the request a worker serves
    pc,        \* how far it has come
    seen,      \* rows as the request read them
    todo       \* locks it needs to write other rows than its target

vars == << row, files, deleted, owner, job, pc, seen, todo >>

Unread == [x \in Row |-> None]

TypeOK ==
    /\ row \in [Row -> DatasetRow \cup {None}]
    /\ row["original"] # None
    /\ files \in [Row -> SUBSET File]
    /\ deleted \subseteq File
    /\ owner \in [Lock -> Worker \cup {None}]
    /\ job \in [Worker -> Request \cup {None}]
    /\ pc \in [Worker -> {"idle", "lock", "check", "write"}]
    /\ seen \in [Worker -> [Row -> DatasetRow \cup {None}]]
    /\ todo \in [Worker -> SUBSET Lock]

Init ==
    /\ \E c \in {"NOT_CUMULATIVE", "ACTIVE"} :
           row = [Unread EXCEPT !["original"] =
                     [removed |-> FALSE, deprecated |-> FALSE, cumulative |-> c]]
    /\ \E fs \in SUBSET File : files = [x \in Row |-> IF x = "original" THEN fs ELSE {}]
    /\ deleted = {}
    /\ owner = [l \in Lock |-> None]
    /\ job = [w \in Worker |-> None]
    /\ pc = [w \in Worker |-> "idle"]
    /\ seen = [w \in Worker |-> Unread]
    /\ todo = [w \in Worker |-> {}]

-----------------------------------------------------------------------------
(* Transactions. *)

\* The locks worker w waits for, or would wait for if they were held.
Wanted(w) ==
    CASE pc[w] = "lock" -> {job[w].target}
      [] pc[w] = "write" /\ job[w].kind = "delete_file" ->
             {x \in todo[w] : seen[w][x] # None}
      [] pc[w] = "write" /\ "file_set" \in todo[w] -> {"file_set"}
      [] pc[w] = "write" -> todo[w]
      [] OTHER -> {}

Blockers(w) == {owner[l] : l \in Wanted(w)} \ {None, w}

\* The transaction is over and its locks are released.
EndTransaction(w) ==
    /\ owner' = [l \in Lock |-> IF owner[l] = w THEN None ELSE owner[l]]
    /\ pc' = [pc EXCEPT ![w] = "idle"]
    /\ job' = [job EXCEPT ![w] = None]
    /\ seen' = [seen EXCEPT ![w] = Unread]
    /\ todo' = [todo EXCEPT ![w] = {}]

\* Faulty variant of Rollback: the request is tried again until it succeeds.
TryAgain(w) ==
    /\ owner' = [l \in Lock |-> IF owner[l] = w THEN None ELSE owner[l]]
    /\ seen' = [seen EXCEPT ![w] = Unread]
    /\ IF job[w].kind = "delete_file"
       THEN /\ todo' = [todo EXCEPT ![w] = {x \in Row : job[w].file \in files[x]}]
            /\ UNCHANGED pc
       ELSE /\ todo' = [todo EXCEPT ![w] = {}]
            /\ pc' = [pc EXCEPT ![w] = "lock"]
    /\ UNCHANGED << row, files, deleted, job >>

Rollback(w) == EndTransaction(w) /\ UNCHANGED << row, files, deleted >>

\* PostgreSQL aborts one of two transactions that wait for each other. Larger
\* cycles do not occur: the owner of "file_set" owns another lock as well.
AbortDeadlock(w) ==
    /\ \E v \in Blockers(w) : w \in Blockers(v)
    /\ Rollback(w)

-----------------------------------------------------------------------------
(* A request about a dataset. *)

\* Two deletions of one file take the lock of the file in turn, and the second
\* finds nothing to delete.
Receive(w, r) ==
    /\ pc[w] = "idle"
    /\ r.kind = "delete_file" =>
           /\ r.file \notin deleted
           /\ \A v \in Worker : job[v] # r
    /\ job' = [job EXCEPT ![w] = r]
    /\ IF r.kind = "delete_file"
       THEN /\ pc' = [pc EXCEPT ![w] = "write"]
            /\ todo' = [todo EXCEPT ![w] = {x \in Row : r.file \in files[x]}]
       ELSE /\ pc' = [pc EXCEPT ![w] = "lock"]
            /\ UNCHANGED todo
    /\ UNCHANGED << row, files, deleted, owner, seen >>

\* Removed datasets are looked for by restore, and by PATCH if it says so.
Found(r) ==
    /\ row[r.target] # None
    /\ row[r.target].removed => r.kind \in {"restore", "update"}

\* Faulty variant of TargetIsFree: the row is read without waiting for its lock.
TargetIsRead(r) == TRUE

TargetIsFree(r) == owner[r.target] = None

\* lock_for_update, and then the query for the dataset and its relations.
LockTarget(w) ==
    /\ pc[w] = "lock"
    /\ TargetIsFree(job[w])
    /\ IF Found(job[w])
       THEN /\ owner' = [owner EXCEPT ![job[w].target] = w]
            /\ seen' = [seen EXCEPT ![w] = row]
            /\ pc' = [pc EXCEPT ![w] = "check"]
            /\ UNCHANGED << row, files, deleted, job, todo >>
       ELSE Rollback(w)

AvailableFiles(x) == files[x] \ deleted

CumulativeAfter(c) == {c} \cup (IF c = "ACTIVE" THEN {"CLOSED"} ELSE {})

CumulativeOfCopy(c) == IF c = "CLOSED" THEN "NOT_CUMULATIVE" ELSE c

\* What the update leaves in column cumulative_state of its target.
CumulativeOfUpdate(w) ==
    IF job[w].cumulative = None THEN seen[w][job[w].target].cumulative
    ELSE job[w].cumulative

\* A file that is already in the file set is not added again.
AddedFiles(w) == {job[w].file} \ ({None} \cup files[job[w].target])

\* Both for the original and for its draft, the original decides. The rows are
\* those the request read, files are queried when they are needed.
UpdateAllowed(w) ==
    /\ job[w].file \notin deleted
    /\ AddedFiles(w) # {} =>
           seen[w]["original"].cumulative = "ACTIVE" \/ files["original"] = {}
    /\ CumulativeOfUpdate(w) \in CumulativeAfter(seen[w]["original"].cumulative)

MergeKeepsFiles ==
    AvailableFiles("original") # {} =>
        AvailableFiles("original") \subseteq AvailableFiles("draft")

MergeAllowed(w) ==
    /\ ~seen[w]["draft"].deprecated
    /\ MergeKeepsFiles
    /\ AvailableFiles("original") # {} =>
           \/ AvailableFiles("draft") \subseteq AvailableFiles("original")
           \/ seen[w]["original"].cumulative = "ACTIVE"
    /\ seen[w]["draft"].cumulative \in CumulativeAfter(seen[w]["original"].cumulative)

CreateDraftAllowed(w) ==
    LET c == seen[w]["original"].cumulative IN
    /\ seen[w]["draft"] = None
    /\ CumulativeOfCopy(c) \in CumulativeAfter(c)

Allowed(w) ==
    CASE job[w].kind = "update" -> UpdateAllowed(w)
      [] job[w].kind = "publish" -> MergeAllowed(w)
      [] job[w].kind = "create_draft" -> CreateDraftAllowed(w)
      [] OTHER -> TRUE

\* Faulty variant of LocksOfDraft: whoever works on the linked draft is not
\* waited for.
LocksOfNoDraft(w) == {}

\* DELETE of the original deletes the linked draft it has seen.
LocksOfDraft(w) ==
    {x \in {"draft"} : job[w].target = "original" /\ seen[w][x] # None}

\* Adding files clears the cached totals of the file set.
LocksToTake(w) ==
    CASE job[w].kind = "update" ->
             {l \in {"file_set"} : job[w].target = "original" /\ AddedFiles(w) # {}}
      [] job[w].kind = "publish" -> {"file_set", "original"}
      [] job[w].kind = "delete" -> LocksOfDraft(w)
      [] OTHER -> {}

Check(w) ==
    /\ pc[w] = "check"
    /\ IF Allowed(w)
       THEN /\ pc' = [pc EXCEPT ![w] = "write"]
            /\ todo' = [todo EXCEPT ![w] = LocksToTake(w)]
            /\ UNCHANGED << row, files, deleted, owner, job, seen >>
       ELSE Rollback(w)

\* A merge deletes the file set of the original. If an update is adding a file
\* to it, the merge waits for the update and then fails on the foreign key.
WriteOtherRow(w, l) ==
    /\ pc[w] = "write"
    /\ l \in Wanted(w)
    /\ IF job[w].kind = "publish" /\ l = "file_set" /\ owner[l] # None
       THEN Rollback(w)
       ELSE /\ job[w].kind # "delete_file"
            /\ owner[l] = None
            /\ owner' = [owner EXCEPT ![l] = w]
            /\ todo' = [todo EXCEPT ![w] = @ \ {l}]
            /\ UNCHANGED << row, files, deleted, job, pc, seen >>

CommitUpdate(w) ==
    LET x == job[w].target IN
    /\ row' = [row EXCEPT ![x] = [seen[w][x] EXCEPT !.cumulative = CumulativeOfUpdate(w)]]
    /\ files' = [files EXCEPT ![x] = @ \cup AddedFiles(w)]
    /\ UNCHANGED deleted

CommitCreateDraft(w) ==
    /\ row' = [row EXCEPT !["draft"] =
                  [removed |-> FALSE, deprecated |-> FALSE,
                   cumulative |-> CumulativeOfCopy(seen[w]["original"].cumulative)]]
    /\ files' = [files EXCEPT !["draft"] = AvailableFiles("original")]
    /\ UNCHANGED deleted

\* The fields of the draft replace all that the model has of the original.
CommitMerge(w) ==
    /\ row' = [row EXCEPT !["original"] = seen[w]["draft"], !["draft"] = None]
    /\ files' = [files EXCEPT !["original"] = files["draft"], !["draft"] = {}]
    /\ UNCHANGED deleted

\* A draft is deleted for good, the original is hidden.
CommitDelete(w) ==
    /\ row' = [x \in Row |->
                  IF x = "draft" THEN None
                  ELSE IF job[w].target = "original" THEN [seen[w][x] EXCEPT !.removed = TRUE]
                  ELSE row[x]]
    /\ files' = [files EXCEPT !["draft"] = {}]
    /\ UNCHANGED deleted

CommitRestore(w) ==
    /\ row' = [row EXCEPT !["original"] = [seen[w]["original"] EXCEPT !.removed = FALSE]]
    /\ UNCHANGED << files, deleted >>

\* The datasets the request deprecated, with the other columns as it read them.
CommitDeleteFile(w) ==
    /\ row' = [x \in Row |->
                  IF seen[w][x] = None THEN row[x]
                  ELSE [seen[w][x] EXCEPT !.deprecated = TRUE]]
    /\ deleted' = deleted \cup {job[w].file}
    /\ UNCHANGED files

Commit(w) ==
    /\ pc[w] = "write"
    /\ todo[w] = {}
    /\ \/ job[w].kind = "update" /\ CommitUpdate(w)
       \/ job[w].kind = "create_draft" /\ CommitCreateDraft(w)
       \/ job[w].kind = "publish" /\ CommitMerge(w)
       \/ job[w].kind = "delete" /\ CommitDelete(w)
       \/ job[w].kind = "restore" /\ CommitRestore(w)
       \/ job[w].kind = "delete_file" /\ CommitDeleteFile(w)
    /\ EndTransaction(w)

-----------------------------------------------------------------------------
(* Deletion of a file: datasets are read and saved one after another. *)

NeedsDeprecation(x) ==
    /\ row[x] # None
    /\ files["original"] # {}  \* has_published_files, of the original or its draft
    /\ ~row[x].deprecated

ReadToDeprecate(w, x) ==
    /\ pc[w] = "write"
    /\ job[w].kind = "delete_file"
    /\ Wanted(w) = {}
    /\ x \in todo[w]
    /\ IF ~NeedsDeprecation(x)
       THEN /\ todo' = [todo EXCEPT ![w] = @ \ {x}]
            /\ UNCHANGED << row, files, deleted, owner, job, pc, seen >>
       ELSE IF row[x].cumulative \in CumulativeAfter(row["original"].cumulative)
       THEN /\ seen' = [seen EXCEPT ![w][x] = row[x]]
            /\ UNCHANGED << row, files, deleted, owner, job, pc, todo >>
       ELSE Rollback(w)

\* Saving a row that is gone turns into an INSERT, which fails on constraints.
SaveDeprecated(w, x) ==
    /\ pc[w] = "write"
    /\ job[w].kind = "delete_file"
    /\ x \in Wanted(w)
    /\ owner[x] = None
    /\ IF row[x] = None
       THEN Rollback(w)
       ELSE /\ owner' = [owner EXCEPT ![x] = w]
            /\ todo' = [todo EXCEPT ![w] = @ \ {x}]
            /\ UNCHANGED << row, files, deleted, job, pc, seen >>

-----------------------------------------------------------------------------

Proceed(w) ==
    \/ LockTarget(w)
    \/ Check(w)
    \/ \E l \in Lock : WriteOtherRow(w, l)
    \/ \E x \in Row : ReadToDeprecate(w, x) \/ SaveDeprecated(w, x)
    \/ Commit(w)

Next ==
    \E w \in Worker :
        \/ \E r \in Request : Receive(w, r)
        \/ Proceed(w)
        \/ AbortDeadlock(w)

\* PostgreSQL grants a lock to the transactions that wait for it in turn, so no
\* request waits for ever while others come and go, and it looks for deadlocks.
Fairness ==
    /\ \A w \in Worker : SF_vars(Proceed(w))
    /\ WF_vars(\E w \in Worker : AbortDeadlock(w))

Spec == Init /\ [][Next]_vars /\ Fairness

-----------------------------------------------------------------------------
(* Properties. *)

Commits(kind) == \E w \in Worker : job[w] # None /\ job[w].kind = kind /\ job'[w] = None

\* A merge and a deprecation save rows of datasets that they have read before
\* they lock them. What they undo is under "Known divergences" in the README.
SavesRowReadUnlocked == Commits("publish") \/ Commits("delete_file")

\* The published dataset is not made cumulative, nor reopened after it was
\* closed, by other requests. Each validates this against the row it has read
\* (_validate_cumulative_state), so it is as good as the locking of the row.
ClosedStaysClosed ==
    [][\/ row'["original"].cumulative \in CumulativeAfter(row["original"].cumulative)
       \/ SavesRowReadUnlocked]_vars

\* The published dataset loses a file only by deletion of the file itself.
PublishedFilesAreKept ==
    [][files["original"] \ deleted' \subseteq files'["original"]]_vars

DraftHasItsOriginal == row["draft"] # None => ~row["original"].removed

\* A linked draft is not left behind by the removal of its original, nor made
\* of a removed one (DELETE takes the draft along), unless a deprecation that had
\* read the original as removed saves it after it was restored.
NoDraftIsLeftBehind ==
    [][DraftHasItsOriginal => DraftHasItsOriginal' \/ Commits("delete_file")]_vars

\* A removed dataset is back only when a restore request has brought it back, or
\* a deprecation that had read it before, or the merge of a draft which a
\* deprecation has left behind. A merge writes column removed, which it read
\* before, and does not lock the original until it writes it; but then DELETE
\* waits for the draft.
RemovedStaysRemoved ==
    [][row["original"].removed /\ ~row'["original"].removed =>
           Commits("restore") \/ Commits("delete_file") \/ ~DraftHasItsOriginal]_vars

\* Every request ends, though requests take locks in different orders.
RequestsEnd == \A w \in Worker : pc[w] # "idle" ~> pc[w] = "idle"
=============================================================================
