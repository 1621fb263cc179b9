-------------------------------- MODULE V2Sync --------------------------------
(***************************************************************************)
(* Copying the changes of one published dataset to Metax V2. A request     *)
(* that changes the dataset leaves a task in the queue when it commits;    *)
(* workers run the tasks, each with the dataset as it was when the task    *)
(* was made. An advisory lock keeps the syncs of a dataset apart. A        *)
(* command, run by hand or by a timer, repeats syncs whose status says     *)
(* that they failed or never stopped.                                      *)
(*                                                                         *)
(* Time is the number of changes so far, so record_modified of the dataset *)
(* is the number of its change. The dataset is not a draft (V2 gets no     *)
(* drafts), has api_version 3 and a file set.                              *)
(***************************************************************************)
EXTENDS Naturals, FiniteSets

CONSTANTS Worker,       \* processes that run tasks
          Kinds,        \* kinds of requests that are made
          MaxChanges,   \* bound on requests
          MaxCrashes,   \* bound on crashes of workers, below max_attempts of the queue
          MaxFailures,  \* bound on failures of Metax V2
          None          \* Python's None

VARIABLES
    row,       \* the committed dataset, None before it exists and after FLUSH
    now,       \* number of changes so far
    tasks,     \* the queue: tasks that are not acknowledged yet
    job,       \* what a worker or the command syncs, None if it is idle
    pc,        \* how far it has come
    lock,      \* owner of the advisory lock of the dataset
    status,    \* row of V2SyncStatus
    lastSync,  \* record_modified of LastSuccessfulV2Sync, 0 if there is none
    v2,        \* what Metax V2 has, and as of which change
    crashes,   \* crashes of workers so far
    failures,  \* failures of Metax V2 so far
    outdated   \* history: V2 was asked to remove what had changed since

vars == << row, now, tasks, job, pc, lock, status, lastSync, v2, crashes, failures, outdated >>

Command == "retry_sync_datasets"
Syncer == Worker \cup {Command}

ASSUME BoundsAreNumbers == MaxChanges \in Nat /\ MaxCrashes \in Nat /\ MaxFailures \in Nat
ASSUME NoneIsNoSyncer == None \notin Syncer
ASSUME CommandIsNoWorker == Command \notin Worker

SyncAction == {"create", "update", "delete", "flush"}
Change == 0 .. MaxChanges

Task == [action: SyncAction, modified: Change, removed: BOOLEAN]
Job == [action: SyncAction, modified: Change, removed: BOOLEAN, force: BOOLEAN, hard: BOOLEAN]
Status == [action: SyncAction, modified: Change, stopped: BOOLEAN, error: BOOLEAN]

ASSUME NoneIsNoRecord == None \notin [modified: Change, removed: BOOLEAN] \cup Status

TypeOK ==
    /\ row \in [modified: Change, removed: BOOLEAN] \cup {None}
    /\ now \in Change
    /\ tasks \subseteq Task
    /\ job \in [Syncer -> Job \cup {None}]
    /\ pc \in [Syncer -> {"idle", "lock", "dataset", "files", "stop", "fail", "commit"}]
    /\ lock \in Syncer \cup {None}
    /\ status \in Status \cup {None}
    /\ lastSync \in Change
    /\ v2 \in [state: {"absent", "present", "removed"}, asOf: Change, files: Change]
    /\ crashes \in 0 .. MaxCrashes
    /\ failures \in 0 .. MaxFailures
    /\ outdated \in BOOLEAN

Init ==
    /\ row = None
    /\ now = 0
    /\ tasks = {}
    /\ job = [s \in Syncer |-> None]
    /\ pc = [s \in Syncer |-> "idle"]
    /\ lock = None
    /\ status = None
    /\ lastSync = 0
    /\ v2 = [state |-> "absent", asOf |-> 0, files |-> 0]
    /\ crashes = 0
    /\ failures = 0
    /\ outdated = FALSE

-----------------------------------------------------------------------------
(* Requests about the dataset. The task is created with the change. *)

MakeTask(action, removed) ==
    tasks' = tasks \cup {[action |-> action, modified |-> now', removed |-> removed]}

Request(kind, action, removed, newRow) ==
    /\ kind \in Kinds
    /\ now < MaxChanges
    /\ now' = now + 1
    /\ row' = newRow
    /\ MakeTask(action, removed)
    /\ UNCHANGED << job, pc, lock, status, lastSync, v2, crashes, failures, outdated >>

Saved(removed) == [modified |-> now + 1, removed |-> removed]

Create == now = 0 /\ Request("create", "create", FALSE, Saved(FALSE))

\* A removed dataset can be patched too, with include_removed.
Update ==
    /\ row # None
    /\ \/ ~row.removed /\ Request("update", "update", FALSE, Saved(FALSE))
       \/ row.removed /\ Request("update removed", "update", TRUE, Saved(TRUE))

Delete ==
    /\ row # None
    /\ ~row.removed
    /\ Request("delete", "delete", TRUE, Saved(TRUE))

Restore ==
    /\ row # None
    /\ row.removed
    /\ Request("restore", "update", FALSE, Saved(FALSE))

Flush == row # None /\ Request("flush", "flush", row.removed, None)

-----------------------------------------------------------------------------
(* Starting a sync. *)

\* The columns of a task that a sync uses.
Snapshot(t, force) ==
    [action |-> t.action, modified |-> t.modified, removed |-> t.removed, force |-> force,
     hard |-> t.action = "flush"]

Taken(t) == \E w \in Worker : job[w] = Snapshot(t, FALSE)

\* The queue delivers tasks in no particular order.
TakeTask(w, t) ==
    /\ pc[w] = "idle"
    /\ t \in tasks
    /\ ~Taken(t)
    /\ job' = [job EXCEPT ![w] = Snapshot(t, FALSE)]
    /\ pc' = [pc EXCEPT ![w] = "lock"]
    /\ UNCHANGED << row, now, tasks, lock, status, lastSync, v2, crashes, failures, outdated >>

FailedSync == status # None /\ (status.error \/ ~status.stopped)

\* The command reads statuses and datasets first. A dataset that is gone is
\* skipped unless it is to be deleted; a Dataset made for that is as of now, and
\* it is a draft by default, for which V2 is not asked for a hard delete.
StartRetry ==
    /\ pc[Command] = "idle"
    /\ FailedSync
    /\ row # None \/ status.action \in {"delete", "flush"}
    /\ job' = [job EXCEPT ![Command] =
                  [action |-> status.action, force |-> TRUE,
                   modified |-> IF row = None THEN now ELSE row.modified,
                   removed |-> row # None /\ row.removed,
                   hard |-> status.action = "flush" /\ row # None]]
    /\ pc' = [pc EXCEPT ![Command] = "lock"]
    /\ UNCHANGED << row, now, tasks, lock, status, lastSync, v2, crashes, failures, outdated >>

\* The transaction of s ends; a task of the queue is acknowledged.
EndSync(s) ==
    /\ job' = [job EXCEPT ![s] = None]
    /\ pc' = [pc EXCEPT ![s] = "idle"]
    /\ tasks' = {t \in tasks : s = Command \/ Snapshot(t, FALSE) # job[s]}
    /\ lock' = IF lock = s THEN None ELSE lock

SkipLocked ==
    /\ pc[Command] = "lock"
    /\ lock # None
    /\ EndSync(Command)
    /\ UNCHANGED << row, now, status, lastSync, v2, crashes, failures, outdated >>

\* Faulty variant of ShouldSync: it is not asked what has been synced.
ShouldAlwaysSync(j) == TRUE

ShouldSync(j) == j.action \in {"delete", "flush"} \/ lastSync <= j.modified

\* Faulty variant of LockIsFree: the syncs of a dataset are not kept apart.
LockIsIgnored == TRUE

LockIsFree == lock = None

\* sync_dataset_to_v2: lock, decide, and tell on another connection.
StartSync(s) ==
    /\ pc[s] = "lock"
    /\ LockIsFree
    /\ IF ShouldSync(job[s])
       THEN /\ lock' = s
            /\ status' = [action |-> job[s].action, modified |-> job[s].modified,
                          stopped |-> FALSE, error |-> FALSE]
            /\ pc' = [pc EXCEPT ![s] = "dataset"]
            /\ UNCHANGED << tasks, job >>
       ELSE EndSync(s) /\ UNCHANGED status
    /\ UNCHANGED << row, now, lastSync, v2, crashes, failures, outdated >>

-----------------------------------------------------------------------------
(* Calls of Metax V2. *)

GoTo(s, place) == pc' = [pc EXCEPT ![s] = place]

\* POST says that the dataset is new, and V2 refuses one that it has.
PostIsRefused(j) == j.action = "create" /\ ~j.force /\ v2.state # "absent"

\* Faulty variant of AfterUpdate: the retry command does not look whether V2
\* has the dataset, but posts it.
PostAgain(j) == IF v2.state # "absent" /\ j.action = "create" THEN "fail" ELSE "files"

AfterUpdate(j) == IF PostIsRefused(j) /\ ~j.removed THEN "fail" ELSE "files"

\* A dataset that V2 does not have counts as deleted.
AfterDelete(j) ==
    IF v2.state = "absent" THEN v2
    ELSE IF j.hard THEN [state |-> "absent", asOf |-> j.modified, files |-> 0]
    ELSE [v2 EXCEPT !.state = "removed", !.asOf = j.modified]

\* A removal of a dataset of which a newer version has been synced, or that a
\* retry repeats as of the change that has restored the dataset since.
IsOutdated(j) ==
    \/ j.modified < lastSync
    \/ row # None /\ ~row.removed /\ row.modified = j.modified

\* update_dataset does nothing about a removed dataset.
SyncDataset(s) ==
    LET j == job[s] IN
    /\ pc[s] = "dataset"
    /\ CASE j.action \in {"create", "update"} ->
                /\ GoTo(s, AfterUpdate(j))
                /\ v2' = IF j.removed \/ AfterUpdate(j) = "fail" THEN v2
                         ELSE [v2 EXCEPT !.state = "present", !.asOf = j.modified]
                /\ UNCHANGED outdated
         [] j.action \in {"delete", "flush"} ->
                /\ GoTo(s, "stop")
                /\ v2' = AfterDelete(j)
                /\ outdated' = (outdated \/ IsOutdated(j))
    /\ UNCHANGED << row, now, tasks, job, lock, status, lastSync, crashes, failures >>

\* The files are queried when they are sent, so they may be newer than the dataset.
SyncFiles(s) ==
    /\ pc[s] = "files"
    /\ GoTo(s, "stop")
    /\ v2' = IF job[s].removed \/ row = None THEN v2 ELSE [v2 EXCEPT !.files = row.modified]
    /\ UNCHANGED << row, now, tasks, job, lock, status, lastSync, crashes, failures, outdated >>

\* A call that fails changes nothing in V2.
CallFails(s) ==
    /\ pc[s] \in {"dataset", "files"}
    /\ failures < MaxFailures
    /\ failures' = failures + 1
    /\ GoTo(s, "fail")
    /\ UNCHANGED << row, now, tasks, job, lock, status, lastSync, v2, crashes, outdated >>

\* The status is saved at once, on its own connection.
StopSync(s) ==
    /\ pc[s] \in {"stop", "fail"}
    /\ status' = [status EXCEPT !.stopped = TRUE, !.error = (pc[s] = "fail")]
    /\ GoTo(s, "commit")
    /\ UNCHANGED << row, now, tasks, job, lock, lastSync, v2, crashes, failures, outdated >>

\* What was synced is saved with the transaction that holds the lock.
CommitSync(s) ==
    /\ pc[s] = "commit"
    /\ lastSync' = IF status.error THEN lastSync ELSE job[s].modified
    /\ EndSync(s)
    /\ UNCHANGED << row, now, status, v2, crashes, failures, outdated >>

\* A worker dies, or is stopped after the time limit of tasks. PostgreSQL rolls
\* its transaction back, and the queue delivers the task again.
Crash(w) ==
    /\ pc[w] # "idle"
    /\ crashes < MaxCrashes
    /\ crashes' = crashes + 1
    /\ job' = [job EXCEPT ![w] = None]
    /\ pc' = [pc EXCEPT ![w] = "idle"]
    /\ lock' = IF lock = w THEN None ELSE lock
    /\ UNCHANGED << row, now, tasks, status, lastSync, v2, failures, outdated >>

-----------------------------------------------------------------------------

Requests == Create \/ Update \/ Delete \/ Restore \/ Flush

Proceed(s) ==
    \/ StartSync(s)
    \/ SyncDataset(s)
    \/ SyncFiles(s)
    \/ StopSync(s)
    \/ CommitSync(s)

Next ==
    \/ Requests
    \/ \E w \in Worker : (\E t \in tasks : TakeTask(w, t)) \/ Crash(w)
    \/ StartRetry
    \/ SkipLocked
    \/ \E s \in Syncer : Proceed(s) \/ CallFails(s)

\* Tasks are taken and syncs proceed; the command is run again and again.
Fairness ==
    /\ \A w \in Worker : WF_vars(\E t \in tasks : TakeTask(w, t))
    /\ \A s \in Syncer : SF_vars(Proceed(s))
    /\ WF_vars(StartRetry)

Spec == Init /\ [][Next]_vars /\ Fairness

-----------------------------------------------------------------------------
(* Properties. *)

\* V2 has the dataset as it is, or does not show it if it was removed.
InSync ==
    CASE row = None -> v2.state = "absent"
      [] row # None /\ row.removed -> v2.state # "present"
      [] OTHER -> v2 = [state |-> "present", asOf |-> row.modified, files |-> row.modified]

Quiet == tasks = {} /\ \A s \in Syncer : pc[s] = "idle"

\* V2 does not get an older version of the dataset than the last that was
\* synced, though workers run tasks in any order and repeat them after a crash:
\* what should_sync decides stays right because the lock is held until commit.
NeverBackInTime ==
    [][v2' # v2 /\ v2'.state = "present" => v2'.asOf >= lastSync]_vars

\* Nor is the dataset removed from V2 because of an older change.
NoLateRemoval ==
    [][v2' # v2 /\ v2'.state = "removed" => v2'.asOf >= lastSync]_vars

\* The case in which no failure is forgotten: a failed call is not followed by
\* the success of another sync, whose status would replace its own.
NoneForgotten == failures = 0 \/ now = 1

\* When all tasks are done, a dataset that V2 does not have as it is has a
\* status that says so: only those are found by the health check and repeated.
\* So it is whenever workers crash or V2 refuses a dataset it has already. Not
\* after an outdated removal: NoLateRemoval does not hold, and as its record of
\* what has been synced is older than that of a sync before it, versions older
\* than the last are synced again.
FailureIsRemembered ==
    NoneForgotten /\ ~outdated /\ Quiet /\ ~InSync => FailedSync

\* V2 ends up with the last change, if requests come to an end.
EventuallyInSync == <>[](NoneForgotten /\ ~outdated => InSync)

\* A flush that has succeeded leaves nothing of the dataset in V2.
FlushedIsGone ==
    status # None /\ status.action = "flush" /\ status.stopped /\ ~status.error =>
        v2.state = "absent"

\* The command repeats a sync only if it has failed.
OnlyFailedSyncsAreRetried ==
    [][pc[Command] = "lock" /\ pc'[Command] = "dataset" => FailedSync]_vars
=============================================================================
