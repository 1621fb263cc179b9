---------------------------- MODULE V2Sync_proofs ----------------------------
(* Metax V2 is not set back, and what it does not have is known or on its way, *)
(* for any number of workers, changes, crashes and failures: the advisory lock *)
(* keeps what should_sync decided true until the transaction that holds it     *)
(* commits.                                                                    *)
EXTENDS V2Sync, TLAPS

Syncing == {"dataset", "files", "stop", "fail", "commit"}

\* A sync that has passed StartSync holds the lock and has a status.
SyncsAreApart ==
    \A s \in Syncer :
        /\ pc[s] # "idle" => job[s] \in Job
        /\ pc[s] \in Syncing => lock = s /\ status \in Status

\* What a sync sends is not older than what has been synced.
SyncsAreNotOld ==
    \A s \in Syncer :
        /\ pc[s] = "dataset" /\ job[s].action \in {"create", "update"} =>
               lastSync <= job[s].modified
        /\ pc[s] = "files" /\ ~job[s].removed => lastSync <= v2.asOf

IInv == TypeOK /\ SyncsAreApart /\ SyncsAreNotOld

LEMMA InitIsGood == Init => IInv
<1> SUFFICES ASSUME Init PROVE IInv OBVIOUS
<1>1. outdated \in BOOLEAN
  BY Zenon DEF Init
<1>2. TypeOK
  BY <1>1, BoundsAreNumbers DEF Init, TypeOK, Change
<1> QED BY <1>2 DEF Init, IInv, SyncsAreApart, SyncsAreNotOld, Syncing

\* Snapshots of tasks are jobs.
LEMMA SnapshotIsJob == \A t \in Task, force \in BOOLEAN : Snapshot(t, force) \in Job
BY DEF Snapshot, Task, Job

\* The status of a sync that starts.
LEMMA NewStatus ==
    \A j \in Job :
        [action |-> j.action, modified |-> j.modified, stopped |-> FALSE, error |-> FALSE] \in Status
BY DEF Job, Status

LEMMA DeletedIsTyped ==
    ASSUME TypeOK, NEW j \in Job
    PROVE  AfterDelete(j) \in [state: {"absent", "present", "removed"}, asOf: Change, files: Change]
<1>1. j.modified \in Change /\ 0 \in Change
  BY BoundsAreNumbers DEF Job, Change
<1>2. v2 \in [state: {"absent", "present", "removed"}, asOf: Change, files: Change]
  BY DEF TypeOK
<1>3. [state |-> "absent", asOf |-> j.modified, files |-> 0]
        \in [state: {"absent", "present", "removed"}, asOf: Change, files: Change]
  BY <1>1
<1>4. [v2 EXCEPT !.state = "removed", !.asOf = j.modified]
        \in [state: {"absent", "present", "removed"}, asOf: Change, files: Change]
  BY <1>1, <1>2
<1> QED BY <1>2, <1>3, <1>4 DEF AfterDelete

-----------------------------------------------------------------------------
(* Types. *)

LEMMA RequestKeepsType ==
    ASSUME TypeOK, NEW kind, NEW action \in SyncAction, NEW r \in BOOLEAN,
           NEW newRow, now < MaxChanges => newRow \in [modified: Change, removed: BOOLEAN] \cup {None},
           Request(kind, action, r, newRow)
    PROVE  TypeOK'
<1>1. now' \in Change
  BY BoundsAreNumbers DEF TypeOK, Request, Change
<1>2. tasks' \subseteq Task
  BY <1>1 DEF TypeOK, Request, MakeTask, Task
<1> QED BY <1>1, <1>2 DEF TypeOK, Request

LEMMA EndSyncKeepsType ==
    ASSUME TypeOK, NEW s \in Syncer, EndSync(s)
    PROVE  /\ tasks' \subseteq Task
           /\ job' \in [Syncer -> Job \cup {None}]
           /\ pc' \in [Syncer -> {"idle", "lock", "dataset", "files", "stop", "fail", "commit"}]
           /\ lock' \in Syncer \cup {None}
BY DEF TypeOK, EndSync

LEMMA TypeStep == IInv /\ [Next]_vars => TypeOK'
<1> SUFFICES ASSUME IInv, [Next]_vars PROVE TypeOK' OBVIOUS
<1> USE DEF IInv
<1>1. CASE Requests
  <2>1. \A r \in BOOLEAN : now < MaxChanges => Saved(r) \in [modified: Change, removed: BOOLEAN]
    BY BoundsAreNumbers DEF Saved, TypeOK, Change
  <2>2. row # None => row.removed \in BOOLEAN
    BY DEF TypeOK
  <2> QED
    BY <1>1, <2>1, <2>2, RequestKeepsType
       DEF Requests, Create, Update, Delete, Restore, Flush, SyncAction
<1>2. ASSUME NEW w \in Worker, NEW t \in tasks, TakeTask(w, t) PROVE TypeOK'
  BY <1>2, SnapshotIsJob DEF TakeTask, TypeOK, Syncer
<1>3. ASSUME NEW w \in Worker, Crash(w) PROVE TypeOK'
  BY <1>3, BoundsAreNumbers DEF Crash, TypeOK, Syncer
<1>4. CASE StartRetry
  <2>1. status \in Status
    BY <1>4 DEF StartRetry, FailedSync, TypeOK
  <2>2. job'[Command] \in Job
    BY <1>4, <2>1 DEF StartRetry, TypeOK, Status, Job, Syncer
  <2>3. job' \in [Syncer -> Job \cup {None}]
    BY <1>4, <2>2 DEF StartRetry, TypeOK
  <2> QED BY <1>4, <2>3 DEF StartRetry, TypeOK, Syncer
<1>5. CASE SkipLocked
  BY <1>5, EndSyncKeepsType DEF SkipLocked, TypeOK, Syncer
<1>6. ASSUME NEW s \in Syncer, StartSync(s) PROVE TypeOK'
  <2>1. job[s] \in Job
    BY <1>6 DEF StartSync, SyncsAreApart
  <2>2. CASE ShouldSync(job[s])
    <3>1. status' \in Status
      BY <1>6, <2>1, <2>2, NewStatus DEF StartSync
    <3> QED BY <1>6, <2>2, <3>1 DEF StartSync, TypeOK
  <2>3. CASE ~ShouldSync(job[s])
    BY <1>6, <2>3, EndSyncKeepsType DEF StartSync, TypeOK
  <2> QED BY <2>2, <2>3
<1>7. ASSUME NEW s \in Syncer, SyncDataset(s) PROVE TypeOK'
  <2>1. job[s] \in Job
    BY <1>7 DEF SyncDataset, SyncsAreApart
  <2>2. AfterUpdate(job[s]) \in {"fail", "files"} /\ AfterDelete(job[s]) \in
            [state: {"absent", "present", "removed"}, asOf: Change, files: Change]
    BY <2>1, DeletedIsTyped DEF AfterUpdate
  <2>3. pc' \in [Syncer -> {"idle", "lock", "dataset", "files", "stop", "fail", "commit"}]
    BY <1>7, <2>1, <2>2 DEF SyncDataset, GoTo, TypeOK, Job, SyncAction
  <2>4. v2' \in [state: {"absent", "present", "removed"}, asOf: Change, files: Change]
    BY <1>7, <2>1, <2>2 DEF SyncDataset, TypeOK, Job, SyncAction
  <2>5. outdated' \in BOOLEAN
    <3>1. outdated \in BOOLEAN
      BY DEF TypeOK
    <3>2. outdated' = outdated \/ outdated' = (outdated \/ IsOutdated(job[s]))
      BY <1>7, <2>1 DEF SyncDataset, Job, SyncAction
    <3> QED BY <3>1, <3>2
  <2> QED BY <1>7, <2>3, <2>4, <2>5 DEF SyncDataset, TypeOK
<1>8. ASSUME NEW s \in Syncer, SyncFiles(s) PROVE TypeOK'
  BY <1>8 DEF SyncFiles, GoTo, TypeOK
<1>9. ASSUME NEW s \in Syncer, CallFails(s) PROVE TypeOK'
  BY <1>9, BoundsAreNumbers DEF CallFails, GoTo, TypeOK
<1>10. ASSUME NEW s \in Syncer, StopSync(s) PROVE TypeOK'
  <2>1. status \in Status
    BY <1>10 DEF StopSync, SyncsAreApart, Syncing
  <2>2. status' \in Status
    BY <1>10, <2>1 DEF StopSync, Status
  <2> QED BY <1>10, <2>2 DEF StopSync, GoTo, TypeOK
<1>11. ASSUME NEW s \in Syncer, CommitSync(s) PROVE TypeOK'
  <2>1. job[s] \in Job
    BY <1>11 DEF CommitSync, SyncsAreApart
  <2>2. lastSync' \in Change
    BY <1>11, <2>1 DEF CommitSync, TypeOK, Job
  <2> QED BY <1>11, <2>2, EndSyncKeepsType DEF CommitSync, TypeOK
<1>12. CASE UNCHANGED vars
  BY <1>12 DEF vars, TypeOK
<1> QED
  BY <1>1, <1>2, <1>3, <1>4, <1>5, <1>6, <1>7, <1>8, <1>9, <1>10, <1>11, <1>12 DEF Next, Proceed

-----------------------------------------------------------------------------
(* The lock. *)

LEMMA ApartStep == IInv /\ [Next]_vars => SyncsAreApart'
<1> SUFFICES ASSUME IInv, [Next]_vars, NEW x \in Syncer
             PROVE  /\ pc'[x] # "idle" => job'[x] \in Job
                    /\ pc'[x] \in Syncing => lock' = x /\ status' \in Status
  BY DEF SyncsAreApart
<1> DEFINE Apart == /\ pc'[x] # "idle" => job'[x] \in Job
                    /\ pc'[x] \in Syncing => lock' = x /\ status' \in Status
<1> USE DEF IInv, SyncsAreApart
<1>1. CASE UNCHANGED << job, pc, lock, status >>
  BY <1>1
<1>2. ASSUME NEW w \in Worker, NEW t \in tasks, TakeTask(w, t) PROVE Apart
  BY <1>2, SnapshotIsJob DEF TakeTask, TypeOK, Syncer, Syncing
<1>3. ASSUME NEW w \in Worker, Crash(w) PROVE Apart
  BY <1>3, NoneIsNoSyncer DEF Crash, TypeOK, Syncer, Syncing
<1>4. CASE StartRetry
  <2>1. status \in Status
    BY <1>4 DEF StartRetry, FailedSync, TypeOK
  <2>2. job'[Command] \in Job
    BY <1>4, <2>1 DEF StartRetry, TypeOK, Status, Job, Syncer
  <2> QED BY <1>4, <2>2 DEF StartRetry, TypeOK, Syncer, Syncing
<1>5. ASSUME NEW s \in Syncer, EndSync(s), status' = status PROVE Apart
  <2>1. CASE x = s
    BY <1>5, <2>1 DEF EndSync, TypeOK, Syncing
  <2>2. CASE x # s
    <3>1. pc'[x] = pc[x] /\ job'[x] = job[x]
      BY <1>5, <2>2 DEF EndSync, TypeOK
    <3>2. lock = x => lock' = x
      BY <1>5, <2>2 DEF EndSync
    <3> QED BY <1>5, <3>1, <3>2
  <2> QED BY <2>1, <2>2
<1>6. ASSUME NEW s \in Syncer, StartSync(s) PROVE Apart
  <2>1. job[s] \in Job /\ \A y \in Syncer : pc[y] \notin Syncing
    BY <1>6, NoneIsNoSyncer DEF StartSync, LockIsFree
  <2>2. CASE ShouldSync(job[s])
    <3>1. status' \in Status
      BY <1>6, <2>1, <2>2, NewStatus DEF StartSync
    <3> QED BY <1>6, <2>1, <2>2, <3>1 DEF StartSync, TypeOK, Syncing
  <2>3. CASE ~ShouldSync(job[s])
    BY <1>5, <1>6, <2>3 DEF StartSync
  <2> QED BY <2>2, <2>3
<1>7. ASSUME NEW s \in Syncer, NEW place \in Syncing, pc[s] \in Syncing,
             GoTo(s, place), UNCHANGED << job, lock, status >>
      PROVE  Apart
  BY <1>7 DEF GoTo, TypeOK, Syncing
<1>8. ASSUME NEW s \in Syncer, SyncDataset(s) PROVE Apart
  <2>1. AfterUpdate(job[s]) \in Syncing
    BY DEF AfterUpdate, Syncing
  <2>2. job[s].action \in SyncAction
    BY <1>8 DEF SyncDataset, Job
  <2>3. GoTo(s, AfterUpdate(job[s])) \/ GoTo(s, "stop")
    BY <1>8, <2>2 DEF SyncDataset, SyncAction
  <2> QED BY <1>7, <1>8, <2>1, <2>3 DEF SyncDataset, Syncing
<1>9. ASSUME NEW s \in Syncer, SyncFiles(s) \/ CallFails(s) PROVE Apart
  BY <1>7, <1>9 DEF SyncFiles, CallFails, Syncing
<1>10. ASSUME NEW s \in Syncer, StopSync(s) PROVE Apart
  <2>1. status \in Status /\ lock = s
    BY <1>10 DEF StopSync, Syncing
  <2>2. status' \in Status
    BY <1>10, <2>1 DEF StopSync, Status
  <2> QED BY <1>10, <2>1, <2>2 DEF StopSync, GoTo, TypeOK, Syncing
<1>11. ASSUME NEW s \in Syncer, CommitSync(s) PROVE Apart
  BY <1>5, <1>11 DEF CommitSync
<1>12. CASE SkipLocked
  BY <1>5, <1>12 DEF SkipLocked, Syncer
<1>13. Requests \/ UNCHANGED vars => UNCHANGED << job, pc, lock, status >>
  BY DEF Requests, Create, Update, Delete, Restore, Flush, Request, vars
<1> QED
  BY <1>1, <1>2, <1>3, <1>4, <1>6, <1>8, <1>9, <1>10, <1>11, <1>12, <1>13 DEF Next, Proceed

LEMMA NotOldStep == IInv /\ [Next]_vars => SyncsAreNotOld'
<1> SUFFICES ASSUME IInv, [Next]_vars, NEW x \in Syncer
             PROVE  /\ pc'[x] = "dataset" /\ job'[x].action \in {"create", "update"} =>
                           lastSync' <= job'[x].modified
                    /\ pc'[x] = "files" /\ ~job'[x].removed => lastSync' <= (v2').asOf
  BY DEF SyncsAreNotOld
<1> DEFINE NotOld == /\ pc'[x] = "dataset" /\ job'[x].action \in {"create", "update"} =>
                           lastSync' <= job'[x].modified
                     /\ pc'[x] = "files" /\ ~job'[x].removed => lastSync' <= (v2').asOf
<1> USE DEF IInv, SyncsAreNotOld
<1>1. CASE UNCHANGED << lastSync, v2 >> /\ pc'[x] = pc[x] /\ job'[x] = job[x]
  BY <1>1
<1>2. CASE pc'[x] \notin {"dataset", "files"}
  BY <1>2
<1>3. ASSUME NEW s \in Syncer, pc[s] \in Syncing, s # x PROVE pc[x] \notin Syncing
  BY <1>3 DEF SyncsAreApart
<1>4. ASSUME NEW w \in Worker, NEW t \in tasks, TakeTask(w, t) PROVE NotOld
  BY <1>1, <1>2, <1>4 DEF TakeTask, TypeOK, Syncer
<1>5. ASSUME NEW w \in Worker, Crash(w) PROVE NotOld
  BY <1>1, <1>2, <1>5 DEF Crash, TypeOK, Syncer
<1>6. CASE StartRetry
  BY <1>1, <1>2, <1>6 DEF StartRetry, TypeOK, Syncer
<1>7. ASSUME NEW s \in Syncer, EndSync(s), UNCHANGED << lastSync, v2 >> PROVE NotOld
  BY <1>1, <1>2, <1>7 DEF EndSync, TypeOK
<1>8. ASSUME NEW s \in Syncer, StartSync(s) PROVE NotOld
  <2>1. CASE ShouldSync(job[s])
    BY <1>1, <1>8, <2>1 DEF StartSync, ShouldSync, TypeOK
  <2>2. CASE ~ShouldSync(job[s])
    BY <1>7, <1>8, <2>2 DEF StartSync
  <2> QED BY <2>1, <2>2
<1>9. ASSUME NEW s \in Syncer, SyncDataset(s) PROVE NotOld
  <2>1. CASE x # s
    <3>1. pc'[x] = pc[x]
      BY <1>9, <2>1 DEF SyncDataset, GoTo, TypeOK, SyncAction, SyncsAreApart, Job
    <3> QED BY <1>2, <1>3, <1>9, <2>1, <3>1 DEF SyncDataset, Syncing
  <2>2. CASE x = s /\ job[s].action \in {"create", "update"}
    <3>1. lastSync <= job[s].modified /\ UNCHANGED << lastSync, job >>
      BY <1>9, <2>2 DEF SyncDataset
    <3>2. pc'[s] = AfterUpdate(job[s])
      BY <1>9, <2>2 DEF SyncDataset, GoTo, TypeOK
    <3>3. pc'[s] = "files" /\ ~job[s].removed => (v2').asOf = job[s].modified
      BY <1>9, <2>2, <3>2 DEF SyncDataset, TypeOK
    <3>4. pc'[s] # "dataset"
      BY <3>2 DEF AfterUpdate
    <3> QED BY <2>2, <3>1, <3>3, <3>4
  <2>3. CASE x = s /\ job[s].action \notin {"create", "update"}
    <3>1. job[s].action \in SyncAction
      BY <1>9 DEF SyncDataset, SyncsAreApart, Job
    <3>2. pc'[s] = "stop"
      BY <1>9, <2>3, <3>1 DEF SyncDataset, GoTo, TypeOK, SyncAction
    <3> QED BY <1>2, <2>3, <3>2
  <2> QED BY <2>1, <2>2, <2>3
<1>10. ASSUME NEW s \in Syncer, SyncFiles(s) PROVE NotOld
  <2>1. CASE x # s
    BY <1>2, <1>3, <1>10, <2>1 DEF SyncFiles, GoTo, TypeOK, Syncing
  <2>2. CASE x = s
    BY <1>2, <1>10, <2>2 DEF SyncFiles, GoTo, TypeOK
  <2> QED BY <2>1, <2>2
<1>11. ASSUME NEW s \in Syncer, CallFails(s) \/ StopSync(s) PROVE NotOld
  BY <1>1, <1>2, <1>11 DEF CallFails, StopSync, GoTo, TypeOK
<1>12. ASSUME NEW s \in Syncer, CommitSync(s) PROVE NotOld
  <2>1. pc'[x] \notin {"dataset", "files"}
    BY <1>3, <1>12 DEF CommitSync, EndSync, TypeOK, Syncing
  <2> QED BY <1>2, <2>1
<1>13. CASE SkipLocked
  BY <1>7, <1>13 DEF SkipLocked, Syncer
<1>14. CASE Requests \/ UNCHANGED vars
  BY <1>1, <1>14 DEF Requests, Create, Update, Delete, Restore, Flush, Request, vars
<1> QED
  BY <1>4, <1>5, <1>6, <1>8, <1>9, <1>10, <1>11, <1>12, <1>13, <1>14 DEF Next, Proceed

LEMMA Invariance == Spec => []IInv
<1>1. IInv /\ [Next]_vars => IInv'
  BY TypeStep, ApartStep, NotOldStep DEF IInv
<1> QED BY InitIsGood, <1>1, PTL DEF Spec

\* Every step of a request, a worker or the command leaves values of these types.
THEOREM TypeCorrect == Spec => []TypeOK
<1>1. IInv => TypeOK
  BY DEF IInv
<1> QED BY <1>1, Invariance, PTL

\* However tasks are ordered, repeated or delayed, and whatever the command
\* repeats, sync_dataset_to_v2 does not show an older version than was synced.
THEOREM NeverBackInTimeCorrect == Spec => NeverBackInTime
<1> DEFINE Forward == v2' # v2 /\ (v2').state = "present" => (v2').asOf >= lastSync
<1>1. ASSUME IInv, [Next]_vars PROVE Forward
  <2> USE <1>1 DEF IInv
  <2>1. ASSUME NEW s \in Syncer, SyncDataset(s) PROVE Forward
    <3>1. job[s] \in Job
      BY <2>1 DEF SyncDataset, SyncsAreApart
    <3>2. CASE job[s].action \in {"create", "update"}
      BY <2>1, <3>1, <3>2 DEF SyncDataset, SyncsAreNotOld, TypeOK, Job, Change
    <3>3. CASE job[s].action \notin {"create", "update"}
      <4>1. v2' = AfterDelete(job[s])
        BY <2>1, <3>1, <3>3 DEF SyncDataset, Job, SyncAction
      <4> QED BY <4>1 DEF AfterDelete, TypeOK
    <3> QED BY <3>2, <3>3
  <2>2. ASSUME NEW s \in Syncer, SyncFiles(s) PROVE Forward
    BY <2>2 DEF SyncFiles, SyncsAreNotOld, TypeOK, Change
  <2>3. CASE v2' = v2
    BY <2>3
  <2>4. \/ \E s \in Syncer : SyncDataset(s) \/ SyncFiles(s)
        \/ v2' = v2
    BY DEF Next, Proceed, Requests, Create, Update, Delete, Restore, Flush, Request, TakeTask,
           Crash, StartRetry, SkipLocked, StartSync, StopSync, CommitSync, CallFails, vars
  <2> QED BY <2>1, <2>2, <2>3, <2>4
<1>2. IInv /\ [Next]_vars =>
      [v2' # v2 /\ (v2').state = "present" => (v2').asOf >= lastSync]_vars
  BY <1>1
<1> QED BY <1>2, Invariance, PTL DEF Spec, NeverBackInTime
-----------------------------------------------------------------------------
(* Failures are remembered: the inductive invariant is about what tasks, syncs *)
(* and V2 have as of the last change.                                          *)

IsShown == row # None /\ ~row.removed
IsCopy(x) == x.action \in {"create", "update"} /\ ~x.removed
Busy(s) == pc[s] # "idle"

\* What is as of the last change is of the kind of that change.
Fits(x) ==
    /\ x.modified \in 1 .. now
    /\ (x.action = "create") = (x.modified = 1)
    /\ x.action = "delete" => x.removed
    /\ x.modified = now =>
        /\ row = None => x.action = "flush"
        /\ row # None => x.removed = row.removed
        /\ IsShown => x.action \in {"create", "update"}

FitsRetry(j) ==
    /\ j.force
    /\ j.modified \in 1 .. now
    /\ j.modified = now =>
        /\ row = None => j.action \in {"delete", "flush"}
        /\ row # None => j.removed = row.removed
    /\ now = 1 => j.action = "create"

TasksFit ==
    /\ lastSync <= now
    /\ row # None => row.modified = now
    /\ now = 0 => row = None /\ v2.state = "absent" /\ status = None
    /\ now = 1 => IsShown /\ (status # None => status.action = "create")
    /\ \A t \in tasks : Fits(t)
    /\ \A w \in Worker : Busy(w) =>
          Fits(job[w]) /\ (job[w].hard = (job[w].action = "flush"))
    /\ Busy(Command) => FitsRetry(job[Command])

\* All calls of this sync have succeeded.
Sent(s) == pc[s] = "stop" \/ (pc[s] = "commit" /\ ~status.error)

UpToDate == [state |-> "present", asOf |-> now, files |-> now]

\* How far V2 is when a sync has come this far.
PartIsSent ==
    \A s \in Syncer :
        /\ pc[s] = "files" => job[s].action \in {"create", "update"}
        /\ Sent(s) /\ job[s].action = "delete" => v2.state # "present"
        /\ Busy(s) /\ job[s].modified = now /\ IsShown /\ job[s].action \in {"create", "update"} =>
              /\ pc[s] = "files" => v2.state = "present" /\ v2.asOf = now
              /\ Sent(s) => v2 = UpToDate
        /\ s \in Worker /\ Sent(s) /\ job[s].modified = now /\ row = None => v2.state = "absent"

\* Without failures of V2 only a create is refused.
OnlyCreateFails ==
    failures = 0 =>
        \A s \in Syncer :
            /\ pc[s] = "fail" => s \in Worker /\ job[s].action = "create"
            /\ pc[s] = "commit" /\ status.error => s \in Worker /\ job[s].action = "create"

RecordGrows ==
    ~outdated => \A s \in Syncer : pc[s] = "files" \/ Sent(s) => lastSync <= job[s].modified

FirstIsKnown ==
    now = 1 =>
        /\ tasks = {} => status # None
        /\ status # None /\ status.stopped /\ ~status.error =>
              v2 = UpToDate

IsPending == \E t \in tasks : t.modified = now

\* All that would show the dataset in V2 is older than change n.
CopiesAreBefore(n) ==
    /\ \A u \in tasks : IsCopy(u) => u.modified < n
    /\ \A s \in Syncer : Busy(s) /\ IsCopy(job[s]) => job[s].modified < n

RemovalIsPending == \E t \in tasks : t.action = "delete" /\ CopiesAreBefore(t.modified)

\* Without failures and outdated removals, V2 has the last change or a task will
\* bring it there.
LastIsKept ==
    failures = 0 /\ ~outdated /\ now > 1 =>
        /\ IsShown => IsPending \/ (lastSync = now /\ v2 = UpToDate)
        /\ row = None => IsPending \/ (lastSync = now /\ v2.state = "absent")
        /\ row # None /\ ~IsShown =>
              RemovalIsPending \/ (v2.state # "present" /\ CopiesAreBefore(lastSync))

SyncInv == IInv /\ TasksFit /\ PartIsSent /\ OnlyCreateFails /\ RecordGrows /\ FirstIsKnown /\ LastIsKept

LEMMA SyncInit == Init => SyncInv
<1> SUFFICES ASSUME Init PROVE SyncInv OBVIOUS
<1>1. \A s \in Syncer : ~Busy(s) /\ ~Sent(s)
  BY DEF Init, Busy, Sent
<1>2. TasksFit
  BY <1>1 DEF Init, TasksFit, Syncer, IsShown
<1> QED
  BY <1>1, <1>2, InitIsGood
     DEF Init, SyncInv, PartIsSent, OnlyCreateFails, RecordGrows, FirstIsKnown, LastIsKept, IsShown

\* What a request leaves.
LEMMA RequestStep ==
    ASSUME SyncInv, Requests
    PROVE  /\ now \in Nat
           /\ now' = now + 1
           /\ UNCHANGED << job, pc, lock, status, lastSync, v2, crashes, failures, outdated >>
           /\ row' # None => row'.modified = now'
           /\ now' = 1 => IsShown'
           /\ \E t \in Task :
                /\ tasks' = tasks \cup {t}
                /\ t.modified = now'
                /\ (t.action = "create") = (now' = 1)
                /\ t.action = "delete" => t.removed
                /\ row' = None => t.action = "flush"
                /\ row' # None => t.removed = row'.removed
                /\ IsShown' => t.action \in {"create", "update"}
                /\ row' # None /\ ~IsShown' =>
                      t.action = "delete" \/ (row # None /\ ~IsShown)
<1> USE DEF SyncInv
<1>1. now \in Nat /\ now < MaxChanges /\ now' = now + 1 /\ now' \in Change
  <2>1. now \in Nat /\ now \in 0 .. MaxChanges /\ MaxChanges \in Nat
    BY BoundsAreNumbers DEF IInv, TypeOK, Change
  <2>2. now < MaxChanges /\ now' = now + 1
    BY DEF Requests, Create, Update, Delete, Restore, Flush, Request
  <2> QED BY <2>1, <2>2 DEF Change
<1>2. row # None => row.removed \in BOOLEAN /\ now' # 1
  <2>1. row # None => now # 0
    BY DEF TasksFit
  <2>2. row # None => row.removed \in BOOLEAN
    BY DEF IInv, TypeOK
  <2>3. now' = 1 => now = 0
    BY <1>1
  <2> QED BY <2>1, <2>2, <2>3
<1>3. UNCHANGED << job, pc, lock, status, lastSync, v2, crashes, failures, outdated >>
  BY DEF Requests, Create, Update, Delete, Restore, Flush, Request
<1>4. \A r \in BOOLEAN : /\ Saved(r) = [modified |-> now', removed |-> r]
                          /\ Saved(r) # None /\ Saved(r).modified = now' /\ Saved(r).removed = r
  BY <1>1, NoneIsNoRecord DEF Saved
<1> DEFINE Kind(action, r, newRow) ==
    /\ (action = "create") <=> (now' = 1)
    /\ IF newRow = None THEN action = "flush" ELSE newRow = Saved(r) /\ action # "flush"
    /\ ~r => action # "delete"
    /\ r => action = "delete" \/ action = "flush" \/ (row # None /\ row.removed)
    /\ now' = 1 => ~r
<1> DEFINE Made(action, r, newRow) ==
    row' = newRow /\ tasks' = tasks \cup {[action |-> action, modified |-> now', removed |-> r]}
<1>5. \E action \in SyncAction, r \in BOOLEAN :
          Made(action, r, row') /\ Kind(action, r, row')
  <2>1. CASE Create
    <3>1. now' = 1
      BY <1>1, <2>1 DEF Create
    <3>2. Made("create", FALSE, row') /\ Kind("create", FALSE, row')
      BY <1>4, <2>1, <3>1 DEF Create, Request, MakeTask
    <3> QED BY <3>2 DEF SyncAction
  <2>2. CASE Update
    <3>1. CASE ~row.removed
      <4>1. Made("update", FALSE, row') /\ Kind("update", FALSE, row')
        BY <1>1, <1>2, <1>4, <2>2, <3>1 DEF Update, Request, MakeTask
      <4> QED BY <4>1 DEF SyncAction
    <3>2. CASE row.removed
      <4>1. Made("update", TRUE, row') /\ Kind("update", TRUE, row')
        BY <1>2, <1>4, <2>2, <3>2 DEF Update, Request, MakeTask, TasksFit, IsShown
      <4> QED BY <4>1 DEF SyncAction
    <3> QED BY <3>1, <3>2
  <2>3. CASE Delete
    <3>1. Made("delete", TRUE, row') /\ Kind("delete", TRUE, row')
      BY <1>2, <1>4, <2>3 DEF Delete, Request, MakeTask
    <3> QED BY <3>1 DEF SyncAction
  <2>4. CASE Restore
    <3>1. Made("update", FALSE, row') /\ Kind("update", FALSE, row')
      BY <1>2, <1>4, <2>4 DEF Restore, Request, MakeTask
    <3> QED BY <3>1 DEF SyncAction
  <2>5. CASE Flush
    <3>1. Made("flush", row.removed, row') /\ Kind("flush", row.removed, row')
      BY <1>2, <2>5 DEF Flush, Request, MakeTask
    <3> QED BY <1>2, <2>5, <3>1 DEF SyncAction, Flush
  <2> QED BY <2>1, <2>2, <2>3, <2>4, <2>5 DEF Requests
<1> PICK newRow : newRow = row'
  OBVIOUS
<1>6. PICK action \in SyncAction, r \in BOOLEAN :
          Made(action, r, newRow) /\ Kind(action, r, newRow)
  BY <1>5
<1> DEFINE t == [action |-> action, modified |-> now', removed |-> r]
<1>7. t \in Task /\ tasks' = tasks \cup {t} /\ row' = newRow
  BY <1>1, <1>6 DEF Task
<1>8. row' = None => action = "flush" /\ ~IsShown'
  BY <1>6 DEF IsShown
<1>9. row' # None => (IsShown' <=> ~r) /\ row'.modified = now' /\ row'.removed = r /\ action # "flush"
  BY <1>4, <1>6 DEF IsShown
<1>10. now' = 1 => IsShown'
  BY <1>6, <1>8, <1>9
<1>11. IsShown' => action \in {"create", "update"}
  BY <1>6, <1>8, <1>9 DEF SyncAction
<1>12. row' # None /\ ~IsShown' => action = "delete" \/ (row # None /\ ~IsShown)
  BY <1>6, <1>9 DEF IsShown
<1>13. action = "delete" => r
  BY <1>6
<1> QED BY <1>1, <1>3, <1>6, <1>7, <1>8, <1>9, <1>10, <1>11, <1>12, <1>13

\* The steps that change how far sync x is: those of x itself, as it has the lock.
LEMMA OneMoves ==
    ASSUME IInv, [Next]_vars, ~Requests, NEW x \in Syncer
    PROVE  \/ pc'[x] \in {"idle", "lock", "dataset"}
           \/ /\ pc'[x] = pc[x] /\ job'[x] = job[x]
              /\ UNCHANGED << row, now, v2, status, lastSync, failures, outdated >>
           \/ SyncDataset(x) \/ SyncFiles(x) \/ StopSync(x) \/ CallFails(x)
<1> DEFINE Goal == \/ pc'[x] \in {"idle", "lock", "dataset"}
                   \/ /\ pc'[x] = pc[x] /\ job'[x] = job[x]
                      /\ UNCHANGED << row, now, v2, status, lastSync, failures, outdated >>
                   \/ SyncDataset(x) \/ SyncFiles(x) \/ StopSync(x) \/ CallFails(x)
<1> USE DEF IInv
<1>1. pc[x] \notin Syncing => pc[x] \in {"idle", "lock"}
  BY DEF TypeOK, Syncing
<1>2. ASSUME NEW w \in Worker, NEW t \in tasks, TakeTask(w, t) PROVE Goal
  BY <1>2 DEF TakeTask, TypeOK, Syncer
<1>3. ASSUME NEW w \in Worker, Crash(w) PROVE Goal
  BY <1>3 DEF Crash, TypeOK, Syncer
<1>4. CASE StartRetry
  BY <1>4 DEF StartRetry, TypeOK, Syncer
<1>5. CASE SkipLocked
  BY <1>5 DEF SkipLocked, EndSync, TypeOK, Syncer
<1>6. ASSUME NEW s \in Syncer, StartSync(s) PROVE Goal
  <2>1. pc[x] \in {"idle", "lock"}
    BY <1>1, <1>6, NoneIsNoSyncer DEF StartSync, LockIsFree, SyncsAreApart
  <2>2. pc'[x] \in {pc[x], "dataset", "idle"}
    BY <1>6 DEF StartSync, EndSync, TypeOK
  <2> QED BY <2>1, <2>2
<1>7. ASSUME NEW s \in Syncer, s # x, pc[s] \in Syncing,
             pc' = [pc EXCEPT ![s] = pc'[s]]
      PROVE  Goal
  <2>1. pc[x] \in {"idle", "lock"}
    BY <1>1, <1>7 DEF SyncsAreApart
  <2> QED BY <1>7, <2>1 DEF TypeOK
<1>8. ASSUME NEW s \in Syncer, SyncDataset(s) PROVE Goal
  <2>1. job[s].action \in SyncAction
    BY <1>8 DEF SyncDataset, SyncsAreApart, Job
  <2>2. pc[s] \in Syncing /\ pc' = [pc EXCEPT ![s] = pc'[s]]
    BY <1>8, <2>1 DEF SyncDataset, SyncAction, GoTo, TypeOK, Syncing
  <2> QED BY <1>7, <1>8, <2>2
<1>9. ASSUME NEW s \in Syncer, SyncFiles(s) \/ StopSync(s) \/ CallFails(s) PROVE Goal
  <2>1. pc[s] \in Syncing /\ pc' = [pc EXCEPT ![s] = pc'[s]]
    BY <1>9 DEF SyncFiles, StopSync, CallFails, GoTo, TypeOK, Syncing
  <2> QED BY <1>7, <1>9, <2>1
<1>10. ASSUME NEW s \in Syncer, CommitSync(s) PROVE Goal
  <2>1. pc[s] \in Syncing /\ pc' = [pc EXCEPT ![s] = pc'[s]] /\ pc'[s] = "idle"
    BY <1>10 DEF CommitSync, EndSync, TypeOK, Syncing
  <2> QED BY <1>7, <2>1
<1>11. CASE UNCHANGED vars
  BY <1>11 DEF vars
<1> QED
  BY <1>2, <1>3, <1>4, <1>5, <1>6, <1>8, <1>9, <1>10, <1>11 DEF Next, Proceed

-----------------------------------------------------------------------------
(* Each part of the invariant is kept. *)

LEMMA TasksFitStep == SyncInv /\ [Next]_vars => TasksFit'
<1> SUFFICES ASSUME SyncInv, [Next]_vars PROVE TasksFit' OBVIOUS
<1> USE DEF SyncInv
<1>1. now \in Nat /\ lastSync \in Nat /\ IInv
  BY BoundsAreNumbers DEF IInv, TypeOK, Change
<1>2. \A t \in tasks : t \in Task
  BY DEF IInv, TypeOK
<1>3. CASE Requests
  <2>1. PICK t \in Task :
                /\ tasks' = tasks \cup {t}
                /\ t.modified = now'
                /\ (t.action = "create") = (now' = 1)
                /\ t.action = "delete" => t.removed
                /\ row' = None => t.action = "flush"
                /\ row' # None => t.removed = row'.removed
                /\ IsShown' => t.action \in {"create", "update"}
    BY <1>3, RequestStep
  <2>2. /\ now' = now + 1
        /\ row' # None => row'.modified = now'
        /\ now' = 1 => IsShown'
        /\ UNCHANGED << job, pc, status, lastSync, v2 >>
    BY <1>3, RequestStep
  <2>3. Fits(t)'
    BY <1>1, <2>1, <2>2 DEF Fits
  <2>4. ASSUME NEW x, Fits(x) PROVE Fits(x)'
    BY <1>1, <2>2, <2>4 DEF Fits
  <2>5. ASSUME NEW x, FitsRetry(x) PROVE FitsRetry(x)'
    BY <1>1, <2>2, <2>5 DEF FitsRetry
  <2>6. now' = 1 => (status' # None => status'.action = "create")
    BY <1>1, <2>2 DEF TasksFit
  <2> QED BY <1>1, <2>1, <2>2, <2>3, <2>4, <2>5, <2>6 DEF TasksFit, Busy
<1>4. ASSUME UNCHANGED << row, now >>,
             lastSync' <= now,
             now = 0 => v2' = v2 /\ status' = status,
             now = 1 => (status' # None => status'.action = "create"),
             \A t \in tasks' : Fits(t),
             \A w \in Worker : pc'[w] # "idle" =>
                Fits(job'[w]) /\ (job'[w].hard = (job'[w].action = "flush")),
             pc'[Command] # "idle" => FitsRetry(job'[Command])
      PROVE  TasksFit'
  <2>1. \A t \in tasks' : Fits(t)'
    BY <1>4 DEF Fits, IsShown
  <2>2. \A w \in Worker : Busy(w)' =>
            Fits(job[w])' /\ (job'[w].hard = (job'[w].action = "flush"))
    BY <1>4 DEF Fits, IsShown, Busy
  <2>3. Busy(Command)' => FitsRetry(job[Command])'
    BY <1>4 DEF FitsRetry, Busy
  <2> QED BY <1>4, <2>1, <2>2, <2>3 DEF TasksFit, IsShown
<1>5. \A w \in Worker : pc[w] # "idle" => Fits(job[w]) /\ (job[w].hard = (job[w].action = "flush"))
  BY DEF TasksFit, Busy
<1>6. pc[Command] # "idle" => FitsRetry(job[Command])
  BY DEF TasksFit, Busy
<1>7. /\ lastSync <= now
      /\ now = 1 => (status # None => status.action = "create")
      /\ \A t \in tasks : Fits(t)
  BY DEF TasksFit
<1>8. ASSUME NEW w \in Worker, NEW t \in tasks, TakeTask(w, t) PROVE TasksFit'
  <2>1. Fits(Snapshot(t, FALSE)) /\ (Snapshot(t, FALSE).hard = (Snapshot(t, FALSE).action = "flush"))
    BY <1>2, <1>7 DEF Fits, Snapshot
  <2>2. \A x \in Syncer : x # w => pc'[x] = pc[x] /\ job'[x] = job[x]
    BY <1>8 DEF TakeTask, IInv, TypeOK
  <2>3. job'[w] = Snapshot(t, FALSE) /\ w # Command
    BY <1>8, CommandIsNoWorker DEF TakeTask, IInv, TypeOK, Syncer
  <2>4. UNCHANGED << row, now, tasks, status, lastSync, v2 >>
    BY <1>8 DEF TakeTask
  <2> QED BY <1>4, <1>5, <1>6, <1>7, <2>1, <2>2, <2>3, <2>4 DEF Syncer
<1>9. CASE StartRetry
  <2>1. job'[Command] = [action |-> status.action, force |-> TRUE,
                   modified |-> IF row = None THEN now ELSE row.modified,
                   removed |-> row # None /\ row.removed,
                   hard |-> status.action = "flush" /\ row # None]
    BY <1>9 DEF StartRetry, IInv, TypeOK, Syncer
  <2>2. now \in 1 .. now /\ (row # None => row.modified = now)
    BY <1>1, <1>9 DEF StartRetry, FailedSync, TasksFit
  <2>3. row # None => row.removed \in BOOLEAN
    BY DEF IInv, TypeOK
  <2>4. job'[Command].modified = now /\ job'[Command].action = status.action
          /\ job'[Command].force
    BY <2>1, <2>2
  <2>5. row # None => job'[Command].removed = row.removed
    BY <2>1, <2>3
  <2>6. FitsRetry(job'[Command])
    BY <1>7, <1>9, <2>2, <2>4, <2>5 DEF FitsRetry, StartRetry, FailedSync
  <2>7. \A x \in Worker : pc'[x] = pc[x] /\ job'[x] = job[x]
    BY <1>9, CommandIsNoWorker DEF StartRetry, IInv, TypeOK, Syncer
  <2>8. UNCHANGED << row, now, tasks, status, lastSync, v2 >>
    BY <1>9 DEF StartRetry
  <2> QED BY <1>4, <1>5, <1>7, <2>6, <2>7, <2>8
<1>10. ASSUME NEW s \in Syncer, EndSync(s), UNCHANGED << row, now, status, v2 >>, lastSync' <= now
       PROVE  TasksFit'
  <2>1. tasks' \subseteq tasks /\ pc'[s] = "idle"
    BY <1>10 DEF EndSync, IInv, TypeOK
  <2>2. \A x \in Syncer : x # s => pc'[x] = pc[x] /\ job'[x] = job[x]
    BY <1>10 DEF EndSync, IInv, TypeOK
  <2> QED BY <1>4, <1>5, <1>6, <1>7, <1>10, <2>1, <2>2 DEF Syncer
<1>11. ASSUME UNCHANGED << row, now, tasks, job, lastSync >>,
              \A s \in Syncer : pc'[s] # "idle" => pc[s] # "idle",
              now = 0 => v2' = v2 /\ status' = status,
              now = 1 => (status' # None => status'.action = "create")
       PROVE  TasksFit'
  BY <1>4, <1>5, <1>6, <1>7, <1>11 DEF Syncer
<1>12. ASSUME NEW s \in Syncer, pc[s] # "idle"
       PROVE  /\ now # 0
              /\ job[s].modified \in 1 .. now
              /\ now = 1 => job[s].action = "create"
  <2>1. job[s].modified \in 1 .. now
    BY <1>5, <1>6, <1>12 DEF Fits, FitsRetry, Syncer
  <2>2. now = 1 => job[s].action = "create"
    BY <1>5, <1>6, <1>12, <2>1 DEF Fits, FitsRetry, Syncer
  <2> QED BY <1>1, <2>1, <2>2
<1>13. ASSUME NEW w \in Worker, Crash(w) PROVE TasksFit'
  <2>1. pc'[w] = "idle" /\ \A x \in Syncer : x # w => pc'[x] = pc[x] /\ job'[x] = job[x]
    BY <1>13 DEF Crash, IInv, TypeOK, Syncer
  <2>2. UNCHANGED << row, now, tasks, status, lastSync, v2 >>
    BY <1>13 DEF Crash
  <2> QED BY <1>4, <1>5, <1>6, <1>7, <2>1, <2>2 DEF Syncer
<1>14. CASE SkipLocked
  BY <1>7, <1>10, <1>14 DEF SkipLocked, Syncer
<1>15. ASSUME NEW s \in Syncer, StartSync(s) PROVE TasksFit'
  <2>1. CASE ShouldSync(job[s])
    <3>1. UNCHANGED << row, now, tasks, job, lastSync, v2 >>
      BY <1>15, <2>1 DEF StartSync
    <3>2. \A x \in Syncer : pc'[x] # "idle" => pc[x] # "idle"
      BY <1>15, <2>1 DEF StartSync, IInv, TypeOK
    <3>3. status'.action = job[s].action
      BY <1>15, <2>1 DEF StartSync
    <3> QED BY <1>11, <1>12, <1>15, <3>1, <3>2, <3>3 DEF StartSync
  <2>2. CASE ~ShouldSync(job[s])
    BY <1>7, <1>10, <1>15, <2>2 DEF StartSync
  <2> QED BY <2>1, <2>2
<1>16. ASSUME NEW s \in Syncer, SyncDataset(s) \/ SyncFiles(s) \/ CallFails(s) PROVE TasksFit'
  <2>1. pc[s] # "idle" /\ UNCHANGED << row, now, tasks, job, lastSync, status >>
    BY <1>16 DEF SyncDataset, SyncFiles, CallFails
  <2>2. job[s].action \in SyncAction
    BY <1>16, <2>1 DEF IInv, SyncsAreApart, Job
  <2>3. \A x \in Syncer : pc'[x] # "idle" => pc[x] # "idle"
    BY <1>16, <2>1, <2>2 DEF SyncDataset, SyncFiles, CallFails, GoTo, SyncAction, IInv, TypeOK
  <2> QED BY <1>7, <1>11, <1>12, <2>1, <2>3
<1>17. ASSUME NEW s \in Syncer, StopSync(s) PROVE TasksFit'
  <2>1. pc[s] # "idle" /\ status \in Status /\ UNCHANGED << row, now, tasks, job, lastSync, v2 >>
    BY <1>17 DEF StopSync, IInv, SyncsAreApart, Syncing
  <2>2. \A x \in Syncer : pc'[x] # "idle" => pc[x] # "idle"
    BY <1>17, <2>1 DEF StopSync, GoTo, IInv, TypeOK
  <2>3. status'.action = status.action /\ status # None
    BY <1>17, <2>1, NoneIsNoRecord DEF StopSync, Status
  <2> QED BY <1>7, <1>11, <1>12, <2>1, <2>2, <2>3
<1>18. ASSUME NEW s \in Syncer, CommitSync(s) PROVE TasksFit'
  <2>1. lastSync' <= now
    BY <1>1, <1>7, <1>12, <1>18 DEF CommitSync
  <2> QED BY <1>10, <1>18, <2>1 DEF CommitSync
<1>19. CASE UNCHANGED vars
  BY <1>7, <1>11, <1>19 DEF vars
<1> QED
  BY <1>3, <1>8, <1>9, <1>13, <1>14, <1>15, <1>16, <1>17, <1>18, <1>19 DEF Next, Proceed

LEMMA SyncTypes ==
    ASSUME SyncInv, NEW s \in Syncer, Busy(s)
    PROVE  /\ job[s] \in Job
           /\ now \in Nat /\ lastSync \in Nat /\ lastSync <= now
           /\ job[s].modified \in 1 .. now
           /\ now = 1 => job[s].action = "create"
           /\ IsShown => row.modified = now /\ ~row.removed
           /\ job[s].modified = now /\ row # None => job[s].removed = row.removed
           /\ job[s].modified = now /\ row = None => job[s].action \in {"delete", "flush"}
           /\ s = Command => job[s].force
           /\ s \in Worker /\ job[s].modified = now /\ row = None => job[s].hard
           /\ s \in Worker => (job[s].action = "create") = (job[s].modified = 1)
           /\ s \in Worker /\ job[s].modified = now /\ IsShown => job[s].action \in {"create", "update"}
<1> USE DEF SyncInv
<1>1. job[s] \in Job /\ now \in Nat /\ lastSync \in Nat
  BY BoundsAreNumbers DEF Busy, IInv, SyncsAreApart, TypeOK, Change
<1>2. lastSync <= now /\ (IsShown => row.modified = now /\ ~row.removed)
  BY DEF TasksFit, IsShown
<1>3. CASE s \in Worker
  <2>1. Fits(job[s]) /\ (job[s].hard = (job[s].action = "flush")) /\ s # Command
    BY <1>3, CommandIsNoWorker DEF TasksFit
  <2>2. IsShown => row # None
    BY DEF IsShown
  <2>3. now = 1 => IsShown /\ job[s].modified = now
    BY <2>1 DEF TasksFit, Fits
  <2>4. now = 1 => job[s].action = "create"
    BY <2>1, <2>3 DEF Fits
  <2> QED BY <1>1, <1>2, <1>3, <2>1, <2>2, <2>4 DEF Fits
<1>4. CASE s = Command
  BY <1>1, <1>2, <1>4, CommandIsNoWorker DEF TasksFit, FitsRetry
<1> QED BY <1>3, <1>4 DEF Syncer

LEMMA PartIsSentStep == SyncInv /\ [Next]_vars => PartIsSent'
<1> SUFFICES ASSUME SyncInv, [Next]_vars, NEW x \in Syncer
             PROVE  /\ pc'[x] = "files" => job'[x].action \in {"create", "update"}
                    /\ Sent(x)' /\ job'[x].action = "delete" => v2'.state # "present"
                    /\ Busy(x)' /\ job'[x].modified = now' /\ IsShown' /\ job'[x].action \in {"create", "update"} =>
                          /\ pc'[x] = "files" => v2'.state = "present" /\ v2'.asOf = now'
                          /\ Sent(x)' => v2' = UpToDate'
                    /\ x \in Worker /\ Sent(x)' /\ job'[x].modified = now' /\ row' = None => v2'.state = "absent"
  BY DEF PartIsSent
<1> DEFINE Goal == /\ pc'[x] = "files" => job'[x].action \in {"create", "update"}
                   /\ Sent(x)' /\ job'[x].action = "delete" => v2'.state # "present"
                   /\ Busy(x)' /\ job'[x].modified = now' /\ IsShown' /\ job'[x].action \in {"create", "update"} =>
                          /\ pc'[x] = "files" => v2'.state = "present" /\ v2'.asOf = now'
                          /\ Sent(x)' => v2' = UpToDate'
                   /\ x \in Worker /\ Sent(x)' /\ job'[x].modified = now' /\ row' = None => v2'.state = "absent"
<1> USE DEF SyncInv
<1>0. /\ pc[x] = "files" => job[x].action \in {"create", "update"}
      /\ Sent(x) /\ job[x].action = "delete" => v2.state # "present"
      /\ Busy(x) /\ job[x].modified = now /\ IsShown /\ job[x].action \in {"create", "update"} =>
            /\ pc[x] = "files" => v2.state = "present" /\ v2.asOf = now
            /\ Sent(x) => v2 = UpToDate
      /\ x \in Worker /\ Sent(x) /\ job[x].modified = now /\ row = None => v2.state = "absent"
  BY DEF PartIsSent
<1>1. IInv
  OBVIOUS
<1>2. CASE pc'[x] \in {"idle", "lock", "dataset", "fail"}
  BY <1>2 DEF Sent
<1>3. CASE Requests
  <2>1. /\ now' = now + 1
        /\ UNCHANGED << job, pc, status, v2 >>
    BY <1>3, RequestStep
  <2>2. Busy(x) => job[x].modified # now'
    BY <2>1, SyncTypes
  <2>3. (Sent(x)' <=> Sent(x)) /\ (Busy(x)' <=> Busy(x)) /\ (Sent(x) => Busy(x))
    BY <2>1 DEF Sent, Busy
  <2> QED BY <1>0, <2>1, <2>2, <2>3
<1>4. CASE /\ pc'[x] = pc[x] /\ job'[x] = job[x]
           /\ UNCHANGED << row, now, v2, status >>
  BY <1>0, <1>4 DEF Sent, Busy, IsShown, UpToDate
<1>5. CASE SyncDataset(x)
  <2>1. Busy(x) /\ UNCHANGED << row, now, job, status >>
    BY <1>5 DEF SyncDataset, Busy
  <2>2. job[x].action \in SyncAction /\ v2 \in [state: {"absent", "present", "removed"}, asOf: Change, files: Change]
    BY <2>1, SyncTypes DEF Job, IInv, TypeOK
  <2>3. CASE job[x].action \in {"create", "update"}
    <3>1. pc'[x] = AfterUpdate(job[x]) /\ pc'[x] \in {"files", "fail"}
      BY <1>5, <2>3 DEF SyncDataset, GoTo, IInv, TypeOK, AfterUpdate
    <3>2. ~Sent(x)'
      BY <3>1 DEF Sent
    <3>3. ASSUME job[x].modified = now, IsShown, pc'[x] = "files"
          PROVE  v2'.state = "present" /\ v2'.asOf = now
      <4>1. ~job[x].removed
        BY <2>1, <3>3, SyncTypes DEF IsShown
      <4> QED BY <1>5, <2>2, <2>3, <3>1, <3>3, <4>1 DEF SyncDataset
    <3> QED BY <2>1, <2>3, <3>2, <3>3 DEF IsShown
  <2>4. CASE job[x].action \in {"delete", "flush"}
    <3>1. pc'[x] = "stop" /\ v2' = AfterDelete(job[x])
      BY <1>5, <2>4 DEF SyncDataset, GoTo, IInv, TypeOK
    <3>2. v2'.state # "present"
      BY <2>2, <3>1 DEF AfterDelete
    <3>3. x \in Worker /\ job[x].modified = now /\ row = None => job[x].hard
      BY <2>1, SyncTypes
    <3>4. job[x].hard => v2'.state = "absent"
      BY <3>1 DEF AfterDelete
    <3> QED BY <2>1, <2>4, <3>1, <3>2, <3>3, <3>4
  <2> QED BY <2>2, <2>3, <2>4 DEF SyncAction
<1>6. CASE SyncFiles(x)
  <2>1. Busy(x) /\ UNCHANGED << row, now, job, status >> /\ pc'[x] = "stop" /\ pc[x] = "files"
    BY <1>6 DEF SyncFiles, Busy, GoTo, IInv, TypeOK
  <2>2. v2 \in [state: {"absent", "present", "removed"}, asOf: Change, files: Change]
    BY DEF IInv, TypeOK
  <2>3. job[x].action \in {"create", "update"}
    BY <1>0, <2>1
  <2>4. ~(job[x].modified = now /\ row = None)
    BY <2>1, <2>3, SyncTypes
  <2>5. ASSUME job[x].modified = now, IsShown
        PROVE  v2' = UpToDate
    <3>1. row # None /\ ~job[x].removed /\ row.modified = now
      BY <2>1, <2>5, SyncTypes DEF IsShown
    <3>2. v2.state = "present" /\ v2.asOf = now
      BY <1>0, <2>1, <2>3, <2>5
    <3>3. v2' = [v2 EXCEPT !.files = now]
      BY <1>6, <3>1 DEF SyncFiles
    <3> QED BY <2>2, <3>2, <3>3 DEF UpToDate
  <2> QED BY <2>1, <2>3, <2>4, <2>5 DEF IsShown, UpToDate
<1>7. CASE StopSync(x)
  <2>1. /\ UNCHANGED << row, now, job, v2 >> /\ pc'[x] = "commit" /\ pc[x] \in {"stop", "fail"}
        /\ status \in Status
        /\ status' = [status EXCEPT !.stopped = TRUE, !.error = (pc[x] = "fail")]
    BY <1>7 DEF StopSync, GoTo, IInv, TypeOK, SyncsAreApart, Syncing
  <2>2. status'.error = (pc[x] = "fail")
    BY <2>1 DEF Status
  <2>3. Sent(x)' => Sent(x)
    BY <2>1, <2>2 DEF Sent
  <2>4. Busy(x)
    BY <2>1 DEF Busy
  <2> QED BY <1>0, <2>1, <2>3, <2>4 DEF IsShown, UpToDate
<1>8. CASE CallFails(x)
  <2>1. pc'[x] = "fail"
    BY <1>8 DEF CallFails, GoTo, IInv, TypeOK
  <2> QED BY <1>2, <2>1
<1> QED BY <1>1, <1>2, <1>3, <1>4, <1>5, <1>6, <1>7, <1>8, OneMoves

LEMMA OnlyCreateFailsStep == SyncInv /\ [Next]_vars => OnlyCreateFails' /\ RecordGrows'
<1> SUFFICES ASSUME SyncInv, [Next]_vars, NEW x \in Syncer
             PROVE  /\ failures' = 0 =>
                         /\ pc'[x] = "fail" => x \in Worker /\ job'[x].action = "create"
                         /\ pc'[x] = "commit" /\ status'.error => x \in Worker /\ job'[x].action = "create"
                    /\ ~outdated' => (pc'[x] = "files" \/ Sent(x)' => lastSync' <= job'[x].modified)
  BY DEF OnlyCreateFails, RecordGrows
<1> USE DEF SyncInv
<1>0. /\ failures = 0 =>
           /\ pc[x] = "fail" => x \in Worker /\ job[x].action = "create"
           /\ pc[x] = "commit" /\ status.error => x \in Worker /\ job[x].action = "create"
      /\ ~outdated => (pc[x] = "files" \/ Sent(x) => lastSync <= job[x].modified)
  BY DEF OnlyCreateFails, RecordGrows
<1>1. IInv /\ failures \in Nat
  BY BoundsAreNumbers DEF IInv, TypeOK
<1>2. CASE pc'[x] \in {"idle", "lock", "dataset"}
  BY <1>2 DEF Sent
<1>3. CASE Requests
  <2>1. UNCHANGED << job, pc, status, lastSync, failures, outdated >>
    BY <1>3, RequestStep
  <2> QED BY <1>0, <2>1 DEF Sent
<1>4. CASE /\ pc'[x] = pc[x] /\ job'[x] = job[x]
           /\ UNCHANGED << row, now, v2, status, lastSync, failures, outdated >>
  BY <1>0, <1>4 DEF Sent
<1>5. CASE SyncDataset(x)
  <2>1. Busy(x) /\ UNCHANGED << job, status, lastSync, failures >> /\ pc[x] = "dataset"
    BY <1>5 DEF SyncDataset, Busy
  <2>2. job[x].action \in SyncAction /\ job[x].modified \in Nat /\ lastSync \in Nat
    BY <2>1, SyncTypes DEF Job
  <2>3. CASE job[x].action \in {"create", "update"}
    <3>1. pc'[x] = AfterUpdate(job[x]) /\ pc'[x] \in {"files", "fail"}
      BY <1>5, <2>3 DEF SyncDataset, GoTo, IInv, TypeOK, AfterUpdate
    <3>2. lastSync <= job[x].modified
      BY <2>1, <2>3 DEF IInv, SyncsAreNotOld
    <3>3. pc'[x] = "fail" => job[x].action = "create" /\ ~job[x].force
      BY <3>1 DEF AfterUpdate, PostIsRefused
    <3>4. pc'[x] = "fail" => x \in Worker
      BY <2>1, <3>3, SyncTypes DEF Syncer
    <3> QED BY <2>1, <3>1, <3>2, <3>3, <3>4
  <2>4. CASE job[x].action \in {"delete", "flush"}
    <3>1. pc'[x] = "stop" /\ outdated' = (outdated \/ IsOutdated(job[x]))
      BY <1>5, <2>4 DEF SyncDataset, GoTo, IInv, TypeOK
    <3>2. ~outdated' => ~(job[x].modified < lastSync)
      BY <3>1 DEF IsOutdated
    <3>3. ~outdated' => lastSync <= job[x].modified
      BY <2>2, <3>2
    <3> QED BY <2>1, <3>1, <3>3
  <2> QED BY <2>2, <2>3, <2>4 DEF SyncAction
<1>6. CASE SyncFiles(x)
  <2>1. UNCHANGED << job, status, lastSync, failures, outdated >> /\ pc'[x] = "stop" /\ pc[x] = "files"
    BY <1>6 DEF SyncFiles, GoTo, IInv, TypeOK
  <2> QED BY <1>0, <2>1
<1>7. CASE StopSync(x)
  <2>1. /\ UNCHANGED << job, lastSync, failures, outdated >> /\ pc'[x] = "commit" /\ pc[x] \in {"stop", "fail"}
        /\ status \in Status
        /\ status' = [status EXCEPT !.stopped = TRUE, !.error = (pc[x] = "fail")]
    BY <1>7 DEF StopSync, GoTo, IInv, TypeOK, SyncsAreApart, Syncing
  <2>2. status'.error = (pc[x] = "fail")
    BY <2>1 DEF Status
  <2>3. Sent(x)' => Sent(x)
    BY <2>1, <2>2 DEF Sent
  <2> QED BY <1>0, <2>1, <2>2, <2>3
<1>8. CASE CallFails(x)
  <2>1. pc'[x] = "fail" /\ failures' = failures + 1
    BY <1>8 DEF CallFails, GoTo, IInv, TypeOK
  <2> QED BY <1>1, <2>1 DEF Sent
<1> QED BY <1>1, <1>2, <1>3, <1>4, <1>5, <1>6, <1>7, <1>8, OneMoves

\* What a step does when no request is made: to V2, to the record and to tasks.
LEMMA SyncStep ==
    ASSUME SyncInv, [Next]_vars, ~Requests
    PROVE  /\ UNCHANGED << row, now >>
           /\ tasks' \subseteq tasks
           /\ \/ UNCHANGED << v2, outdated >>
              \/ \E s \in Syncer : SyncDataset(s) \/ SyncFiles(s)
           /\ \/ UNCHANGED << lastSync, tasks >>
              \/ \E s \in Syncer : CommitSync(s)
              \/ \E w \in Worker : StartSync(w) /\ ~ShouldSync(job[w]) /\ lastSync' = lastSync
           /\ failures' = 0 => failures = 0
           /\ outdated => outdated'
<1> USE DEF SyncInv
<1>1. IInv /\ failures \in Nat
  BY BoundsAreNumbers DEF IInv, TypeOK
<1>2. ASSUME NEW s \in Syncer, EndSync(s) PROVE tasks' \subseteq tasks
  BY <1>2 DEF EndSync
<1>3. EndSync(Command) => tasks' = tasks
  BY DEF EndSync
<1>4. ASSUME NEW s \in Syncer, StartSync(s)
      PROVE  /\ UNCHANGED << row, now, v2, outdated, failures, lastSync >>
             /\ tasks' \subseteq tasks
             /\ tasks' = tasks \/ (s \in Worker /\ ~ShouldSync(job[s]))
  BY <1>2, <1>3, <1>4 DEF StartSync, Syncer
<1>5. ASSUME NEW s \in Syncer, CallFails(s)
      PROVE  UNCHANGED << row, now, v2, outdated, lastSync, tasks >> /\ failures' # 0
  BY <1>1, <1>5 DEF CallFails
<1>6. ASSUME NEW s \in Syncer, CommitSync(s)
      PROVE  UNCHANGED << row, now, v2, outdated, failures >> /\ tasks' \subseteq tasks
  BY <1>2, <1>6 DEF CommitSync
<1>7. ASSUME NEW s \in Syncer, SyncDataset(s) \/ SyncFiles(s)
      PROVE  UNCHANGED << row, now, lastSync, tasks, failures >> /\ (outdated => outdated')
  <2>1. job[s].action \in SyncAction
    BY <1>7 DEF SyncDataset, SyncFiles, IInv, SyncsAreApart, Job
  <2>2. outdated => outdated'
    BY <1>7, <2>1 DEF SyncDataset, SyncFiles, SyncAction
  <2> QED BY <1>7, <2>2 DEF SyncDataset, SyncFiles
<1>8. ASSUME NEW s \in Syncer, StopSync(s)
      PROVE  UNCHANGED << row, now, lastSync, tasks, failures, v2, outdated >>
  BY <1>8 DEF StopSync
<1>9. ASSUME NEW w \in Worker, Crash(w) \/ \E t \in tasks : TakeTask(w, t)
      PROVE  UNCHANGED << row, now, lastSync, tasks, failures, v2, outdated >>
  BY <1>9 DEF Crash, TakeTask
<1>10. StartRetry \/ SkipLocked \/ UNCHANGED vars
       => UNCHANGED << row, now, lastSync, tasks, failures, v2, outdated >>
  BY <1>3 DEF StartRetry, SkipLocked, vars
<1> QED
  BY <1>4, <1>5, <1>6, <1>7, <1>8, <1>9, <1>10 DEF Next, Proceed, Syncer

\* Who writes the status.
LEMMA StatusStep ==
    ASSUME SyncInv, [Next]_vars, ~Requests
    PROVE  \/ status' = status
           \/ \E s \in Syncer : /\ StartSync(s)
                              /\ status' \in Status
                              /\ ~status'.stopped
           \/ \E s \in Syncer : /\ StopSync(s)
                              /\ pc[s] \in {"stop", "fail"}
                              /\ status' \in Status
                              /\ status'.error = (pc[s] = "fail")
<1> USE DEF SyncInv
<1>1. ASSUME NEW s \in Syncer, StopSync(s)
      PROVE  /\ pc[s] \in {"stop", "fail"}
             /\ status' \in Status
             /\ status'.error = (pc[s] = "fail")
  <2>1. status \in Status
    BY <1>1 DEF StopSync, IInv, SyncsAreApart, Syncing
  <2> QED BY <1>1, <2>1 DEF StopSync, Status
<1>2. ASSUME NEW s \in Syncer, StartSync(s)
      PROVE  status' = status \/ (status' \in Status /\ ~status'.stopped)
  <2>1. job[s] \in Job
    BY <1>2 DEF StartSync, IInv, SyncsAreApart
  <2> QED BY <1>2, <2>1, NewStatus DEF StartSync
<1>3. ASSUME NEW s \in Syncer, SyncDataset(s) \/ SyncFiles(s) \/ CallFails(s) \/ CommitSync(s)
      PROVE  status' = status
  BY <1>3 DEF SyncDataset, SyncFiles, CallFails, CommitSync
<1>4. ASSUME NEW w \in Worker, Crash(w) \/ \E t \in tasks : TakeTask(w, t)
      PROVE  status' = status
  BY <1>4 DEF Crash, TakeTask
<1>5. StartRetry \/ SkipLocked \/ UNCHANGED vars => status' = status
  BY DEF StartRetry, SkipLocked, vars
<1> QED BY <1>1, <1>2, <1>3, <1>4, <1>5 DEF Next, Proceed

LEMMA FirstIsKnownStep == SyncInv /\ [Next]_vars => FirstIsKnown'
<1> SUFFICES ASSUME SyncInv, [Next]_vars, now' = 1
             PROVE  /\ tasks' = {} => status' # None
                    /\ status' # None /\ status'.stopped /\ ~status'.error => v2' = UpToDate'
  BY DEF FirstIsKnown
<1> USE DEF SyncInv
<1>1. CASE Requests
  <2>1. now \in Nat /\ now' = now + 1 /\ status' = status
    BY <1>1, RequestStep
  <2>2. tasks' # {}
    BY <1>1, RequestStep
  <2>3. now = 0
    BY <2>1
  <2> QED BY <2>1, <2>2, <2>3 DEF TasksFit
<1>2. CASE ~Requests
  <2>1. /\ now = 1 /\ IsShown /\ UNCHANGED << row, now >>
        /\ tasks = {} => status # None
        /\ status # None /\ status.stopped /\ ~status.error => v2 = UpToDate
    BY <1>2, SyncStep DEF TasksFit, FirstIsKnown
  <2>2. ASSUME NEW s \in Syncer, Busy(s)
        PROVE  /\ job[s] \in Job /\ job[s].action = "create" /\ ~job[s].removed
               /\ job[s].modified = 1 /\ lastSync <= 1 /\ lastSync \in Nat
    <3>1. job[s].modified \in 1 .. now /\ row # None /\ ~row.removed
      BY <2>1, <2>2, SyncTypes DEF IsShown
    <3>2. job[s].modified = now
      BY <2>1, <3>1
    <3> QED BY <2>1, <2>2, <3>1, <3>2, SyncTypes
  <2>3. IInv /\ UpToDate' = UpToDate /\ UpToDate = [state |-> "present", asOf |-> 1, files |-> 1]
    BY <2>1 DEF UpToDate
  <2>4. tasks' = {} => status' # None
    <3>1. CASE status' = status
      <4>1. ASSUME NEW s \in Syncer, CommitSync(s) PROVE status # None
        BY <4>1, <2>3, NoneIsNoRecord DEF CommitSync, IInv, SyncsAreApart, Syncing
      <4>2. ASSUME NEW w \in Syncer, StartSync(w) PROVE ShouldSync(job[w])
        <5>1. Busy(w)
          BY <4>2 DEF StartSync, Busy
        <5> QED BY <2>2, <5>1 DEF ShouldSync
      <4> QED BY <1>2, <2>1, <3>1, <4>1, <4>2, SyncStep DEF Syncer
    <3> QED BY <1>2, <3>1, StatusStep, NoneIsNoRecord
  <2>5. ASSUME status' # None, status'.stopped, ~status'.error PROVE v2' = UpToDate
    <3>1. CASE status' = status
      <4>1. v2 = UpToDate
        BY <2>1, <2>5, <3>1
      <4>2. ASSUME NEW s \in Syncer, SyncDataset(s) PROVE v2' = UpToDate
        <5>1. Busy(s)
          BY <4>2 DEF SyncDataset, Busy
        <5>2. v2' = v2 \/ v2' = [v2 EXCEPT !.state = "present", !.asOf = 1]
          BY <2>2, <4>2, <5>1 DEF SyncDataset
        <5> QED BY <2>3, <4>1, <5>2
      <4>3. ASSUME NEW s \in Syncer, SyncFiles(s) PROVE v2' = UpToDate
        <5>1. row # None => row.modified = 1
          BY <2>1 DEF TasksFit
        <5>2. v2' = v2 \/ v2' = [v2 EXCEPT !.files = 1]
          BY <4>3, <5>1 DEF SyncFiles
        <5> QED BY <2>3, <4>1, <5>2
      <4> QED BY <1>2, <4>1, <4>2, <4>3, SyncStep
    <3>2. ASSUME NEW s \in Syncer, StopSync(s), status'.error = (pc[s] = "fail"), pc[s] \in {"stop", "fail"}
          PROVE  v2' = UpToDate
      <4>1. pc[s] = "stop" /\ Busy(s) /\ Sent(s)
        BY <2>5, <3>2 DEF Busy, Sent
      <4>2. v2 = UpToDate
        BY <2>1, <2>2, <4>1 DEF PartIsSent
      <4> QED BY <3>2, <4>2 DEF StopSync
    <3> QED BY <1>2, <2>5, <3>1, <3>2, StatusStep
  <2> QED BY <2>3, <2>4, <2>5
<1> QED BY <1>1, <1>2

\* What is left of what shows the dataset, when it is removed.
LEMMA CopiesStayBefore ==
    ASSUME SyncInv, [Next]_vars, ~Requests, row # None, ~IsShown,
           NEW n \in Nat, CopiesAreBefore(n)
    PROVE  /\ \A u \in tasks' : IsCopy(u) => u.modified < n
           /\ \A s \in Syncer : Busy(s)' /\ IsCopy(job'[s]) => job'[s].modified < n
<1> USE DEF SyncInv
<1>1. tasks' \subseteq tasks
  BY SyncStep
<1>2. SUFFICES ASSUME NEW x \in Syncer, pc'[x] # "idle", IsCopy(job'[x])
               PROVE  job'[x].modified < n
  BY <1>1 DEF CopiesAreBefore, Busy
<1>3. CASE pc[x] # "idle" /\ job'[x] = job[x]
  BY <1>2, <1>3 DEF CopiesAreBefore, Busy
<1>4. ASSUME NEW w \in Worker, NEW t \in tasks, TakeTask(w, t)
      PROVE  job'[x].modified < n
  <2>1. CASE x = w
    <3>1. job'[x] = Snapshot(t, FALSE)
      BY <1>4, <2>1 DEF TakeTask, IInv, TypeOK
    <3>2. IsCopy(t) /\ job'[x].modified = t.modified
      BY <1>2, <3>1 DEF IsCopy, Snapshot
    <3> QED BY <3>2 DEF CopiesAreBefore
  <2>2. CASE x # w
    <3>1. pc'[x] = pc[x] /\ job'[x] = job[x]
      BY <1>4, <2>2 DEF TakeTask, IInv, TypeOK
    <3> QED BY <1>2, <1>3, <3>1
  <2> QED BY <2>1, <2>2
<1>5. ASSUME StartRetry PROVE job'[x].modified < n
  <2>1. CASE x = Command
    <3>1. job'[x].removed = (row # None /\ row.removed)
      BY <1>5, <2>1 DEF StartRetry, IInv, TypeOK
    <3>2. job'[x].removed
      BY <3>1 DEF IsShown
    <3> QED BY <1>2, <3>2 DEF IsCopy
  <2>2. CASE x # Command
    <3>1. pc'[x] = pc[x] /\ job'[x] = job[x]
      BY <1>5, <2>2 DEF StartRetry, IInv, TypeOK, Syncer
    <3> QED BY <1>2, <1>3, <3>1
  <2> QED BY <2>1, <2>2
<1>6. ASSUME NEW s \in Syncer, EndSync(s) PROVE job'[x].modified < n
  <2>1. x # s
    BY <1>2, <1>6 DEF EndSync, IInv, TypeOK
  <2>2. pc'[x] = pc[x] /\ job'[x] = job[x]
    BY <1>6, <2>1 DEF EndSync, IInv, TypeOK
  <2> QED BY <1>2, <1>3, <2>2
<1>7. ASSUME NEW w \in Worker, Crash(w) PROVE job'[x].modified < n
  <2>1. x # w
    BY <1>2, <1>7 DEF Crash, IInv, TypeOK
  <2>2. pc'[x] = pc[x] /\ job'[x] = job[x]
    BY <1>7, <2>1 DEF Crash, IInv, TypeOK
  <2> QED BY <1>2, <1>3, <2>2
<1>8. ASSUME NEW s \in Syncer, NEW place, pc[s] # "idle", pc' = [pc EXCEPT ![s] = place], job' = job
      PROVE  job'[x].modified < n
  <2>1. pc[x] # "idle"
    BY <1>2, <1>8 DEF IInv, TypeOK
  <2> QED BY <1>3, <1>8, <2>1
<1>9. ASSUME NEW s \in Syncer, StartSync(s) PROVE job'[x].modified < n
  BY <1>6, <1>8, <1>9 DEF StartSync
<1>10. ASSUME NEW s \in Syncer, SyncDataset(s) PROVE job'[x].modified < n
  <2>1. job[s].action \in SyncAction
    BY <1>10 DEF SyncDataset, IInv, SyncsAreApart, Job
  <2> QED BY <1>8, <1>10, <2>1 DEF SyncDataset, GoTo, SyncAction
<1>11. ASSUME NEW s \in Syncer, SyncFiles(s) \/ CallFails(s) \/ StopSync(s)
       PROVE  job'[x].modified < n
  BY <1>8, <1>11 DEF SyncFiles, CallFails, StopSync, GoTo
<1>12. ASSUME NEW s \in Syncer, CommitSync(s) PROVE job'[x].modified < n
  BY <1>6, <1>12 DEF CommitSync
<1>13. SkipLocked => EndSync(Command)
  BY DEF SkipLocked
<1>14. UNCHANGED vars => pc' = pc /\ job' = job
  BY DEF vars
<1> QED
  BY <1>2, <1>3, <1>4, <1>5, <1>6, <1>7, <1>9, <1>10, <1>11, <1>12, <1>13, <1>14
     DEF Next, Proceed, Syncer

\* What is recorded, and which tasks are done then.
LEMMA CommitStep ==
    ASSUME SyncInv, failures = 0, ~outdated, now > 1, NEW s \in Syncer, CommitSync(s)
    PROVE  /\ Busy(s) /\ v2' = v2
           /\ \/ Sent(s) /\ lastSync' = job[s].modified
              \/ job[s].action = "create" /\ s \in Worker /\ lastSync' = lastSync
           /\ lastSync <= lastSync' /\ lastSync' <= now /\ lastSync' \in Nat
           /\ \A t \in tasks \ tasks' : s \in Worker /\ Snapshot(t, FALSE) = job[s]
<1> USE DEF SyncInv
<1>1. Busy(s) /\ v2' = v2 /\ pc[s] = "commit"
  BY DEF CommitSync, Busy
<1>2. \/ Sent(s) /\ lastSync' = job[s].modified
      \/ job[s].action = "create" /\ s \in Worker /\ lastSync' = lastSync
  BY <1>1 DEF CommitSync, Sent, OnlyCreateFails
<1>3. Sent(s) => lastSync <= job[s].modified
  BY DEF RecordGrows
<1>4. now \in Nat /\ lastSync \in Nat /\ lastSync <= now /\ job[s].modified \in 1 .. now
  BY <1>1, SyncTypes
<1>5. \A t \in tasks \ tasks' : s # Command /\ Snapshot(t, FALSE) = job[s]
  BY DEF CommitSync, EndSync
<1>6. lastSync <= lastSync' /\ lastSync' <= now /\ lastSync' \in Nat
  <2>1. CASE Sent(s) /\ lastSync' = job[s].modified
    BY <1>3, <1>4, <2>1
  <2>2. CASE lastSync' = lastSync
    BY <1>4, <2>2
  <2> QED BY <1>2, <2>1, <2>2
<1> QED BY <1>1, <1>2, <1>5, <1>6 DEF Syncer

LEMMA LastIsKeptStep == SyncInv /\ [Next]_vars => LastIsKept'
<1> SUFFICES ASSUME SyncInv, [Next]_vars, failures' = 0, ~outdated', now' > 1
             PROVE  /\ IsShown' => IsPending' \/ (lastSync' = now' /\ v2' = UpToDate')
                    /\ row' = None => IsPending' \/ (lastSync' = now' /\ v2'.state = "absent")
                    /\ row' # None /\ ~IsShown' =>
                          RemovalIsPending' \/ (v2'.state # "present" /\ CopiesAreBefore(lastSync)')
  BY DEF LastIsKept
<1> USE DEF SyncInv
<1>0. IInv /\ now \in Nat /\ lastSync \in Nat
  BY BoundsAreNumbers DEF IInv, TypeOK, Change
<1>1. CASE Requests
  <2>1. PICK t \in Task :
                /\ tasks' = tasks \cup {t}
                /\ t.modified = now'
                /\ t.action = "delete" => t.removed
                /\ row' # None => t.removed = row'.removed
                /\ row' # None /\ ~IsShown' =>
                      t.action = "delete" \/ (row # None /\ ~IsShown)
    BY <1>1, RequestStep
  <2>2. /\ now' = now + 1
        /\ UNCHANGED << job, pc, lastSync, v2, failures, outdated >>
    BY <1>1, RequestStep
  <2>3. IsPending'
    BY <2>1 DEF IsPending
  <2>4. /\ \A u \in tasks : u.modified <= now
        /\ \A s \in Syncer : Busy(s) => job[s].modified <= now
    BY <1>0, SyncTypes DEF TasksFit, Fits
  <2>5. ASSUME row' # None, ~IsShown', t.action = "delete" PROVE RemovalIsPending'
    <3>1. ~IsCopy(t)
      BY <2>5, <2>1 DEF IsCopy
    <3>2. \A u \in tasks : u.modified < now'
      BY <1>0, <2>2, <2>4 DEF TasksFit, Fits
    <3>3. \A s \in Syncer : Busy(s)' => job'[s].modified < now'
      <4> SUFFICES ASSUME NEW s \in Syncer, Busy(s) PROVE job[s].modified < now'
        BY <2>2 DEF Busy
      <4>1. job[s].modified \in 1 .. now
        BY SyncTypes
      <4> QED BY <1>0, <2>2, <4>1
    <3>4. CopiesAreBefore(t.modified)'
      BY <2>1, <3>1, <3>2, <3>3 DEF CopiesAreBefore, IsCopy
    <3> QED BY <2>1, <2>5, <3>4 DEF RemovalIsPending
  <2>6. ASSUME row' # None, ~IsShown', row # None, ~IsShown
        PROVE  RemovalIsPending' \/ (v2'.state # "present" /\ CopiesAreBefore(lastSync)')
    <3>1. ~IsCopy(t)
      BY <2>6, <2>1 DEF IsCopy, IsShown
    <3>2. now > 1
      BY <1>0, <2>6 DEF TasksFit
    <3>3. RemovalIsPending \/ (v2.state # "present" /\ CopiesAreBefore(lastSync))
      BY <2>2, <2>6, <3>2 DEF LastIsKept
    <3>4. ASSUME NEW n, CopiesAreBefore(n) PROVE CopiesAreBefore(n)'
      BY <2>1, <2>2, <3>1, <3>4 DEF CopiesAreBefore, Busy, IsCopy
    <3> QED BY <2>1, <2>2, <3>3, <3>4 DEF RemovalIsPending, CopiesAreBefore, Busy
  <2> QED BY <2>1, <2>3, <2>5, <2>6
<1>2. CASE ~Requests
  <2>1. /\ UNCHANGED << row, now >>
        /\ tasks' \subseteq tasks
        /\ \/ UNCHANGED << v2, outdated >>
           \/ \E s \in Syncer : SyncDataset(s) \/ SyncFiles(s)
        /\ \/ UNCHANGED << lastSync, tasks >>
           \/ \E s \in Syncer : CommitSync(s)
           \/ \E w \in Worker : StartSync(w) /\ ~ShouldSync(job[w]) /\ lastSync' = lastSync
        /\ failures = 0 /\ now > 1
    BY <1>2, SyncStep
  <2>2. ~outdated
    BY <1>2, SyncStep
  <2>3. ASSUME NEW t \in tasks, t \notin tasks',
               t.action = "delete" \/ t.modified = now
        PROVE  \E s \in Worker : /\ CommitSync(s)
                                 /\ Snapshot(t, FALSE) = job[s]
                                 /\ Busy(s) /\ Sent(s)
                                 /\ lastSync' = t.modified
                                 /\ v2' = v2
    <3>1. ASSUME NEW s \in Syncer, CommitSync(s)
          PROVE  /\ Snapshot(t, FALSE) = job[s] /\ s \in Worker
                 /\ Busy(s) /\ Sent(s)
                 /\ lastSync' = t.modified
                 /\ v2' = v2
      <4>1. Snapshot(t, FALSE) = job[s] /\ s \in Worker /\ Busy(s) /\ v2' = v2
        BY <2>1, <2>2, <2>3, <3>1, CommitStep
      <4>2. job[s].modified = t.modified /\ job[s].action = t.action
        BY <4>1 DEF Snapshot
      <4>3. job[s].action # "create"
        BY <2>1, <2>3, <4>1, <4>2, SyncTypes
      <4> QED BY <2>1, <2>2, <3>1, <4>1, <4>2, <4>3, CommitStep
    <3>2. ASSUME NEW w \in Worker, StartSync(w), ~ShouldSync(job[w])
          PROVE  FALSE
      <4>1. Snapshot(t, FALSE) = job[w] /\ Busy(w)
        BY <2>3, <3>2 DEF StartSync, EndSync, Busy
      <4>2. job[w].modified = t.modified /\ job[w].action = t.action
        BY <4>1 DEF Snapshot
      <4>3. lastSync <= now
        BY DEF TasksFit
      <4> QED BY <2>3, <3>2, <4>2, <4>3 DEF ShouldSync
    <3> QED BY <2>1, <2>3, <3>1, <3>2
  <2>4. v2 \in [state: {"absent", "present", "removed"}, asOf: Change, files: Change]
    BY DEF IInv, TypeOK
  <2>5. lastSync <= lastSync' /\ lastSync' \in Nat /\ (lastSync = now => lastSync' = now)
    <3>1. ASSUME NEW s \in Syncer, CommitSync(s)
          PROVE  lastSync <= lastSync' /\ lastSync' <= now /\ lastSync' \in Nat
      BY <2>1, <2>2, <3>1, CommitStep
    <3>2. CASE lastSync' = lastSync
      BY <1>0, <3>2
    <3>3. CASE lastSync <= lastSync' /\ lastSync' <= now /\ lastSync' \in Nat
      BY <1>0, <3>3
    <3> QED BY <2>1, <3>1, <3>2, <3>3
  <2>6. UpToDate' = UpToDate
    BY <2>1 DEF UpToDate
  <2>7. ASSUME IsShown PROVE IsPending' \/ (lastSync' = now /\ v2' = UpToDate)
    <3>1. CASE IsPending
      <4>1. PICK t \in tasks : t.modified = now
        BY <3>1 DEF IsPending
      <4>2. CASE t \notin tasks'
        <5>1. PICK s \in Worker : /\ Snapshot(t, FALSE) = job[s]
                                  /\ Busy(s) /\ Sent(s)
                                  /\ lastSync' = t.modified
                                  /\ v2' = v2
          BY <2>3, <4>1, <4>2
        <5>2. job[s].modified = now
          BY <4>1, <5>1 DEF Snapshot
        <5>3. job[s].action \in {"create", "update"}
          BY <2>7, <5>1, <5>2, SyncTypes DEF Syncer
        <5>4. v2 = UpToDate
          BY <2>7, <5>1, <5>2, <5>3 DEF PartIsSent, Syncer
        <5> QED BY <4>1, <5>1, <5>4
      <4> QED BY <2>1, <4>1, <4>2 DEF IsPending
    <3>2. CASE lastSync = now /\ v2 = UpToDate
      <4>1. ASSUME NEW s \in Syncer, SyncDataset(s) PROVE v2' = UpToDate
        <5>1. Busy(s) /\ pc[s] = "dataset"
          BY <4>1 DEF SyncDataset, Busy
        <5>2. job[s].modified \in 1 .. now /\ row # None /\ row.modified = now /\ ~row.removed
                /\ job[s].action \in SyncAction
          BY <2>7, <5>1, SyncTypes DEF IsShown, Job
        <5>3. job[s].action \in {"delete", "flush"} => IsOutdated(job[s])
          BY <1>0, <3>2, <5>2 DEF IsOutdated
        <5>4. job[s].action \in {"create", "update"}
          BY <4>1, <5>2, <5>3 DEF SyncDataset, SyncAction
        <5>5. lastSync <= job[s].modified
          BY <5>1, <5>4 DEF IInv, SyncsAreNotOld
        <5>6. job[s].modified = now
          BY <1>0, <3>2, <5>2, <5>5
        <5>7. v2' = v2 \/ v2' = [v2 EXCEPT !.state = "present", !.asOf = now]
          BY <4>1, <5>4, <5>6 DEF SyncDataset
        <5> QED BY <2>4, <3>2, <5>7 DEF UpToDate
      <4>2. ASSUME NEW s \in Syncer, SyncFiles(s) PROVE v2' = UpToDate
        <5>1. row # None => row.modified = now
          BY DEF TasksFit
        <5>2. v2' = v2 \/ v2' = [v2 EXCEPT !.files = now]
          BY <4>2, <5>1 DEF SyncFiles
        <5> QED BY <2>4, <3>2, <5>2 DEF UpToDate
      <4> QED BY <2>1, <2>5, <3>2, <4>1, <4>2
    <3> QED BY <2>1, <2>2, <2>7, <3>1, <3>2 DEF LastIsKept
  <2>8. ASSUME row = None PROVE IsPending' \/ (lastSync' = now /\ v2'.state = "absent")
    <3>1. CASE IsPending
      <4>1. PICK t \in tasks : t.modified = now
        BY <3>1 DEF IsPending
      <4>2. CASE t \notin tasks'
        <5>1. PICK s \in Worker : /\ Snapshot(t, FALSE) = job[s]
                                  /\ Busy(s) /\ Sent(s)
                                  /\ lastSync' = t.modified
                                  /\ v2' = v2
          BY <2>3, <4>1, <4>2
        <5>2. job[s].modified = now
          BY <4>1, <5>1 DEF Snapshot
        <5>3. v2.state = "absent"
          BY <2>8, <5>1, <5>2 DEF PartIsSent, Syncer
        <5> QED BY <4>1, <5>1, <5>3
      <4> QED BY <2>1, <4>1, <4>2 DEF IsPending
    <3>2. CASE lastSync = now /\ v2.state = "absent"
      <4>1. ASSUME NEW s \in Syncer, SyncDataset(s) PROVE v2' = v2
        <5>1. Busy(s) /\ pc[s] = "dataset"
          BY <4>1 DEF SyncDataset, Busy
        <5>2. job[s].modified \in 1 .. now /\ job[s].action \in SyncAction
                /\ (job[s].modified = now => job[s].action \in {"delete", "flush"})
          BY <2>8, <5>1, SyncTypes DEF Job
        <5>3. job[s].action \in {"create", "update"} => lastSync <= job[s].modified
          BY <5>1 DEF IInv, SyncsAreNotOld
        <5>4. job[s].action \in {"delete", "flush"}
          BY <1>0, <3>2, <5>2, <5>3 DEF SyncAction
        <5> QED BY <3>2, <4>1, <5>4 DEF SyncDataset, AfterDelete
      <4>2. ASSUME NEW s \in Syncer, SyncFiles(s) PROVE v2' = v2
        BY <2>8, <4>2 DEF SyncFiles
      <4> QED BY <2>1, <2>5, <3>2, <4>1, <4>2
    <3> QED BY <2>1, <2>2, <2>8, <3>1, <3>2 DEF LastIsKept, IsShown
  <2>9. ASSUME row # None, ~IsShown
        PROVE  RemovalIsPending' \/ (v2'.state # "present" /\ CopiesAreBefore(lastSync)')
    <3>1. ASSUME NEW n \in Nat, CopiesAreBefore(n)
          PROVE  /\ \A u \in tasks' : IsCopy(u) => u.modified < n
                 /\ \A s \in Syncer : Busy(s)' /\ IsCopy(job'[s]) => job'[s].modified < n
      BY <1>2, <2>9, <3>1, CopiesStayBefore
    <3>2. CASE RemovalIsPending
      <4>1. PICK t \in tasks : t.action = "delete" /\ CopiesAreBefore(t.modified)
        BY <3>2 DEF RemovalIsPending
      <4>2. t.modified \in Nat
        BY <1>0 DEF TasksFit, Fits
      <4>3. CASE t \in tasks'
        BY <3>1, <4>1, <4>2, <4>3 DEF RemovalIsPending, CopiesAreBefore, IsCopy
      <4>4. CASE t \notin tasks'
        <5>1. PICK s \in Worker : /\ Snapshot(t, FALSE) = job[s]
                                  /\ Busy(s) /\ Sent(s)
                                  /\ lastSync' = t.modified
                                  /\ v2' = v2
          BY <2>3, <4>1, <4>4
        <5>2. job[s].action = "delete"
          BY <4>1, <5>1 DEF Snapshot
        <5>3. v2.state # "present"
          BY <5>1, <5>2 DEF PartIsSent, Syncer
        <5> QED BY <3>1, <4>1, <4>2, <5>1, <5>3 DEF CopiesAreBefore, IsCopy
      <4> QED BY <4>3, <4>4
    <3>3. CASE v2.state # "present" /\ CopiesAreBefore(lastSync)
      <4>1. ASSUME NEW s \in Syncer, SyncDataset(s) PROVE v2'.state # "present"
        <5>1. Busy(s) /\ pc[s] = "dataset"
          BY <4>1 DEF SyncDataset, Busy
        <5>2. job[s].modified \in 1 .. now /\ job[s].action \in SyncAction
          BY <5>1, SyncTypes DEF Job
        <5>3. job[s].action \in {"create", "update"} => job[s].removed
          BY <1>0, <3>3, <5>1, <5>2 DEF IInv, SyncsAreNotOld, CopiesAreBefore, IsCopy
        <5>4. CASE job[s].action \in {"create", "update"}
          BY <3>3, <4>1, <5>3, <5>4 DEF SyncDataset
        <5>5. CASE job[s].action \in {"delete", "flush"}
          <6>1. v2' = AfterDelete(job[s])
            BY <4>1, <5>5 DEF SyncDataset
          <6> QED BY <2>4, <3>3, <6>1 DEF AfterDelete
        <5> QED BY <5>2, <5>4, <5>5 DEF SyncAction
      <4>2. ASSUME NEW s \in Syncer, SyncFiles(s) PROVE v2'.state # "present"
        BY <2>4, <3>3, <4>2 DEF SyncFiles
      <4>3. v2'.state # "present"
        BY <2>1, <3>3, <4>1, <4>2
      <4>4. CopiesAreBefore(lastSync')
        <5>1. \A t \in tasks : t.modified \in Nat
          BY <1>0 DEF TasksFit, Fits
        <5>2. \A s \in Syncer : Busy(s) => job[s].modified \in Nat
          BY <1>0, SyncTypes
        <5> QED BY <1>0, <2>5, <3>3, <5>1, <5>2 DEF CopiesAreBefore
      <4> QED BY <2>5, <3>1, <4>3, <4>4 DEF CopiesAreBefore, IsCopy
    <3> QED BY <2>1, <2>2, <2>9, <3>2, <3>3 DEF LastIsKept
  <2> QED BY <2>1, <2>6, <2>7, <2>8, <2>9 DEF IsShown
<1> QED BY <1>1, <1>2

LEMMA SyncInvariance == Spec => []SyncInv
<1>1. SyncInv /\ [Next]_vars => IInv'
  BY TypeStep, ApartStep, NotOldStep DEF IInv, SyncInv
<1>2. SyncInv /\ [Next]_vars => SyncInv'
  BY <1>1, TasksFitStep, PartIsSentStep, OnlyCreateFailsStep, FirstIsKnownStep, LastIsKeptStep
     DEF SyncInv
<1> QED BY SyncInit, <1>2, PTL DEF Spec

\* However tasks are ordered and repeated, wherever workers crash and whatever
\* the command repeats, once all is done V2 has the dataset as it is or the
\* status tells of a failed sync, for any number of changes and workers.
THEOREM FailureIsRememberedCorrect == Spec => []FailureIsRemembered
<1>1. SyncInv => FailureIsRemembered
  <2> SUFFICES ASSUME SyncInv, NoneForgotten, ~outdated, tasks = {}, \A s \in Syncer : pc[s] = "idle"
               PROVE  InSync \/ FailedSync
    BY DEF FailureIsRemembered, Quiet
  <2>1. now \in Nat
    BY BoundsAreNumbers DEF SyncInv, IInv, TypeOK, Change
  <2>2. row # None => row.modified = now
    BY DEF SyncInv, TasksFit
  <2>3. CASE now = 0
    BY <2>3 DEF SyncInv, TasksFit, InSync
  <2>4. CASE now = 1
    <3>1. status # None /\ IsShown
      BY <2>4 DEF SyncInv, TasksFit, FirstIsKnown
    <3>2. ~FailedSync => v2 = UpToDate
      BY <2>4, <3>1 DEF SyncInv, FirstIsKnown, FailedSync
    <3> QED BY <2>2, <3>1, <3>2 DEF InSync, IsShown, UpToDate
  <2>5. CASE now > 1
    <3>1. failures = 0 /\ ~IsPending /\ ~RemovalIsPending
      BY <2>1, <2>5 DEF NoneForgotten, IsPending, RemovalIsPending
    <3>2. /\ IsShown => v2 = UpToDate
          /\ row = None => v2.state = "absent"
          /\ row # None /\ ~IsShown => v2.state # "present"
      BY <2>5, <3>1 DEF SyncInv, LastIsKept
    <3> QED BY <2>2, <3>2 DEF InSync, IsShown, UpToDate
  <2> QED BY <2>1, <2>3, <2>4, <2>5
<1> QED BY <1>1, SyncInvariance, PTL
=============================================================================
