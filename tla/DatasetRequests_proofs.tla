-------------------- MODULE DatasetRequests_proofs --------------------
(* What is proved of requests about datasets. Of OverlappingRequests, for any   *)
(* number of workers and any set of files: what a request has validated under   *)
(* the lock of its target is still so when it commits, whatever the others do.  *)
(* Of DatasetFiles, for any lists of actions: a dataset describes files that it *)
(* has. The two specifications, Spec and ContentsSpec, share the files and no   *)
(* variables.                                                                   *)
EXTENDS OverlappingRequests, DatasetFiles, TLAPS

(***************************************************************************)
(*                          OVERLAPPING REQUESTS                           *)
(***************************************************************************)

\* Worker w has read the target of its request, under lock.
HasTarget(w) == pc[w] \in {"check", "write"} /\ job[w].kind # "delete_file"

JobFits(w) ==
    /\ job[w] = None <=> pc[w] = "idle"
    /\ pc[w] \in {"lock", "check"} => job[w].kind # "delete_file"
    /\ pc[w] = "idle" => seen[w] = Unread

\* The row of the target is as the request has read it.
TargetIsKept(w) ==
    HasTarget(w) =>
        /\ owner[job[w].target] = w
        /\ row[job[w].target] # None
        /\ seen[w][job[w].target] = row[job[w].target]
        /\ row[job[w].target].removed => job[w].kind \in {"restore", "update"}

\* A request on an original that had no draft is not overtaken by a new draft.
NoDraftIsMissed(w) ==
    HasTarget(w) /\ job[w].target = "original" /\ seen[w]["draft"] = None =>
        row["draft"] = None

\* What was checked holds of what was read.
ChecksAreKept(w) ==
    pc[w] = "write" =>
        /\ job[w].kind = "create_draft" => seen[w]["draft"] = None
        /\ job[w].kind = "update" =>
               CumulativeOfUpdate(w) \in CumulativeAfter(seen[w]["original"].cumulative)

\* The locks of the other rows that the request has written so far.
OthersAreHeld(w) ==
    pc[w] = "write" =>
        /\ job[w].kind = "publish" =>
               \A l \in {"original", "file_set"} \ todo[w] : owner[l] = w
        /\ job[w].kind = "delete" =>
               \A l \in LocksOfDraft(w) \ todo[w] : owner[l] = w
        /\ job[w].kind = "delete_file" =>
               \A x \in Row \ todo[w] : seen[w][x] # None => owner[x] = w /\ row[x] # None

\* What a request relies on until it ends.
Relies(w) ==
    JobFits(w) /\ TargetIsKept(w) /\ NoDraftIsMissed(w) /\ ChecksAreKept(w) /\ OthersAreHeld(w)

IInv == TypeOK /\ \A w \in Worker : Relies(w)

-----------------------------------------------------------------------------
(* Types. *)

LEMMA RequestForms ==
    ASSUME NEW r \in Request
    PROVE  /\ r.kind \in {"update", "create_draft", "restore", "publish", "delete", "delete_file"}
           /\ r.kind # "delete_file" => r.target \in Row
           /\ r.kind = "update" => r.cumulative \in CumulativeState \cup {None}
           /\ r.kind \in {"create_draft", "restore"} => r.target = "original"
           /\ r.kind = "publish" => r.target = "draft"
<1>1. CASE r \in [kind: {"update"}, target: Row, file: File \cup {None},
                  cumulative: CumulativeState \cup {None}]
  BY <1>1
<1>2. CASE r \in [kind: {"create_draft", "restore"}, target: {"original"}]
  BY <1>2 DEF Row
<1>3. CASE r \in [kind: {"publish"}, target: {"draft"}]
  BY <1>3 DEF Row
<1>4. CASE r \in [kind: {"delete"}, target: Row]
  BY <1>4
<1>5. CASE r \in [kind: {"delete_file"}, file: File]
  BY <1>5
<1> QED BY <1>1, <1>2, <1>3, <1>4, <1>5 DEF Request

LEMMA EndKeepsTypes ==
    ASSUME TypeOK, NEW w \in Worker, EndTransaction(w)
    PROVE  /\ owner' \in [Lock -> Worker \cup {None}]
           /\ job' \in [Worker -> Request \cup {None}]
           /\ pc' \in [Worker -> {"idle", "lock", "check", "write"}]
           /\ seen' \in [Worker -> [Row -> DatasetRow \cup {None}]]
           /\ todo' \in [Worker -> SUBSET Lock]
BY DEF EndTransaction, TypeOK, Unread

LEMMA RollbackKeepsTypes ==
    ASSUME TypeOK, NEW w \in Worker, Rollback(w)
    PROVE  TypeOK'
BY EndKeepsTypes DEF Rollback, TypeOK

LEMMA CopyIsCumulativeState ==
    ASSUME NEW c \in CumulativeState
    PROVE  CumulativeOfCopy(c) \in CumulativeState
BY DEF CumulativeOfCopy, CumulativeState

\* Columns are set one at a time.
LEMMA ColumnsAreTyped ==
    ASSUME NEW r \in DatasetRow
    PROVE  /\ \A c \in CumulativeState : [r EXCEPT !.cumulative = c] \in DatasetRow
           /\ [r EXCEPT !.removed = TRUE] \in DatasetRow
           /\ [r EXCEPT !.removed = FALSE] \in DatasetRow
           /\ [r EXCEPT !.deprecated = TRUE] \in DatasetRow
BY Zenon DEF DatasetRow

LEMMA FileOfRequest ==
    ASSUME NEW r \in Request
    PROVE  /\ r.kind = "update" => r.file \in File \cup {None}
           /\ r.kind = "delete_file" => r.file \in File
<1>1. CASE r \in [kind: {"update"}, target: Row, file: File \cup {None},
                  cumulative: CumulativeState \cup {None}]
  BY <1>1
<1>2. CASE r \in [kind: {"delete_file"}, file: File]
  BY <1>2
<1>3. CASE r.kind \notin {"update", "delete_file"}
  BY <1>3
<1> QED BY <1>1, <1>2, <1>3 DEF Request

\* A worker with a request has one, and it is about a row of the table.
LEMMA JobIsRequest ==
    ASSUME IInv, NEW w \in Worker, pc[w] # "idle"
    PROVE  /\ job[w] \in Request
           /\ job[w] # None
           /\ job[w].kind # "delete_file" => job[w].target \in Row
BY RequestForms DEF IInv, Relies, TypeOK, JobFits

\* What a request that commits has read of its target, and of the original.
LEMMA TargetIsRow ==
    ASSUME IInv, NEW w \in Worker, HasTarget(w)
    PROVE  /\ job[w] \in Request /\ job[w].target \in Row
           /\ owner[job[w].target] = w
           /\ row[job[w].target] \in DatasetRow
           /\ seen[w][job[w].target] = row[job[w].target]
           /\ row[job[w].target].removed => job[w].kind \in {"restore", "update"}
<1>1. job[w] \in Request /\ job[w].target \in Row
  BY JobIsRequest DEF HasTarget
<1>2. TargetIsKept(w)
  BY DEF IInv, Relies
<1> QED BY <1>1, <1>2 DEF TargetIsKept, IInv, Relies, TypeOK

-----------------------------------------------------------------------------
(* What a commit does to the rows. *)

\* The cumulative state that an update saves is one of the three.
LEMMA UpdateIsCumulativeState ==
    ASSUME IInv, NEW w \in Worker, HasTarget(w), job[w].kind = "update"
    PROVE  CumulativeOfUpdate(w) \in CumulativeState
<1>1. job[w].cumulative \in CumulativeState \cup {None}
  BY TargetIsRow, RequestForms
<1>2. seen[w][job[w].target].cumulative \in CumulativeState
  BY TargetIsRow DEF DatasetRow
<1> QED BY <1>1, <1>2 DEF CumulativeOfUpdate

\* One row or none is written: its lock is held, or it is the new draft.
Written(w, x) ==
    \/ owner[x] = w /\ row[x] # None
    \/ x = "draft" /\ row[x] = None /\ owner["original"] = w

LEMMA CommitWrites ==
    ASSUME IInv, NEW w \in Worker, Commit(w)
    PROVE  /\ row' \in [Row -> DatasetRow \cup {None}]
           /\ row'["original"] # None
           /\ \A x \in Row : row'[x] # row[x] => Written(w, x)
<1>1. TypeOK /\ pc[w] = "write" /\ todo[w] = {} /\ job[w] \in Request /\ OthersAreHeld(w)
      /\ ChecksAreKept(w) /\ NoDraftIsMissed(w)
  BY JobIsRequest DEF Commit, IInv, Relies
<1>2. CASE job[w].kind = "update" /\ CommitUpdate(w)
  <2> DEFINE x == job[w].target
             n == [seen[w][x] EXCEPT !.cumulative = CumulativeOfUpdate(w)]
  <2>1. x \in Row /\ owner[x] = w /\ row[x] \in DatasetRow /\ seen[w][x] = row[x]
    BY <1>1, <1>2, TargetIsRow DEF HasTarget
  <2>2. n \in DatasetRow
    BY <1>1, <1>2, <2>1, UpdateIsCumulativeState, ColumnsAreTyped, Zenon DEF HasTarget
  <2>3. row' = [row EXCEPT ![x] = n]
    BY <1>2 DEF CommitUpdate
  <2> HIDE DEF x, n
  <2> QED BY <1>1, <2>1, <2>2, <2>3, NoneIsNoRecord DEF TypeOK, Written
<1>3. CASE job[w].kind = "create_draft" /\ CommitCreateDraft(w)
  <2> DEFINE n == [removed |-> FALSE, deprecated |-> FALSE,
                   cumulative |-> CumulativeOfCopy(seen[w]["original"].cumulative)]
  <2>1. job[w].target = "original"
    BY <1>1, <1>3, RequestForms
  <2>2. owner["original"] = w /\ seen[w]["original"] \in DatasetRow
    BY <1>1, <1>3, <2>1, TargetIsRow DEF HasTarget
  <2>3. row["draft"] = None
    BY <1>1, <1>3, <2>1 DEF ChecksAreKept, NoDraftIsMissed, HasTarget
  <2>4. n \in DatasetRow
    BY <2>2, CopyIsCumulativeState DEF DatasetRow
  <2>5. row' = [row EXCEPT !["draft"] = n]
    BY <1>3 DEF CommitCreateDraft
  <2> HIDE DEF n
  <2> QED BY <1>1, <2>2, <2>3, <2>4, <2>5 DEF TypeOK, Written, Row
<1>4. CASE job[w].kind = "publish" /\ CommitMerge(w)
  <2>1. job[w].target = "draft"
    BY <1>1, <1>4, RequestForms
  <2>2. owner["draft"] = w /\ row["draft"] \in DatasetRow /\ seen[w]["draft"] = row["draft"]
    BY <1>1, <1>4, <2>1, TargetIsRow DEF HasTarget
  <2>3. owner["original"] = w
    BY <1>1, <1>4 DEF OthersAreHeld
  <2>4. row' = [row EXCEPT !["original"] = row["draft"], !["draft"] = None]
    BY <1>4, <2>2 DEF CommitMerge
  <2> QED BY <1>1, <2>2, <2>3, <2>4, NoneIsNoRecord DEF TypeOK, Written, Row
<1>5. CASE job[w].kind = "delete" /\ CommitDelete(w)
  <2>1. /\ job[w].target \in Row /\ owner[job[w].target] = w /\ row[job[w].target] \in DatasetRow
        /\ seen[w][job[w].target] = row[job[w].target]
    BY <1>1, <1>5, TargetIsRow DEF HasTarget
  <2>2. row["draft"] # None => owner["draft"] = w
    <3>1. CASE job[w].target = "draft"
      BY <2>1, <3>1
    <3>2. CASE job[w].target = "original" /\ seen[w]["draft"] = None
      BY <1>1, <1>5, <3>2 DEF NoDraftIsMissed, HasTarget
    <3>3. CASE job[w].target = "original" /\ seen[w]["draft"] # None
      BY <1>1, <1>5, <3>3 DEF OthersAreHeld, LocksOfDraft
    <3> QED BY <2>1, <3>1, <3>2, <3>3 DEF Row
  <2> DEFINE n == [seen[w]["original"] EXCEPT !.removed = TRUE]
  <2>3. job[w].target = "original" => n \in DatasetRow
    BY <2>1, ColumnsAreTyped, Zenon
  <2>4. row' = [x \in Row |-> IF x = "draft" THEN None
                              ELSE IF job[w].target = "original" THEN n ELSE row[x]]
    BY <1>5 DEF CommitDelete, Row
  <2> HIDE DEF n
  <2> QED BY <1>1, <2>1, <2>2, <2>3, <2>4, NoneIsNoRecord DEF TypeOK, Written, Row
<1>6. CASE job[w].kind = "restore" /\ CommitRestore(w)
  <2> DEFINE n == [seen[w]["original"] EXCEPT !.removed = FALSE]
  <2>1. job[w].target = "original"
    BY <1>1, <1>6, RequestForms
  <2>2. /\ owner["original"] = w /\ row["original"] \in DatasetRow
        /\ seen[w]["original"] = row["original"]
    BY <1>1, <1>6, <2>1, TargetIsRow DEF HasTarget
  <2>3. n \in DatasetRow
    BY <2>2, ColumnsAreTyped, Zenon
  <2>4. row' = [row EXCEPT !["original"] = n]
    BY <1>6 DEF CommitRestore
  <2> HIDE DEF n
  <2> QED BY <1>1, <2>2, <2>3, <2>4, NoneIsNoRecord DEF TypeOK, Written, Row
<1>7. CASE job[w].kind = "delete_file" /\ CommitDeleteFile(w)
  <2> DEFINE n(x) == [seen[w][x] EXCEPT !.deprecated = TRUE]
  <2>1. \A x \in Row : seen[w][x] # None => n(x) \in DatasetRow
    <3>1. \A x \in Row : seen[w][x] \in DatasetRow \cup {None}
      BY <1>1 DEF TypeOK
    <3> QED BY <3>1, ColumnsAreTyped, Zenon
  <2>2. row' = [x \in Row |-> IF seen[w][x] = None THEN row[x] ELSE n(x)]
    BY <1>7 DEF CommitDeleteFile
  <2>3. \A x \in Row : seen[w][x] # None => owner[x] = w /\ row[x] # None
    BY <1>1, <1>7 DEF OthersAreHeld
  <2> HIDE DEF n
  <2> QED BY <1>1, <2>1, <2>2, <2>3, NoneIsNoRecord DEF TypeOK, Written, Row
<1> QED BY <1>2, <1>3, <1>4, <1>5, <1>6, <1>7 DEF Commit

-----------------------------------------------------------------------------
(* Types. *)

LEMMA CommitKeepsTypes ==
    ASSUME IInv, NEW w \in Worker, Commit(w)
    PROVE  TypeOK'
<1>1. TypeOK /\ job[w] \in Request /\ EndTransaction(w) /\ pc[w] = "write"
  BY JobIsRequest DEF IInv, Relies, Commit
<1>2. files' \in [Row -> SUBSET File] /\ deleted' \subseteq File
  <2>1. CASE job[w].kind = "update" /\ CommitUpdate(w)
    <3>1. job[w].target \in Row
      BY <1>1, <2>1, TargetIsRow DEF HasTarget
    <3>2. AddedFiles(w) \subseteq File
      <4>1. job[w].file \in File \cup {None}
        BY <1>1, <2>1, FileOfRequest
      <4> QED BY <4>1 DEF AddedFiles
    <3> QED BY <1>1, <2>1, <3>1, <3>2 DEF CommitUpdate, TypeOK
  <2>2. CASE job[w].kind = "delete_file" /\ CommitDeleteFile(w)
    BY <1>1, <2>2, FileOfRequest DEF CommitDeleteFile, TypeOK
  <2>3. CASE job[w].kind = "create_draft" /\ CommitCreateDraft(w)
    BY <1>1, <2>3 DEF CommitCreateDraft, AvailableFiles, TypeOK, Row
  <2>4. CASE job[w].kind = "publish" /\ CommitMerge(w)
    BY <1>1, <2>4 DEF CommitMerge, TypeOK, Row
  <2>5. CASE \/ job[w].kind = "delete" /\ CommitDelete(w)
             \/ job[w].kind = "restore" /\ CommitRestore(w)
    BY <1>1, <2>5 DEF CommitDelete, CommitRestore, TypeOK, Row
  <2> QED BY <2>1, <2>2, <2>3, <2>4, <2>5 DEF Commit
<1> QED BY <1>1, <1>2, CommitWrites, EndKeepsTypes DEF TypeOK

LEMMA TypeOKStep == IInv /\ [Next]_vars => TypeOK'
<1> SUFFICES ASSUME IInv, [Next]_vars PROVE TypeOK'
  OBVIOUS
<1>0. TypeOK
  BY DEF IInv, Relies
<1>1. ASSUME NEW w \in Worker, NEW r \in Request, Receive(w, r) PROVE TypeOK'
  <2>1. {x \in Row : r.file \in files[x]} \in SUBSET Lock
    BY DEF Lock
  <2> DEFINE T == {x \in Row : r.file \in files[x]}
  <2>2. todo' = todo \/ todo' = [todo EXCEPT ![w] = T]
    BY <1>1 DEF Receive
  <2> HIDE DEF T
  <2>3. todo' \in [Worker -> SUBSET Lock]
    BY <1>0, <2>1, <2>2 DEF TypeOK, T
  <2> QED BY <1>0, <1>1, <2>3, Zenon DEF Receive, TypeOK
<1>2. ASSUME NEW w \in Worker, LockTarget(w) PROVE TypeOK'
  <2>1. job[w].target \in Lock
    BY <1>2, JobIsRequest DEF LockTarget, IInv, Relies, JobFits, Lock
  <2>2. CASE Rollback(w)
    BY <1>0, <2>2, RollbackKeepsTypes
  <2> QED BY <1>0, <1>2, <2>1, <2>2, Zenon DEF LockTarget, TypeOK
<1>3. ASSUME NEW w \in Worker, Check(w) PROVE TypeOK'
  <2>1. LocksToTake(w) \in SUBSET Lock
    BY DEF LocksToTake, LocksOfDraft, Lock, Row
  <2>2. CASE Rollback(w)
    BY <1>0, <2>2, RollbackKeepsTypes
  <2> QED BY <1>0, <1>3, <2>1, <2>2, Zenon DEF Check, TypeOK
<1>4. ASSUME NEW w \in Worker, NEW l \in Lock, WriteOtherRow(w, l) PROVE TypeOK'
  <2>1. CASE Rollback(w)
    BY <1>0, <2>1, RollbackKeepsTypes
  <2> QED BY <1>0, <1>4, <2>1, ZenonT(60) DEF WriteOtherRow, TypeOK
<1>5. ASSUME NEW w \in Worker, NEW x \in Row, ReadToDeprecate(w, x) PROVE TypeOK'
  <2>1. CASE Rollback(w)
    BY <1>0, <2>1, RollbackKeepsTypes
  <2>2. CASE todo' = [todo EXCEPT ![w] = @ \ {x}] /\ seen' = seen
             /\ UNCHANGED << row, files, deleted, owner, job, pc >>
    BY <1>0, <2>2 DEF TypeOK
  <2>3. CASE seen' = [seen EXCEPT ![w][x] = row[x]] /\ todo' = todo
             /\ UNCHANGED << row, files, deleted, owner, job, pc >>
    BY <1>0, <2>3 DEF TypeOK
  <2> QED BY <1>5, <2>1, <2>2, <2>3 DEF ReadToDeprecate
<1>6. ASSUME NEW w \in Worker, NEW x \in Row, SaveDeprecated(w, x) PROVE TypeOK'
  <2>1. CASE Rollback(w)
    BY <1>0, <2>1, RollbackKeepsTypes
  <2>2. CASE owner' = [owner EXCEPT ![x] = w] /\ todo' = [todo EXCEPT ![w] = @ \ {x}]
             /\ UNCHANGED << row, files, deleted, job, pc, seen >>
    BY <1>0, <2>2, Zenon DEF TypeOK
  <2> QED BY <1>6, <2>1, <2>2 DEF SaveDeprecated
<1>7. ASSUME NEW w \in Worker, Commit(w) PROVE TypeOK'
  BY <1>7, CommitKeepsTypes
<1>8. ASSUME NEW w \in Worker, AbortDeadlock(w) PROVE TypeOK'
  BY <1>0, <1>8, RollbackKeepsTypes DEF AbortDeadlock
<1>9. CASE UNCHANGED vars
  BY <1>0, <1>9 DEF vars, TypeOK
<1> QED BY <1>1, <1>2, <1>3, <1>4, <1>5, <1>6, <1>7, <1>8, <1>9 DEF Next, Proceed

-----------------------------------------------------------------------------
(* What a worker does to the others. *)

\* A step is of one worker. It takes locks that are free, releases its own, and
\* writes the rows that it has locked, or the new draft.
StepOf(w) ==
    /\ \A v \in Worker \ {w} :
           job'[v] = job[v] /\ pc'[v] = pc[v] /\ seen'[v] = seen[v] /\ todo'[v] = todo[v]
    /\ \A l \in Lock : owner[l] \notin {None, w} => owner'[l] = owner[l]
    /\ \A x \in Row : row'[x] # row[x] => Written(w, x)

LEMMA EndIsOfOne ==
    ASSUME TypeOK, NEW w \in Worker, EndTransaction(w), UNCHANGED row
    PROVE  StepOf(w)
BY DEF StepOf, EndTransaction, TypeOK

LEMMA StepsAreOfOne ==
    ASSUME IInv, NEW w \in Worker,
           Proceed(w) \/ AbortDeadlock(w) \/ \E r \in Request : Receive(w, r)
    PROVE  StepOf(w)
<1>0. TypeOK
  BY DEF IInv, Relies
<1>1. ASSUME NEW r \in Request, Receive(w, r) PROVE StepOf(w)
  BY <1>0, <1>1 DEF Receive, StepOf, TypeOK
<1>2. ASSUME Rollback(w) PROVE StepOf(w)
  BY <1>0, <1>2, EndIsOfOne DEF Rollback
<1>3. ASSUME LockTarget(w) PROVE StepOf(w)
  BY <1>0, <1>2, <1>3 DEF LockTarget, TargetIsFree, StepOf, TypeOK
<1>4. ASSUME Check(w) PROVE StepOf(w)
  BY <1>0, <1>2, <1>4 DEF Check, StepOf, TypeOK
<1>5. ASSUME NEW l \in Lock, WriteOtherRow(w, l) PROVE StepOf(w)
  BY <1>0, <1>2, <1>5 DEF WriteOtherRow, StepOf, TypeOK
<1>6. ASSUME NEW x \in Row, ReadToDeprecate(w, x) PROVE StepOf(w)
  BY <1>0, <1>2, <1>6 DEF ReadToDeprecate, StepOf, TypeOK
<1>7. ASSUME NEW x \in Row, SaveDeprecated(w, x) PROVE StepOf(w)
  BY <1>0, <1>2, <1>7 DEF SaveDeprecated, StepOf, TypeOK
<1>8. ASSUME Commit(w) PROVE StepOf(w)
  <2>1. EndTransaction(w) /\ \A x \in Row : row'[x] # row[x] => Written(w, x)
    BY <1>8, CommitWrites DEF Commit
  <2> QED BY <1>0, <2>1 DEF StepOf, EndTransaction, TypeOK
<1> QED BY <1>1, <1>2, <1>3, <1>4, <1>5, <1>6, <1>7, <1>8 DEF Proceed, AbortDeadlock

\* What a request relies on is not touched by the steps of others.
LEMMA OthersStillRely ==
    ASSUME IInv, NEW w \in Worker, StepOf(w), NEW v \in Worker, v # w
    PROVE  Relies(v)'
<1>1. /\ JobFits(v) /\ TargetIsKept(v) /\ NoDraftIsMissed(v) /\ ChecksAreKept(v)
      /\ OthersAreHeld(v) /\ TypeOK
  BY DEF IInv, Relies
<1>2. job'[v] = job[v] /\ pc'[v] = pc[v] /\ seen'[v] = seen[v] /\ todo'[v] = todo[v]
  BY DEF StepOf
<1>3. ASSUME NEW l \in Lock, owner[l] = v PROVE owner'[l] = v
  BY <1>3, NoneIsNoRecord DEF StepOf
<1>4. ASSUME NEW x \in Row, owner[x] = v, row[x] # None PROVE row'[x] = row[x]
  BY <1>4 DEF StepOf, Written
<1>5. JobFits(v)'
  BY <1>1, <1>2 DEF JobFits
<1>6. TargetIsKept(v)'
  <2> SUFFICES ASSUME HasTarget(v) PROVE TargetIsKept(v)'
    BY <1>2 DEF TargetIsKept, HasTarget
  <2> DEFINE x == job[v].target
  <2>1. x \in Row /\ x \in Lock
    BY TargetIsRow DEF Lock
  <2>2. owner[x] = v /\ row[x] # None /\ seen[v][x] = row[x]
        /\ (row[x].removed => job[v].kind \in {"restore", "update"})
    BY <1>1 DEF TargetIsKept
  <2>3. owner'[x] = v /\ row'[x] = row[x]
    BY <1>3, <1>4, <2>1, <2>2
  <2> QED BY <1>2, <2>2, <2>3 DEF TargetIsKept
<1>7. NoDraftIsMissed(v)'
  <2> SUFFICES ASSUME HasTarget(v), job[v].target = "original", seen[v]["draft"] = None
               PROVE  row'["draft"] = None
    BY <1>2 DEF NoDraftIsMissed, HasTarget
  <2>1. row["draft"] = None /\ owner["original"] = v
    BY <1>1 DEF NoDraftIsMissed, TargetIsKept
  <2> QED BY <2>1 DEF StepOf, Written, Row
<1>8. ChecksAreKept(v)'
  <2>1. CumulativeOfUpdate(v)' = CumulativeOfUpdate(v)
    BY <1>2 DEF CumulativeOfUpdate
  <2> QED BY <1>1, <1>2, <2>1 DEF ChecksAreKept
<1>9. OthersAreHeld(v)'
  <2>1. LocksOfDraft(v)' = LocksOfDraft(v) /\ LocksOfDraft(v) \subseteq Lock
    BY <1>2 DEF LocksOfDraft, Lock, Row
  <2> QED BY <1>1, <1>2, <1>3, <1>4, <2>1 DEF OthersAreHeld, Lock, Row
<1> QED BY <1>5, <1>6, <1>7, <1>8, <1>9 DEF Relies

-----------------------------------------------------------------------------
(* What a worker relies on itself. *)

LEMMA EndReliesOnNothing ==
    ASSUME TypeOK, NEW w \in Worker, EndTransaction(w)
    PROVE  Relies(w)'
<1>1. pc'[w] = "idle" /\ job'[w] = None /\ seen'[w] = Unread
  BY DEF EndTransaction, TypeOK
<1> QED BY <1>1 DEF Relies, JobFits, TargetIsKept, NoDraftIsMissed, ChecksAreKept,
                    OthersAreHeld, HasTarget

LEMMA OwnStep ==
    ASSUME IInv, NEW w \in Worker,
           Proceed(w) \/ AbortDeadlock(w) \/ \E r \in Request : Receive(w, r)
    PROVE  Relies(w)'
<1>0. /\ TypeOK /\ JobFits(w) /\ TargetIsKept(w) /\ NoDraftIsMissed(w) /\ ChecksAreKept(w)
      /\ OthersAreHeld(w)
  BY DEF IInv, Relies
<1>1. ASSUME NEW r \in Request, Receive(w, r) PROVE Relies(w)'
  <2>1. job'[w] = r /\ r # None /\ seen'[w] = Unread
    BY <1>0, <1>1, NoneIsNoRecord DEF Receive, TypeOK, JobFits
  <2>2. \/ pc'[w] = "write" /\ r.kind = "delete_file"
        \/ pc'[w] = "lock" /\ r.kind # "delete_file"
    BY <1>0, <1>1 DEF Receive, TypeOK
  <2> QED BY <2>1, <2>2 DEF Relies, JobFits, TargetIsKept, NoDraftIsMissed, ChecksAreKept,
                            OthersAreHeld, HasTarget, Unread
<1>2. ASSUME Rollback(w) PROVE Relies(w)'
  BY <1>0, <1>2, EndReliesOnNothing DEF Rollback
<1>3. ASSUME LockTarget(w) PROVE Relies(w)'
  <2> SUFFICES ASSUME Found(job[w]) PROVE Relies(w)'
    BY <1>2, <1>3 DEF LockTarget
  <2>1. job[w] # None /\ job[w].kind # "delete_file" /\ job[w].target \in Row
    BY <1>0, <1>3, JobIsRequest DEF LockTarget, JobFits
  <2>2. /\ owner'[job[w].target] = w /\ seen'[w] = row /\ pc'[w] = "check"
        /\ row' = row /\ job' = job
    BY <1>0, <1>3, <2>1 DEF LockTarget, TypeOK, Lock
  <2> QED BY <2>1, <2>2 DEF Relies, JobFits, TargetIsKept, NoDraftIsMissed, ChecksAreKept,
                            OthersAreHeld, HasTarget, Found
<1>4. ASSUME Check(w) PROVE Relies(w)'
  <2> SUFFICES ASSUME Allowed(w) PROVE Relies(w)'
    BY <1>2, <1>4 DEF Check
  <2>1. job[w] # None /\ job[w].kind # "delete_file"
    BY <1>0, <1>4 DEF Check, JobFits
  <2>2. /\ pc'[w] = "write" /\ todo'[w] = LocksToTake(w)
        /\ UNCHANGED << row, files, deleted, owner, job, seen >>
    BY <1>0, <1>4 DEF Check, TypeOK
  <2>3. JobFits(w)' /\ TargetIsKept(w)' /\ NoDraftIsMissed(w)'
    BY <1>0, <1>4, <2>1, <2>2 DEF Check, JobFits, TargetIsKept, NoDraftIsMissed, HasTarget
  <2>4. ChecksAreKept(w)'
    <3>1. CumulativeOfUpdate(w)' = CumulativeOfUpdate(w)
      BY <2>2 DEF CumulativeOfUpdate
    <3> QED BY <2>2, <3>1 DEF Allowed, ChecksAreKept, CreateDraftAllowed, UpdateAllowed
  <2>5. OthersAreHeld(w)'
    <3>1. LocksOfDraft(w)' = LocksOfDraft(w)
      BY <2>2 DEF LocksOfDraft
    <3> QED BY <2>1, <2>2, <3>1 DEF OthersAreHeld, LocksToTake
  <2> QED BY <2>3, <2>4, <2>5 DEF Relies
<1>5. ASSUME NEW l \in Lock, WriteOtherRow(w, l) PROVE Relies(w)'
  <2> SUFFICES ASSUME job[w].kind # "delete_file", owner[l] = None,
                      owner' = [owner EXCEPT ![l] = w],
                      todo' = [todo EXCEPT ![w] = @ \ {l}],
                      UNCHANGED << row, files, deleted, job, pc, seen >>
               PROVE  Relies(w)'
    BY <1>2, <1>5 DEF WriteOtherRow
  <2>1. pc[w] = "write" /\ owner'[l] = w /\ todo'[w] = todo[w] \ {l}
    BY <1>0, <1>5 DEF WriteOtherRow, TypeOK
  <2>2. ASSUME NEW k \in Lock, owner[k] = w PROVE owner'[k] = w
    BY <1>0, <2>2 DEF TypeOK
  <2>3. JobFits(w)' /\ NoDraftIsMissed(w)'
    BY <1>0 DEF JobFits, NoDraftIsMissed, HasTarget
  <2>4. TargetIsKept(w)'
    <3>1. HasTarget(w) => job[w].target \in Lock
      BY TargetIsRow DEF Lock
    <3> QED BY <1>0, <2>2, <3>1 DEF TargetIsKept, HasTarget
  <2>5. ChecksAreKept(w)'
    BY <1>0 DEF ChecksAreKept, CumulativeOfUpdate
  <2>6. OthersAreHeld(w)'
    <3>1. LocksOfDraft(w)' = LocksOfDraft(w) /\ LocksOfDraft(w) \subseteq Lock
      BY DEF LocksOfDraft, Lock, Row
    <3> QED BY <1>0, <2>1, <2>2, <3>1 DEF OthersAreHeld, Lock, Row
  <2> QED BY <2>3, <2>4, <2>5, <2>6 DEF Relies
<1>6. ASSUME NEW x \in Row, ReadToDeprecate(w, x) PROVE Relies(w)'
  <2>1. job[w].kind = "delete_file" /\ x \in todo[w] /\ pc[w] = "write"
        /\ \A y \in todo[w] : seen[w][y] = None
    BY <1>6 DEF ReadToDeprecate, Wanted
  <2>2. CASE /\ todo' = [todo EXCEPT ![w] = @ \ {x}]
             /\ UNCHANGED << row, files, deleted, owner, job, pc, seen >>
    <3>1. todo'[w] = todo[w] \ {x}
      BY <1>0, <2>2 DEF TypeOK
    <3> QED BY <1>0, <2>1, <2>2, <3>1 DEF Relies, JobFits, TargetIsKept, NoDraftIsMissed,
                                          ChecksAreKept, OthersAreHeld, HasTarget
  <2>3. CASE /\ seen' = [seen EXCEPT ![w][x] = row[x]]
             /\ UNCHANGED << row, files, deleted, owner, job, pc, todo >>
    <3>1. \A y \in Row \ todo[w] : seen'[w][y] = seen[w][y]
      BY <1>0, <2>1, <2>3 DEF TypeOK
    <3> QED BY <1>0, <2>1, <2>3, <3>1 DEF Relies, JobFits, TargetIsKept, NoDraftIsMissed,
                                          ChecksAreKept, OthersAreHeld, HasTarget
  <2> QED BY <1>2, <1>6, <2>2, <2>3 DEF ReadToDeprecate
<1>7. ASSUME NEW x \in Row, SaveDeprecated(w, x) PROVE Relies(w)'
  <2> SUFFICES ASSUME row[x] # None, owner' = [owner EXCEPT ![x] = w],
                      todo' = [todo EXCEPT ![w] = @ \ {x}],
                      UNCHANGED << row, files, deleted, job, pc, seen >>
               PROVE  Relies(w)'
    BY <1>2, <1>7 DEF SaveDeprecated
  <2>1. /\ job[w].kind = "delete_file" /\ pc[w] = "write"
        /\ owner'[x] = w /\ todo'[w] = todo[w] \ {x}
        /\ \A y \in Row : owner[y] = w => owner'[y] = w
    BY <1>0, <1>7 DEF SaveDeprecated, TypeOK, Lock
  <2> QED BY <1>0, <2>1 DEF Relies, JobFits, TargetIsKept, NoDraftIsMissed, ChecksAreKept,
                            OthersAreHeld, HasTarget
<1>8. ASSUME Commit(w) PROVE Relies(w)'
  BY <1>0, <1>8, EndReliesOnNothing DEF Commit
<1> QED BY <1>1, <1>2, <1>3, <1>4, <1>5, <1>6, <1>7, <1>8 DEF Proceed, AbortDeadlock

LEMMA IInvInit == Init => IInv
<1> SUFFICES ASSUME Init PROVE IInv
  OBVIOUS
<1>1. TypeOK
  <2> PICK c \in {"NOT_CUMULATIVE", "ACTIVE"} :
          row = [Unread EXCEPT !["original"] =
                    [removed |-> FALSE, deprecated |-> FALSE, cumulative |-> c]]
    BY Zenon DEF Init
  <2> DEFINE n == [removed |-> FALSE, deprecated |-> FALSE, cumulative |-> c]
  <2>1. n \in DatasetRow
    BY DEF DatasetRow, CumulativeState
  <2>2. row = [Unread EXCEPT !["original"] = n]
    OBVIOUS
  <2> HIDE DEF n
  <2>3. row \in [Row -> DatasetRow \cup {None}] /\ row["original"] # None
    BY <2>1, <2>2, NoneIsNoRecord, Zenon DEF Unread, Row
  <2>4. files \in [Row -> SUBSET File]
    BY DEF Init
  <2> QED BY <2>3, <2>4 DEF Init, TypeOK, Unread
<1>2. ASSUME NEW w \in Worker PROVE Relies(w)
  BY DEF Init, Relies, JobFits, TargetIsKept, NoDraftIsMissed, ChecksAreKept, OthersAreHeld,
         HasTarget
<1> QED BY <1>1, <1>2 DEF IInv, Relies

LEMMA IInvStep == IInv /\ [Next]_vars => IInv'
<1> SUFFICES ASSUME IInv, [Next]_vars PROVE IInv'
  OBVIOUS
<1>1. TypeOK'
  BY TypeOKStep
<1>2. ASSUME NEW w \in Worker,
             Proceed(w) \/ AbortDeadlock(w) \/ \E r \in Request : Receive(w, r),
             NEW v \in Worker
      PROVE  Relies(v)'
  BY <1>2, OwnStep, OthersStillRely, StepsAreOfOne
<1>3. ASSUME UNCHANGED vars, NEW v \in Worker PROVE Relies(v)'
  <2>1. CumulativeOfUpdate(v)' = CumulativeOfUpdate(v) /\ LocksOfDraft(v)' = LocksOfDraft(v)
    BY <1>3 DEF vars, CumulativeOfUpdate, LocksOfDraft
  <2> QED BY <1>3, <2>1 DEF IInv, vars, Relies, JobFits, TargetIsKept, NoDraftIsMissed,
                            ChecksAreKept, OthersAreHeld, HasTarget
<1> QED BY <1>1, <1>2, <1>3 DEF IInv, Relies, Next

LEMMA Invariance == Spec => []IInv
BY IInvInit, IInvStep, PTL DEF Spec

-----------------------------------------------------------------------------
(* The properties. *)

\* Locks and rows have their types, whatever overlaps.
THEOREM TypeCorrect == Spec => []TypeOK
<1>1. IInv => TypeOK
  BY DEF IInv, Relies
<1> QED BY <1>1, Invariance, PTL

\* Whoever commits is one that commits.
LEMMA CommitIsOfItsKind ==
    ASSUME IInv, NEW w \in Worker, Commit(w)
    PROVE  Commits(job[w].kind)
BY JobIsRequest DEF Commit, EndTransaction, Commits, IInv, Relies, TypeOK

\* The rows change by commits only.
LEMMA OnlyCommitsWrite ==
    ASSUME [Next]_vars
    PROVE  row' = row \/ \E w \in Worker : Commit(w)
BY DEF Next, Proceed, Receive, LockTarget, Check, WriteOtherRow, ReadToDeprecate,
       SaveDeprecated, AbortDeadlock, Rollback, vars

\* The published dataset is reopened, or made cumulative, by no request that
\* validates what it has locked (_validate_cumulative_state).
THEOREM ClosedStaysClosedCorrect == Spec => ClosedStaysClosed
<1> DEFINE IsKept == row'["original"].cumulative \in CumulativeAfter(row["original"].cumulative)
<1>1. ASSUME IInv, [Next]_vars PROVE IsKept \/ SavesRowReadUnlocked
  <2>1. CASE row'["original"] = row["original"]
    BY <2>1 DEF CumulativeAfter
  <2>2. ASSUME NEW w \in Worker, Commit(w) PROVE IsKept \/ SavesRowReadUnlocked
    <3>0. TypeOK /\ pc[w] = "write" /\ job[w] \in Request /\ Commits(job[w].kind)
      BY <1>1, <2>2, JobIsRequest, CommitIsOfItsKind DEF Commit, IInv, Relies
    <3>1. CASE job[w].kind = "update" /\ CommitUpdate(w) /\ job[w].target = "original"
      <4>1. /\ seen[w]["original"] = row["original"] /\ row["original"] \in DatasetRow
            /\ CumulativeOfUpdate(w) \in CumulativeAfter(seen[w]["original"].cumulative)
        BY <1>1, <3>0, <3>1, TargetIsRow DEF HasTarget, IInv, Relies, ChecksAreKept
      <4>2. row'["original"] = [row["original"] EXCEPT !.cumulative = CumulativeOfUpdate(w)]
        BY <3>0, <3>1, <4>1 DEF CommitUpdate, TypeOK, Row
      <4> QED BY <4>1, <4>2 DEF DatasetRow
    <3>2. CASE job[w].kind = "update" /\ CommitUpdate(w) /\ job[w].target # "original"
      BY <2>1, <3>0, <3>2 DEF CommitUpdate, TypeOK, Row
    <3>3. CASE job[w].kind = "create_draft" /\ CommitCreateDraft(w)
      BY <2>1, <3>0, <3>3 DEF CommitCreateDraft, TypeOK, Row
    <3>4. CASE job[w].kind = "delete" /\ CommitDelete(w)
      <4>1. job[w].target = "original" =>
                seen[w]["original"] = row["original"] /\ row["original"] \in DatasetRow
        BY <1>1, <3>0, <3>4, TargetIsRow DEF HasTarget
      <4> QED BY <2>1, <3>4, <4>1 DEF CommitDelete, Row, DatasetRow, CumulativeAfter
    <3>5. CASE job[w].kind = "restore" /\ CommitRestore(w)
      <4>1. job[w].target = "original"
        BY <3>0, <3>5, RequestForms
      <4>2. seen[w]["original"] = row["original"] /\ row["original"] \in DatasetRow
        BY <1>1, <3>0, <3>5, <4>1, TargetIsRow DEF HasTarget
      <4> QED BY <3>0, <3>5, <4>2 DEF CommitRestore, TypeOK, Row, DatasetRow, CumulativeAfter
    <3>6. CASE job[w].kind \in {"publish", "delete_file"}
      BY <3>0, <3>6 DEF SavesRowReadUnlocked
    <3> QED BY <2>2, <3>1, <3>2, <3>3, <3>4, <3>5, <3>6 DEF Commit
  <2> QED BY <1>1, <2>1, <2>2, OnlyCommitsWrite
<1>2. IInv /\ [Next]_vars =>
      [\/ row'["original"].cumulative \in CumulativeAfter(row["original"].cumulative)
       \/ SavesRowReadUnlocked]_vars
  BY <1>1
<1> QED BY <1>2, Invariance, PTL DEF Spec, ClosedStaysClosed

\* DELETE takes the draft of a dataset along, and no draft is made of a dataset
\* that is removed: both hold the lock of the original.
THEOREM NoDraftIsLeftCorrect == Spec => NoDraftIsLeftBehind
<1>1. ASSUME IInv, [Next]_vars, DraftHasItsOriginal
      PROVE  DraftHasItsOriginal' \/ Commits("delete_file")
  <2>1. CASE row' = row
    BY <1>1, <2>1 DEF DraftHasItsOriginal
  <2>2. ASSUME NEW w \in Worker, Commit(w)
        PROVE  DraftHasItsOriginal' \/ Commits("delete_file")
    <3>0. TypeOK /\ pc[w] = "write" /\ job[w] \in Request /\ Commits(job[w].kind)
      BY <1>1, <2>2, JobIsRequest, CommitIsOfItsKind DEF Commit, IInv, Relies
    <3>1. CASE job[w].kind = "update" /\ CommitUpdate(w)
      <4>1. /\ job[w].target \in Row /\ seen[w][job[w].target] = row[job[w].target]
            /\ row[job[w].target] \in DatasetRow
        BY <1>1, <3>0, <3>1, TargetIsRow DEF HasTarget
      <4>2. /\ row'["draft"] # None => row["draft"] # None
            /\ row'["original"].removed = row["original"].removed
        BY <3>0, <3>1, <4>1, NoneIsNoRecord DEF CommitUpdate, TypeOK, Row, DatasetRow
      <4> QED BY <1>1, <4>2 DEF DraftHasItsOriginal
    <3>2. CASE job[w].kind = "create_draft" /\ CommitCreateDraft(w)
      <4>1. job[w].target = "original"
        BY <3>0, <3>2, RequestForms
      <4>2. ~row["original"].removed
        BY <1>1, <3>0, <3>2, <4>1, TargetIsRow DEF HasTarget
      <4> QED BY <3>0, <3>2, <4>2 DEF CommitCreateDraft, DraftHasItsOriginal, TypeOK, Row
    <3>3. CASE job[w].kind = "publish" /\ CommitMerge(w)
      BY <3>0, <3>3 DEF CommitMerge, DraftHasItsOriginal, TypeOK, Row
    <3>4. CASE job[w].kind = "delete" /\ CommitDelete(w)
      BY <3>4 DEF CommitDelete, DraftHasItsOriginal, Row
    <3>5. CASE job[w].kind = "restore" /\ CommitRestore(w)
      <4>1. job[w].target = "original"
        BY <3>0, <3>5, RequestForms
      <4>2. seen[w]["original"] \in DatasetRow
        BY <1>1, <3>0, <3>5, <4>1, TargetIsRow DEF HasTarget
      <4> QED BY <3>0, <3>5, <4>2 DEF CommitRestore, DraftHasItsOriginal, TypeOK, Row, DatasetRow
    <3>6. CASE job[w].kind = "delete_file"
      BY <3>0, <3>6
    <3> QED BY <2>2, <3>1, <3>2, <3>3, <3>4, <3>5, <3>6 DEF Commit
  <2> QED BY <1>1, <2>1, <2>2, OnlyCommitsWrite
<1>2. IInv /\ [Next]_vars =>
      [DraftHasItsOriginal => DraftHasItsOriginal' \/ Commits("delete_file")]_vars
  BY <1>1
<1> QED BY <1>2, Invariance, PTL DEF Spec, NoDraftIsLeftBehind

\* A removed dataset stays removed, whatever overlaps its removal, until it is
\* restored: updates and drafts save what they have read under the lock.
THEOREM RemovedStaysCorrect == Spec => RemovedStaysRemoved
<1> DEFINE Excepted == Commits("restore") \/ Commits("delete_file") \/ ~DraftHasItsOriginal
<1>1. ASSUME IInv, [Next]_vars, row["original"].removed, ~row'["original"].removed
      PROVE  Excepted
  <2>1. ASSUME NEW w \in Worker, Commit(w) PROVE Excepted
    <3>0. TypeOK /\ pc[w] = "write" /\ job[w] \in Request /\ Commits(job[w].kind)
      BY <1>1, <2>1, JobIsRequest, CommitIsOfItsKind DEF Commit, IInv, Relies
    <3>1. CASE job[w].kind = "update" /\ CommitUpdate(w)
      <4>1. /\ job[w].target \in Row /\ seen[w][job[w].target] = row[job[w].target]
            /\ row[job[w].target] \in DatasetRow
        BY <1>1, <3>0, <3>1, TargetIsRow DEF HasTarget
      <4>2. row'["original"].removed = row["original"].removed
        BY <3>0, <3>1, <4>1 DEF CommitUpdate, TypeOK, Row, DatasetRow
      <4> QED BY <1>1, <4>2
    <3>2. CASE job[w].kind = "create_draft" /\ CommitCreateDraft(w)
      BY <1>1, <3>0, <3>2 DEF CommitCreateDraft, TypeOK, Row
    <3>3. CASE job[w].kind = "publish" /\ CommitMerge(w)
      <4>1. job[w].target = "draft"
        BY <3>0, <3>3, RequestForms
      <4>2. row["draft"] # None
        BY <1>1, <3>0, <3>3, <4>1, TargetIsRow, NoneIsNoRecord DEF HasTarget
      <4> QED BY <1>1, <4>2 DEF DraftHasItsOriginal
    <3>4. CASE job[w].kind = "delete" /\ CommitDelete(w)
      <4>1. job[w].target = "original" => seen[w]["original"] \in DatasetRow
        BY <1>1, <3>0, <3>4, TargetIsRow DEF HasTarget
      <4> QED BY <1>1, <3>4, <4>1 DEF CommitDelete, Row, DatasetRow
    <3>5. CASE job[w].kind \in {"restore", "delete_file"}
      BY <3>0, <3>5
    <3> QED BY <2>1, <3>1, <3>2, <3>3, <3>4, <3>5 DEF Commit
  <2> QED BY <1>1, <2>1, OnlyCommitsWrite
<1>2. IInv /\ [Next]_vars =>
      [row["original"].removed /\ ~row'["original"].removed =>
           Commits("restore") \/ Commits("delete_file") \/ ~DraftHasItsOriginal]_vars
  BY <1>1
<1> QED BY <1>2, Invariance, PTL DEF Spec, RemovedStaysRemoved

(***************************************************************************)
(*                           FILES OF DATASETS                             *)
(***************************************************************************)

\* A request has its dataset, its lists of actions and what they should result in.
RequestIsOfDataset ==
    req # None =>
        /\ req.dataset \in Dataset
        /\ req = [dataset |-> req.dataset, dirs |-> req.dirs, files |-> req.files,
                  want |-> req.want]

\* Metadata is kept per dataset and item.
ContentsInv ==
    /\ RequestIsOfDataset
    /\ contents = [d \in Dataset |-> contents[d]]
    /\ about = [d \in Dataset |-> [x \in Item |-> about[d][x]]]
    /\ MetadataIsOfItems

\* A request remains about the dataset that it came for, whatever actions it has.
LEMMA RequestStep ==
    ASSUME RequestIsOfDataset, [ContentsNext]_contentsVars
    PROVE  RequestIsOfDataset'
<1>1. CASE \E d \in Dataset : NewRequest(d)
  BY <1>1 DEF NewRequest, RequestIsOfDataset
<1>2. ASSUME NEW a, NEW key \in {"dirs", "files"}, NEW max, HasAction(a, key, max)
      PROVE  RequestIsOfDataset'
  <2>1. req # None /\ \E s, w : req' = [req EXCEPT ![key] = s, !.want = w]
    BY <1>2, Zenon DEF HasAction
  <2>2. PICK s, w : req' = [req EXCEPT ![key] = s, !.want = w]
    BY <2>1, Zenon
  <2>3. PICK d, b, c, e : d \in Dataset
                        /\ req = [dataset |-> d, dirs |-> b, files |-> c, want |-> e]
    BY <2>1, Zenon DEF RequestIsOfDataset
  <2>4. CASE key = "dirs"
    BY <2>2, <2>3, <2>4, Zenon DEF RequestIsOfDataset
  <2>5. CASE key = "files"
    BY <2>2, <2>3, <2>5, Zenon DEF RequestIsOfDataset
  <2> QED BY <2>4, <2>5
<1>3. CASE HasDirAction \/ HasFileAction
  BY <1>2, <1>3 DEF HasDirAction, HasFileAction
<1>4. CASE Update \/ Refuse
  BY <1>4 DEF Update, Refuse, RequestIsOfDataset
<1>5. CASE (\E d \in Dataset : Publish(d)) \/ (\E f \in File : DeleteFile(f))
  BY <1>5 DEF Publish, DeleteFile, RequestIsOfDataset
<1>6. CASE UNCHANGED contentsVars
  BY <1>6 DEF contentsVars, RequestIsOfDataset
<1> QED BY <1>1, <1>3, <1>4, <1>5, <1>6 DEF ContentsNext

\* The clean-up after an update (remove_unused_file_metadata) leaves nothing about what
\* the dataset has not, and adds nothing for the others.
LEMMA CleanUpFacts ==
    ASSUME ContentsInv, NEW d \in Dataset, NEW now, NEW ab,
           ab = [e \in Dataset |-> [x \in Item |-> ab[e][x]]],
           \A e \in Dataset : e # d => ab[e] = about[e],
           contents' = [contents EXCEPT ![d] = now],
           about' = RemoveUnused(ab, d, now)
    PROVE  /\ contents' = [e \in Dataset |-> contents'[e]]
           /\ about' = [e \in Dataset |-> [x \in Item |-> about'[e][x]]]
           /\ MetadataIsOfItems'
<1>1. PICK lost : lost = {p \in Dir \ DirectoryPaths(now) : \E q \in Dir : ab[d][q] # None}
  BY Zenon
<1>2. about' = [e \in Dataset |-> [x \in Item |->
                  IF x \in lost \/ (e = d /\ x \in File \ now) THEN None ELSE ab[e][x]]]
  BY <1>1 DEF RemoveUnused
<1>3. \A e \in Dataset : contents'[e] = IF e = d THEN now ELSE contents[e]
  BY DEF ContentsInv
<1>4. ASSUME NEW e \in Dataset, NEW x \in Item, x \notin OfDataset(contents'[e])
      PROVE  about'[e][x] = None
  <2>1. about'[e][x] = IF x \in lost \/ (e = d /\ x \in File \ now) THEN None ELSE ab[e][x]
    BY <1>2
  <2>2. CASE e # d
    <3>1. x \notin OfDataset(contents[e])
      BY <1>3, <1>4, <2>2
    <3>2. about[e][x] = None
      BY <3>1, <1>4 DEF ContentsInv, MetadataIsOfItems
    <3> QED BY <2>1, <2>2, <3>2, Zenon
  <2>3. CASE e = d
    <3>1. x \notin now /\ x \notin DirectoryPaths(now)
      BY <1>3, <1>4, <2>3 DEF OfDataset
    <3>2. CASE x \in File
      BY <2>1, <2>3, <3>1, <3>2
    <3>3. CASE x \in Dir
      BY <1>1, <2>1, <2>3, <3>1, <3>3
    <3> QED BY <3>2, <3>3 DEF Item
  <2> QED BY <2>2, <2>3
<1>5. contents' = [e \in Dataset |-> contents'[e]]
  BY Zenon DEF ContentsInv
<1>6. about' = [e \in Dataset |-> [x \in Item |-> about'[e][x]]]
  BY <1>2
<1>7. MetadataIsOfItems'
  BY <1>4 DEF MetadataIsOfItems
<1> QED BY <1>5, <1>6, <1>7

\* As long as files are not flushed, the metadata that a dataset has is about its own
\* files and their directories, whatever actions requests contain (FileSetSerializer.update)
\* and whichever files are deleted meanwhile.
THEOREM ContentsAreDescribed ==
    ASSUME "flush" \notin DeletionKinds
    PROVE  ContentsSpec => []MetadataIsOfItems
<1>1. ContentsInit => ContentsInv
  BY DEF ContentsInit, ContentsInv, RequestIsOfDataset, MetadataIsOfItems
<1>2. ContentsInv /\ [ContentsNext]_contentsVars => ContentsInv'
  <2> SUFFICES ASSUME ContentsInv, [ContentsNext]_contentsVars PROVE ContentsInv'
    OBVIOUS
  <2>1. RequestIsOfDataset /\ RequestIsOfDataset'
    BY RequestStep DEF ContentsInv
  <2>2. CASE UNCHANGED << contents, about >>
    BY <2>1, <2>2 DEF ContentsInv, MetadataIsOfItems, OfDataset,
                      DirectoryPaths
  <2>3. CASE Update
    <3>1. PICK d \in Dataset : d = req.dataset
      BY <2>1, <2>3 DEF Update, RequestIsOfDataset
    <3>2. PICK now : now = Kept(d) \cup Added(d)
      BY Zenon
    <3>3. PICK ab : ab = SetMetadata(d)
      OBVIOUS
    <3>4. /\ contents' = [contents EXCEPT ![d] = now]
          /\ about' = RemoveUnused(ab, d, now)
      BY <2>3, <3>1, <3>2, <3>3 DEF Update
    <3> DEFINE says == SelectSeq(req.dirs \o req.files,
                                 LAMBDA a : a.action # "remove" /\ a.metadata # "as it is")
               last == [x \in Item |-> LastAction(says, x)]
    <3>5. ab = [about EXCEPT ![d] = [x \in Item |->
                  IF last[x] = None THEN @[x] ELSE last[x].metadata]]
      BY <3>3, Zenon DEF SetMetadata
    <3> HIDE DEF last
    <3>6. /\ ab = [e \in Dataset |-> [x \in Item |-> ab[e][x]]]
          /\ \A e \in Dataset : e # d => ab[e] = about[e]
      BY <3>5, Zenon DEF ContentsInv
    <3>7. /\ contents' = [e \in Dataset |-> contents'[e]]
          /\ about' = [e \in Dataset |-> [x \in Item |-> about'[e][x]]]
          /\ MetadataIsOfItems'
      BY <3>4, <3>6, CleanUpFacts, Zenon
    <3> QED BY <2>1, <3>7 DEF ContentsInv
  <2>4. CASE \E f \in File : DeleteFile(f)
    <3>1. PICK f \in File : DeleteFile(f)
      BY <2>4
    <3>2. contents' = [d \in Dataset |-> contents[d]] /\ about' = [d \in Dataset |-> about[d]]
      <4>1. PICK kind \in DeletionKinds :
                   /\ contents' = [d \in Dataset |-> contents[d] \ {x \in {f} : kind = "flush"}]
                   /\ about' = [d \in Dataset |->
                         IF kind = "flush" THEN [about[d] EXCEPT ![f] = None] ELSE about[d]]
        BY <3>1 DEF DeleteFile
      <4>2. kind # "flush"
        OBVIOUS
      <4>3. \A d \in Dataset : contents[d] \ {x \in {f} : kind = "flush"} = contents[d]
        BY <4>2
      <4> QED BY <4>1, <4>2, <4>3
    <3>3. UNCHANGED << contents, about >>
      BY <3>2 DEF ContentsInv
    <3> QED BY <2>2, <3>3
  <2>5. CASE ContentsNext /\ ~Update /\ ~\E f \in File : DeleteFile(f)
    <3>1. UNCHANGED << contents, about >>
      BY <2>5, Zenon DEF ContentsNext, NewRequest, Publish, HasDirAction,
                  HasFileAction, HasAction, Refuse
    <3> QED BY <2>2, <3>1
  <2>6. CASE UNCHANGED contentsVars
    <3>1. UNCHANGED << contents, about >>
      BY <2>6 DEF contentsVars
    <3> QED BY <2>2, <3>1
  <2> QED BY <2>3, <2>4, <2>5, <2>6
<1>3. ContentsInv => MetadataIsOfItems
  BY DEF ContentsInv
<1> QED BY <1>1, <1>2, <1>3, PTL DEF ContentsSpec
=============================================================================
