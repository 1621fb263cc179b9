----------------------------- MODULE FileRecords -----------------------------
(* Records of the files of one storage service, made and changed by the        *)
(* storage service ("ida") and by digital preservation ("pas"): bulk requests  *)
(* (FileBulkSerializer), requests about one file, and deletion of all files of *)
(* a project. Requests overlap; each is a transaction that sees what others    *)
(* have committed, locks rows for update, waits for locked rows until a        *)
(* timeout, and tells Metax V2 what it did before it commits.                  *)
(* Bulk items name their file by its identifier; paths, checksums and          *)
(* characteristics are one "content".                                          *)
EXTENDS Naturals, FiniteSets, Files

CONSTANTS
    Identifier,     \* storage_identifier
    Project,        \* csc_project: the file storages of the service
    Worker,
    Kinds,          \* kinds of request that may come
    MaxOld,         \* bound: records at the start
    MaxRequests     \* bound: requests

ASSUME FileAssumption == MaxOld \in Nat /\ MaxRequests \in Nat /\ None \notin File

VARIABLES
    row,            \* committed records, None if there is none
    v2,             \* what Metax V2 knows of the records
    job,            \* the request that each worker serves, None if it is idle
    requests,       \* how many requests there have been
    overlapped,     \* identifiers that were committed while another request
                    \* about them had been checked
    adrift,         \* records about which Metax V2 is wrong or not told
    spared          \* records that Metax V2 was told of by a deletion that did
                    \* not meet them

vars == << row, v2, job, requests, overlapped, adrift, spared >>

Bulk == {"insert", "update", "upsert", "delete"}
Single == {"patch", "remove"}
List == {"delete list", "flush list"}
User == {"ida", "pas"}

Row == [project : Project, identifier : Identifier, removed : BOOLEAN,
        content : 0..MaxRequests, pas : BOOLEAN]

Rows == [File -> Row \cup {None}]
NoRows == [f \in File |-> None]

\* The preservation service starts or ends its processing of a file, the
\* storage service changes the content.
Change == [user : {"ida"}, content : 1..MaxRequests] \cup [user : {"pas"}, pas : BOOLEAN]

Steps == {"lock", "list", "apply", "sync", "commit"}

\* Functions on some of the elements.
Partial(S, T) == UNION {[D -> T] : D \in SUBSET S}

Job == [kind : Kinds, change : Change, ignore : BOOLEAN, project : Project \cup {None},
        found : Partial(Identifier, File \cup {None}), seen : Rows,
        todo : SUBSET File, locks : SUBSET File,
        writes : Partial(File, Row \cup {None}), unseen : SUBSET Identifier, step : Steps]

\* What Metax V2 knows of a file.
Known == [stored : BOOLEAN, content : 0..MaxRequests]

ASSUME NoneIsNoRecord == None \notin Row \cup Job \cup Known

TypeOK ==
    /\ row \in Rows
    /\ v2 \in [File -> Known \cup {None}]
    /\ job \in [Worker -> Job \cup {None}]
    /\ requests \in 0..MaxRequests
    /\ overlapped \subseteq Identifier
    /\ adrift \subseteq File
    /\ spared \subseteq File

Stored(f) == row[f] # None /\ ~row[f].removed

\* A record as Metax V2 is told of it.
Told(r) == [stored |-> ~r.removed, content |-> r.content]

InStep(f) == IF row[f] = None THEN None ELSE Told(row[f])

\* Any records that earlier requests may have left, known to Metax V2.
Init ==
    /\ row \in [File -> {r \in Row : r.content = 0} \cup {None}]
    /\ Cardinality({f \in File : row[f] # None}) <= MaxOld
    /\ \A f, g \in File :
           f # g /\ Stored(f) /\ Stored(g) => row[f].identifier # row[g].identifier
    /\ v2 = [f \in File |-> InStep(f)]
    /\ job = [w \in Worker |-> None]
    /\ requests = 0
    /\ overlapped = {}
    /\ adrift = {}
    /\ spared = {}

-----------------------------------------------------------------------------
(* Transactions. *)

Serving(w, step) == job[w] # None /\ job[w].step = step

LockedByOther(w, f) == \E v \in Worker \ {w} : job[v] # None /\ f \in job[v].locks

SameKey(r, s) == r.project = s.project /\ r.identifier = s.identifier

\* Unique constraints: a row is refused if another one has its key, and waits
\* for the end of transactions that have written the key.
KeysAreFree(w, writes) ==
    \A f \in {g \in DOMAIN writes : writes[g] # None /\ ~writes[g].removed} :
        /\ \A g \in File \ DOMAIN writes : Stored(g) => ~SameKey(row[g], writes[f])
        /\ \A v \in Worker \ {w} : job[v] # None =>
               \A g \in DOMAIN job[v].writes :
                   job[v].writes[g] # None => ~SameKey(job[v].writes[g], writes[f])

\* The rows that a request has written stay locked until it ends.
Write(w, writes) ==
    /\ \A f \in DOMAIN writes : ~LockedByOther(w, f)
    /\ KeysAreFree(w, writes)
    /\ job' = [job EXCEPT ![w].writes = writes, ![w].step = "sync",
                          ![w].locks = @ \cup DOMAIN writes,
                          ![w].unseen = IF job[w].kind \in Bulk THEN {} ELSE @]
    /\ UNCHANGED << row, v2, requests, overlapped, adrift, spared >>

NewJob(kind, change, ignore, project, found, seen, todo, step) ==
    [kind |-> kind, change |-> change, ignore |-> ignore, project |-> project,
     found |-> found, seen |-> seen, todo |-> todo, locks |-> {},
     writes |-> [f \in {} |-> None], unseen |-> {}, step |-> step]

Receive(w, new) ==
    /\ job[w] = None
    /\ new.kind \in Kinds
    /\ requests < MaxRequests
    /\ requests' = requests + 1
    /\ job' = [job EXCEPT ![w] = new]
    /\ UNCHANGED << row, v2, overlapped, adrift, spared >>

\* SELECT ... FOR UPDATE takes the locks in no order; records that have been
\* removed in the meantime are left out.
LockFile(w, f) ==
    /\ Serving(w, "lock")
    /\ f \in job[w].todo
    /\ ~LockedByOther(w, f)
    /\ job' = [job EXCEPT ![w].todo = @ \ {f},
                          ![w].locks = IF Stored(f) THEN @ \cup {f} ELSE @]
    /\ UNCHANGED << row, v2, requests, overlapped, adrift, spared >>

HasLocks(w) == Serving(w, "lock") /\ job[w].todo = {}

-----------------------------------------------------------------------------
(* Bulk requests. *)

\* Records that an item may mean; none if the file is new.
Matches(i) ==
    LET stored == {f \in File : Stored(f) /\ row[f].identifier = i}
    IN IF stored = {} THEN {None} ELSE stored

ReceiveBulk(w, kind, change, ignore, p, items) ==
    /\ \E found \in [items -> File \cup {None}] :
           /\ \A i \in items : found[i] \in Matches(i)
           /\ LET old == {found[i] : i \in items} \ {None}
              IN Receive(w, NewJob(kind, change, ignore, p, found,
                                   [f \in File |-> IF f \in old THEN row[f] ELSE None],
                                   old, "lock"))

\* Faulty variant of LockReason: as the record was when it was looked up.
LockReasonBefore(w, f) ==
    job[w].change.user = "ida" /\ job[w].seen[f] # None /\ job[w].seen[f].pas

\* Only the preservation service may change a file that it is processing.
LockReason(w, f) ==
    job[w].change.user = "ida" /\ row[f] # None /\ row[f].pas

\* Faulty variant of IdentifierIsTaken: within the project only.
IdentifierIsTakenInProject(i, p) ==
    \E f \in File : Stored(f) /\ row[f].identifier = i /\ row[f].project = p

IdentifierIsTaken(i, p) == \E f \in File : Stored(f) /\ row[f].identifier = i

IsRefused(w, i) ==
    LET j == job[w]
        f == j.found[i]
    IN IF f = None
       THEN j.kind \notin {"insert", "upsert"} \/ IdentifierIsTaken(i, j.project)
       ELSE \/ j.kind = "insert"
            \/ LockReason(w, f)
            \/ j.kind = "upsert" /\ j.project # j.seen[f].project

Changed(old, change) ==
    IF change.user = "ida" THEN [old EXCEPT !.content = change.content]
    ELSE [old EXCEPT !.pas = change.pas]

New(p, i, change) ==
    Changed([project |-> p, identifier |-> i, removed |-> FALSE, content |-> 0, pas |-> FALSE],
            change)

\* Faulty variant of Current: the record as it was looked up.
LookedUp(w, f) == job[w].seen[f]

\* Records are read again when they have been locked.
Current(w, f) == row[f]

Unused(f) == row[f] = None /\ v2[f] = None
             /\ \A v \in Worker : job[v] # None => f \notin DOMAIN job[v].writes

\* Nothing is done if an item is refused, unless errors are ignored.
ApplyBulk(w) ==
    /\ HasLocks(w)
    /\ job[w].kind \in Bulk
    /\ LET j == job[w]
           items == {i \in DOMAIN j.found : ~IsRefused(w, i)}
           new == {i \in items : j.found[i] = None}
           old == {j.found[i] : i \in items \ new}
       IN /\ items # {}
          /\ items = DOMAIN j.found \/ j.ignore
          /\ \A f \in old : Current(w, f) # None /\ ~Current(w, f).removed
          /\ \E id \in [new -> {f \in File : Unused(f)}] :
                 /\ \A i, k \in new : id[i] = id[k] => i = k
                 /\ Write(w, [f \in old \cup {id[i] : i \in new} |->
                        IF f \in old
                        THEN IF j.kind = "delete" THEN [Current(w, f) EXCEPT !.removed = TRUE]
                             ELSE Changed(Current(w, f), j.change)
                        ELSE New(j.project, CHOOSE i \in new : id[i] = f, j.change)])

-----------------------------------------------------------------------------
(* Requests about one file: the record is read and checked, then locked, and   *)
(* all columns are written as they were read.                                  *)

ReceiveSingle(w, kind, change, f) ==
    /\ Stored(f)
    /\ ~(change.user = "ida" /\ row[f].pas)
    /\ Receive(w, NewJob(kind, change, FALSE, None, [i \in {row[f].identifier} |-> f],
                         [NoRows EXCEPT ![f] = row[f]], {f}, "lock"))

ApplySingle(w) ==
    /\ HasLocks(w)
    /\ job[w].kind \in Single
    /\ LET j == job[w]
       IN Write(w, [f \in {j.found[i] : i \in DOMAIN j.found} |->
                        IF j.kind = "remove" THEN [j.seen[f] EXCEPT !.removed = TRUE]
                        ELSE Changed(j.seen[f], j.change)])

-----------------------------------------------------------------------------
(* Deletion of the files of a project: three queries, each about the files     *)
(* that match when it is made. Flushing includes the removed ones.             *)

Matching(kind, p) ==
    {f \in File : /\ row[f] # None /\ row[f].project = p
                  /\ kind = "flush list" \/ ~row[f].removed}

ReceiveList(w, kind, change, p) ==
    /\ Matching(kind, p) # {}
    /\ \A f \in Matching(kind, p) : ~(change.user = "ida" /\ row[f].pas)
    /\ Receive(w, NewJob(kind, change, FALSE, p, [i \in {} |-> None], NoRows, {}, "list"))

ListFiles(w) ==
    /\ Serving(w, "list")
    /\ job' = [job EXCEPT
           ![w].seen = [f \in File |-> IF f \in Matching(job[w].kind, job[w].project)
                                       THEN row[f] ELSE None],
           ![w].step = "apply"]
    /\ UNCHANGED << row, v2, requests, overlapped, adrift, spared >>

ApplyList(w) ==
    /\ Serving(w, "apply")
    /\ Write(w, [f \in Matching(job[w].kind, job[w].project) |->
                     IF job[w].kind = "flush list" THEN None
                     ELSE [row[f] EXCEPT !.removed = TRUE]])

-----------------------------------------------------------------------------
(* The end of a request. *)

\* What Metax V2 is sent: flushed records as removed ones.
Sent(j) ==
    IF j.kind \in List
    THEN [f \in {g \in File : j.seen[g] # None} |-> [j.seen[f] EXCEPT !.removed = TRUE]]
    ELSE j.writes

\* Faulty variant of SyncToV2: after the locks have been released.
SyncUnlocked(w) ==
    /\ Serving(w, "sync")
    /\ v2' = [f \in File |->
                 IF f \in DOMAIN Sent(job[w]) THEN Told(Sent(job[w])[f]) ELSE v2[f]]
    /\ spared' = spared \cup (DOMAIN Sent(job[w]) \ DOMAIN job[w].writes)
    /\ job' = [job EXCEPT ![w].step = "commit", ![w].locks = {}]
    /\ UNCHANGED << row, requests, overlapped, adrift >>

\* The request fails if Metax V2 refuses.
SyncToV2(w) ==
    /\ Serving(w, "sync")
    /\ v2' = [f \in File |->
                 IF f \in DOMAIN Sent(job[w]) THEN Told(Sent(job[w])[f]) ELSE v2[f]]
    /\ spared' = spared \cup (DOMAIN Sent(job[w]) \ DOMAIN job[w].writes)
    /\ job' = [job EXCEPT ![w].step = "commit"]
    /\ UNCHANGED << row, requests, overlapped, adrift >>

Identifiers(rows) == {rows[f].identifier : f \in {g \in DOMAIN rows : rows[g] # None}}

Commit(w) ==
    /\ Serving(w, "commit")
    /\ LET j == job[w]
           written == Identifiers(j.writes)
       IN /\ row' = [f \in File |-> IF f \in DOMAIN j.writes THEN j.writes[f] ELSE row[f]]
          /\ job' = [v \in Worker |->
                        IF v = w THEN None
                        ELSE IF job[v] = None THEN None
                        ELSE [job[v] EXCEPT !.unseen = @ \cup written]]
          /\ overlapped' = overlapped \cup (written \cap j.unseen)
          /\ adrift' = (adrift \cup DOMAIN j.writes) \ DOMAIN Sent(j)
    /\ UNCHANGED << v2, requests, spared >>

\* An item is refused, a lock is not released in time, a deadlock is found, a
\* call fails, or the process dies.
Fail(w) ==
    /\ job[w] # None
    /\ job' = [job EXCEPT ![w] = None]
    /\ adrift' = IF job[w].step = "commit" THEN adrift \cup DOMAIN Sent(job[w]) ELSE adrift
    /\ UNCHANGED << row, v2, requests, overlapped, spared >>

Changes(kind) ==
    [user : {"ida"}, content : {requests + 1}]
        \cup [user : {"pas"}, pas : IF kind \in {"update", "upsert", "patch"} THEN BOOLEAN ELSE {FALSE}]

\* The project is given for new files.
Begin(w) ==
    \E kind \in Kinds : \E change \in Changes(kind) :
        \/ /\ kind \in Bulk
           /\ \E ignore \in BOOLEAN, items \in SUBSET Identifier,
                 p \in IF kind \in {"insert", "upsert"} THEN Project ELSE {None} :
                  /\ items # {}
                  /\ ignore => Cardinality(items) > 1
                  /\ ReceiveBulk(w, kind, change, ignore, p, items)
        \/ kind \in Single /\ \E f \in File : ReceiveSingle(w, kind, change, f)
        \/ kind \in List /\ \E p \in Project : ReceiveList(w, kind, change, p)

Next ==
    \E w \in Worker :
        \/ Begin(w)
        \/ \E f \in File : LockFile(w, f)
        \/ ApplyBulk(w) \/ ApplySingle(w) \/ ListFiles(w) \/ ApplyList(w)
        \/ SyncToV2(w) \/ Commit(w) \/ Fail(w)

Spec == Init /\ [][Next]_vars

-----------------------------------------------------------------------------
(* What file records promise. *)

\* The storage service names its files by their identifiers: two records of
\* one service share one only if they were committed by requests that
\* overlapped, in two projects (FileStorage.check_file_data_conflicts; the
\* database only knows that identifiers are unique within a project).
IdentifiersAreUnique ==
    \A f, g \in File :
        f # g /\ Stored(f) /\ Stored(g) /\ row[f].identifier = row[g].identifier =>
            row[f].identifier \in overlapped /\ row[f].project # row[g].project

\* Files that are being processed are left alone by bulk requests of others,
\* also if the processing has begun after the request looked them up
\* (FileBulkSerializer.handle_file_locks).
PasFilesAreLeftAlone ==
    [][\A w \in Worker : job[w] # None /\ job[w].kind \in Bulk /\ Commit(w) =>
           \A f \in DOMAIN job[w].writes :
               row[f] # None /\ row[f].pas => job[w].change.user = "pas"]_vars

\* A bulk request neither undoes what others have committed while it waited
\* for its locks, nor brings a removed file back (FileBulkSerializer.create).
BulkKeepsOtherChanges ==
    [][\A w \in Worker : job[w] # None /\ job[w].kind \in Bulk /\ Commit(w) =>
           \A f \in DOMAIN job[w].writes :
               LET old == row[f] new == row'[f]
               IN old # None =>
                      /\ ~old.removed
                      /\ new \in {[old EXCEPT !.removed = TRUE], Changed(old, job[w].change)}]_vars

\* Unless a request failed when it had told Metax V2, or a deletion met other
\* files than it had listed, Metax V2 knows the files that no request is about
\* (handle_sync_files).
V2IsInStep ==
    \A f \in File :
        \/ f \in adrift \cup spared
        \/ \E w \in Worker : job[w] # None /\ (f \in DOMAIN job[w].writes \/ job[w].seen[f] # None)
        \/ v2[f] = InStep(f)
        \/ ~Stored(f) /\ v2[f] # None /\ ~v2[f].stored
=============================================================================
