------------------------ MODULE PersistentIdentifiers ------------------------
(* Persistent identifiers of datasets: those the user gives, those that the    *)
(* external service (PID MS) makes when a dataset is published, and those of   *)
(* linked drafts. A request is a transaction: it holds the lock of its         *)
(* dataset, sees what others have committed when it reads, calls the service   *)
(* on the way, and commits or fails, which the service does not learn.         *)
(* Requests that neither read other datasets nor call the service are one      *)
(* step. Every dataset has a catalog; spellings of one DOI are not told apart. *)
EXTENDS Naturals

CONSTANTS
    Dataset, Request,
    Name,           \* identifiers made elsewhere
    Catalog,
    External,       \* catalogs with is_external
    TakesPids,      \* catalogs with allow_external_pid
    Managed,        \* the identifier types that each catalog generates
    Migrated,       \* a dataset that came from Metax V2 with a DOI, or None
    MaxRequests,    \* bound: requests that write
    MaxMinted,      \* bound: identifiers that the service makes
    None

ASSUME PidAssumption ==
    /\ MaxRequests \in Nat /\ MaxMinted \in Nat
    /\ External \subseteq Catalog /\ TakesPids \subseteq Catalog
    /\ Managed \in [Catalog -> SUBSET {"URN", "DOI"}]
    /\ Migrated \in Dataset => \E c \in Catalog : "DOI" \in Managed[c]
    /\ None \notin Dataset \cup Name \cup Catalog
    /\ Name \cap 0..MaxMinted = {}

VARIABLES
    row,            \* committed datasets and their linked drafts, None if absent
    service,        \* what the service knows of the identifiers it manages
    job,            \* the request that each process serves, None if it is idle
    used,           \* requests so far, identifiers made so far
    overlapped,     \* datasets that did not see each other's identifiers
    undescribed     \* datasets of which the service may show old metadata

vars == << row, service, job, used, overlapped, undescribed >>

Original(d) == << d, "original" >>
Linked(d) == << d, "linked" >>
Key == Dataset \X {"original", "linked"}

Minted == 0..MaxMinted     \* 0 is the DOI of the migrated dataset
Pid == [id : Name \cup Minted, draft : BOOLEAN]
Plain(i) == [id |-> i, draft |-> FALSE]
Wants == {None, "URN", "DOI"}

Row == [catalog : Catalog, state : {"draft", "published"}, removed : BOOLEAN,
        pid : Pid \cup {None}, generated : BOOLEAN, wants : Wants,
        content : 0..MaxRequests]

Job == [kind : {"create", "update", "publish", "create_draft", "merge", "restore"},
        target : Key, new : Row, step : {"mint", "check", "put", "write"},
        locks : SUBSET Key, unseen : SUBSET Dataset]

\* What the service knows of an identifier.
Known == [dataset : Dataset, kind : {"URN", "DOI"}, content : (0..MaxRequests) \cup {None}]

ASSUME NoneIsNoRecord == None \notin Pid \cup Row \cup Job \cup Known

TypeOK ==
    /\ row \in [Key -> Row \cup {None}]
    /\ \A k \in Key : row[k] # None /\ row[k].pid # None /\ row[k].pid.draft =>
           k[2] = "linked"
    /\ service \in [Minted -> Known \cup {None}]
    /\ job \in [Request -> Job \cup {None}]
    /\ used \in [requests : 0..MaxRequests, minted : Minted]
    /\ overlapped \subseteq SUBSET Dataset
    /\ undescribed \subseteq Dataset

Given(c, i) ==
    [catalog |-> c, state |-> "published", removed |-> FALSE, pid |-> Plain(i),
     generated |-> FALSE, wants |-> None, content |-> 0]

MigratedRow(c) == [Given(c, 0) EXCEPT !.generated = TRUE, !.wants = "DOI"]

\* A migrated dataset, and maybe one with an identifier that was given.
Init ==
    /\ \E c1 \in {c \in Catalog : "DOI" \in Managed[c]}, c2 \in TakesPids, i \in Name,
          g \in SUBSET (Dataset \ {Migrated}) :
           /\ \A d, e \in g : d = e
           /\ row = [k \in Key |-> IF k = Original(Migrated) THEN MigratedRow(c1)
                                   ELSE IF k[2] = "original" /\ k[1] \in g THEN Given(c2, i)
                                   ELSE None]
    /\ service = [n \in Minted |-> None]
    /\ job = [r \in Request |-> None]
    /\ used = [requests |-> 0, minted |-> 0]
    /\ overlapped = {}
    /\ undescribed = {Migrated} \cap Dataset

-----------------------------------------------------------------------------
(* Rules. *)

Locked(k) == \E r \in Request : job[r] # None /\ k \in job[r].locks

\* Requests find datasets that are not removed.
Found(k) == row[k] # None /\ ~row[k].removed

\* Identifiers that a user may know, and none.
UserPid == {Plain(i) : i \in Name \cup 0..used.minted} \cup {None}

\* Faulty variant of MaySetPid: generated identifiers may be replaced.
MaySetAnyPid(old, pid) ==
    pid = old.pid \/ (old.catalog \in TakesPids /\ old.wants = None)

MaySetPid(old, pid) ==
    \/ pid = old.pid
    \/ old.catalog \in TakesPids /\ ~old.generated /\ old.wants = None

\* Faulty variant of Others: removed datasets are left out.
OthersInUse(j) ==
    {k \in Key \ {j.target} : Found(k) /\ (j.kind = "merge" => k # Linked(j.target[1]))}

\* The datasets with which the identifier is compared; a merge has taken that
\* of the draft away.
Others(j) ==
    {k \in Key \ {j.target} : row[k] # None /\ (j.kind = "merge" => k # Linked(j.target[1]))}

\* Unique within the catalog and among the catalogs that are not external.
IsUnique(j) ==
    j.new.pid # None =>
        \A k \in Others(j) :
            row[k].pid = j.new.pid => /\ row[k].catalog # j.new.catalog
                                      /\ row[k].catalog \in External

IsValid(new) ==
    /\ new.wants \in Managed[new.catalog] \cup {None}
    /\ new.state = "published" => new.pid # None

\* Faulty variant of MustDescribe: metadata is sent when a DOI is wished for anew.
DescribesNewWish(j) ==
    /\ j.kind = "update" /\ row[j.target].wants # "DOI"
    /\ j.new.state = "published" /\ j.new.generated /\ j.new.wants = "DOI"

MustDescribe(j) ==
    /\ j.kind = "update"
    /\ j.new.state = "published" /\ j.new.generated /\ j.new.wants = "DOI"

-----------------------------------------------------------------------------
(* Requests: what they are going to write, from the rows they read. *)

BeginRequest(r, kind, target, new, locks) ==
    /\ job[r] = None
    /\ used.requests < MaxRequests
    /\ \A k \in locks : ~Locked(k)
    /\ used' = [used EXCEPT !.requests = @ + 1]
    /\ job' = [job EXCEPT ![r] =
           [kind |-> kind, target |-> target, new |-> new, locks |-> locks, unseen |-> {},
            step |-> IF /\ kind \in {"create", "publish"}
                        /\ new.state = "published" /\ new.pid = None
                     THEN "mint" ELSE "check"]]
    /\ UNCHANGED << row, service, overlapped, undescribed >>

IsNew(d) ==
    /\ row[Original(d)] = None
    /\ \A r \in Request : job[r] # None => job[r].target # Original(d)

\* A dataset may be created as a draft or be published in the same request.
Create(r, d, c, pid, wants, state) ==
    /\ IsNew(d)
    /\ pid # None => c \in TakesPids
    /\ wants \in Managed[c] \cup {None}
    /\ state = "published" /\ pid = None => wants # None
    /\ BeginRequest(r, "create", Original(d),
                    [catalog |-> c, state |-> state, removed |-> FALSE, pid |-> pid,
                     generated |-> FALSE, wants |-> wants, content |-> used.requests + 1],
                    {})

\* The identifier may be changed according to the wish that was saved before.
Update(r, k, pid, wants) ==
    /\ Found(k)
    /\ MaySetPid(row[k], pid)
    /\ LET new == [row[k] EXCEPT !.pid = pid, !.wants = wants, !.content = used.requests + 1]
       IN BeginRequest(r, "update", k, new, {k}) /\ IsValid(new)

Publish(r, d) ==
    /\ Found(Original(d))
    /\ row[Original(d)].state = "draft"
    /\ LET new == [row[Original(d)] EXCEPT !.state = "published"]
       IN /\ new.pid = None => new.wants # None
          /\ BeginRequest(r, "publish", Original(d), new, {Original(d)})

\* Faulty variant of VersionOf: the mark of a generated identifier is copied.
CopyOf(old) == [old EXCEPT !.state = "draft", !.pid = None]

\* A new version gets an identifier of its own.
VersionOf(old) == [old EXCEPT !.state = "draft", !.pid = None, !.generated = FALSE]

NewVersion(r, d, e) ==
    /\ Found(Original(d))
    /\ row[Original(d)].state = "published"
    /\ IsNew(e)
    /\ BeginRequest(r, "create", Original(e), VersionOf(row[Original(d)]), {Original(d)})

CreateDraft(r, d) ==
    /\ Found(Original(d))
    /\ row[Original(d)].state = "published"
    /\ row[Linked(d)] = None
    /\ BeginRequest(r, "create_draft", Linked(d),
                    [row[Original(d)] EXCEPT !.state = "draft", !.pid.draft = TRUE],
                    {Original(d)})

\* The identifier of the draft, unless it is still the one it was created with.
MergedPid(original, draft) ==
    IF draft.pid # None /\ draft.pid.draft THEN original.pid ELSE draft.pid

\* The original is read without its lock.
Merge(r, d) ==
    /\ Found(Linked(d))
    /\ LET original == row[Original(d)]
           draft == row[Linked(d)]
           new == [original EXCEPT !.pid = MergedPid(original, draft),
                                   !.generated = draft.generated,
                                   !.wants = draft.wants,
                                   !.content = draft.content]
       IN BeginRequest(r, "merge", Original(d), new, {Linked(d)}) /\ IsValid(new)

Restore(r, d) ==
    /\ row[Original(d)] # None
    /\ row[Original(d)].removed
    /\ BeginRequest(r, "restore", Original(d), [row[Original(d)] EXCEPT !.removed = FALSE],
                    {Original(d)})

\* Drafts are not kept when they are removed.
Remove(d, flush) ==
    /\ used.requests < MaxRequests
    /\ used' = [used EXCEPT !.requests = @ + 1]
    /\ Found(Original(d))
    /\ ~Locked(Original(d)) /\ ~Locked(Linked(d))
    /\ row' = [row EXCEPT ![Original(d)] =
                              IF flush \/ row[Original(d)].state = "draft" THEN None
                              ELSE [@ EXCEPT !.removed = TRUE],
                          ![Linked(d)] = None]
    /\ UNCHANGED << service, job, overlapped, undescribed >>

-----------------------------------------------------------------------------
(* The steps of a request. *)

Goes(r, step) == job' = [job EXCEPT ![r].step = step]

\* The service makes an identifier that leads to the dataset.
Mint(r) ==
    /\ job[r] # None
    /\ job[r].step = "mint"
    /\ used.minted < MaxMinted
    /\ used' = [used EXCEPT !.minted = @ + 1]
    /\ LET j == job[r]
           n == used'.minted
       IN /\ service' = [service EXCEPT ![n] =
                 [dataset |-> j.target[1], kind |-> j.new.wants, content |-> j.new.content]]
          /\ job' = [job EXCEPT ![r].new.pid = Plain(n), ![r].new.generated = TRUE,
                                ![r].step = "check"]
    /\ UNCHANGED << row, overlapped, undescribed >>

Check(r) ==
    /\ job[r] # None
    /\ job[r].step = "check"
    /\ IsUnique(job[r])
    /\ Goes(r, IF MustDescribe(job[r]) THEN "put" ELSE "write")
    /\ UNCHANGED << row, service, used, overlapped, undescribed >>

\* The service does not know DOIs from Metax V2 before they are described.
InsertDoi(r) ==
    /\ job[r] # None
    /\ job[r].step = "put"
    /\ service[job[r].new.pid.id] = None
    /\ service' = [service EXCEPT ![job[r].new.pid.id] =
           [dataset |-> job[r].target[1], kind |-> "DOI", content |-> None]]
    /\ UNCHANGED << row, job, used, overlapped, undescribed >>

\* It refuses to describe identifiers that are not DOIs of the dataset.
PutDoi(r) ==
    /\ job[r] # None
    /\ job[r].step = "put"
    /\ LET known == service[job[r].new.pid.id]
       IN known # None /\ known.kind = "DOI" /\ known.dataset = job[r].target[1]
    /\ service' = [service EXCEPT ![job[r].new.pid.id].content = job[r].new.content]
    /\ Goes(r, "write")
    /\ UNCHANGED << row, used, overlapped, undescribed >>

\* After the check and before the end of a request others do not see its
\* identifier, and it does not see theirs.
Commit(r) ==
    /\ job[r] # None
    /\ job[r].step = "write"
    /\ LET j == job[r]
           d == j.target[1]
       IN /\ j.kind = "merge" => ~Locked(j.target)
          /\ row' = [row EXCEPT ![j.target] = j.new,
                                ![Linked(d)] = IF j.kind = "merge" THEN None
                                               ELSE IF j.target = Linked(d) THEN j.new ELSE @]
          /\ job' = [s \in Request |->
                        IF s = r THEN None
                        ELSE IF job[s] # None /\ job[s].step \in {"put", "write"}
                             THEN [job[s] EXCEPT !.unseen = @ \cup {d}]
                             ELSE job[s]]
          /\ overlapped' = overlapped \cup {{d, e} : e \in j.unseen}
          /\ undescribed' =
                 IF j.target # Original(d) THEN undescribed
                 ELSE IF MustDescribe(j) \/ j.kind \in {"create", "publish"} THEN undescribed \ {d}
                 ELSE IF j.kind = "merge" \/ (j.kind = "update" /\ j.new.wants # "DOI")
                      THEN undescribed \cup {d}
                      ELSE undescribed
    /\ UNCHANGED << service, used >>

\* A check or a call fails, or the process dies: the transaction is rolled back.
Fail(r) ==
    /\ job[r] # None
    /\ job' = [job EXCEPT ![r] = None]
    /\ undescribed' = IF job[r].step = "write" /\ MustDescribe(job[r])
                      THEN undescribed \cup {job[r].target[1]} ELSE undescribed
    /\ UNCHANGED << row, service, used, overlapped >>

Begin(r) ==
    \/ \E d \in Dataset :
           \/ \E c \in Catalog, pid \in UserPid, w \in Wants, state \in {"draft", "published"} :
                  Create(r, d, c, pid, w, state)
           \/ Publish(r, d) \/ CreateDraft(r, d) \/ Merge(r, d) \/ Restore(r, d)
           \/ \E e \in Dataset : NewVersion(r, d, e)
    \/ \E k \in {l \in Key : row[l] # None}, w \in Wants :
           \E pid \in UserPid \cup {row[k].pid} : Update(r, k, pid, w)

Next ==
    \/ \E r \in Request :
           \/ Begin(r) \/ Mint(r) \/ Check(r) \/ InsertDoi(r) \/ PutDoi(r)
           \/ Commit(r) \/ Fail(r)
    \/ \E d \in Dataset, flush \in BOOLEAN : Remove(d, flush)

Spec == Init /\ [][Next]_vars

-----------------------------------------------------------------------------
(* What identifiers promise. *)

Clash(k, l) ==
    /\ row[k] # None /\ row[l] # None /\ row[k].pid # None
    /\ row[k].pid = row[l].pid
    /\ \/ row[k].catalog = row[l].catalog
       \/ row[k].catalog \notin External /\ row[l].catalog \notin External

\* "A persistent identifier uniquely identifies the dataset": two datasets of
\* one catalog, or of catalogs that are not external, share one only if each
\* was checked before the other was committed (Dataset.validate_unique_fields).
\* Removed datasets and linked drafts count.
UniqueUnlessOverlapped ==
    \A k, l \in Key : k # l /\ Clash(k, l) => {k[1], l[1]} \in overlapped

\* A generated identifier leads to its own dataset, whatever was copied,
\* merged, retried or given back by another dataset in the meantime
\* (Dataset.create_persistent_identifier, create_copy).
GeneratedPidIsOfItsDataset ==
    \A d \in Dataset :
        LET dataset == row[Original(d)]
        IN dataset # None /\ dataset.generated =>
               /\ dataset.pid # None
               /\ IF service[dataset.pid.id] = None THEN d = Migrated
                  ELSE service[dataset.pid.id].dataset = d

\* "The persistent identifier of a dataset with a generated PID cannot be
\* changed afterwards", by no update of it or of its draft.
GeneratedPidIsKept ==
    [][\A d \in Dataset :
           LET old == row[Original(d)] new == row'[Original(d)]
           IN old # None /\ new # None /\ old.generated =>
                  new.pid = old.pid /\ new.generated]_vars

\* When no request is being served, the service shows the metadata of a
\* published dataset with a DOI, except after a merge, after an update that
\* failed when the metadata had been sent, and while no DOI is wished for
\* (DatasetViewSet.perform_update).
DoiIsDescribed ==
    \A d \in Dataset :
        LET dataset == row[Original(d)]
        IN /\ dataset # None /\ dataset.state = "published" /\ dataset.generated
           /\ dataset.wants = "DOI" /\ d \notin undescribed /\ ~Locked(Original(d))
           => /\ service[dataset.pid.id] # None
              /\ service[dataset.pid.id].content = dataset.content
=============================================================================
