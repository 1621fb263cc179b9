----------------------------- MODULE Preservation -----------------------------
(***************************************************************************)
(* A published dataset, its preservation record and its contract, while    *)
(* the preservation service (PAS), the users of the dataset and requests   *)
(* that save its row unasked work on them. Requests of the dataset's own   *)
(* views lock the row of the dataset before they read it; the merge of its *)
(* linked draft and the deprecation that follows the deletion of a file    *)
(* read it before, and save the whole row; a change of the contract locks  *)
(* nothing.                                                                *)
(*                                                                         *)
(* One contract. `content` is whatever of the dataset merges and its users *)
(* change. Superusers may do what PAS may. The linked draft is not         *)
(* modelled: it has no preservation record, and locks of its own. Nor is   *)
(* the cumulative state, see OverlappingRequests.                          *)
(***************************************************************************)
EXTENDS Naturals

CONSTANTS Worker,       \* processes that serve requests, one at a time each
          Record,       \* preservation records of the dataset
          Copy,         \* PAS versions of the dataset
          Rationale,    \* why data is sensitive
          MaxRequests,  \* bound on requests
          None          \* Python's None

VARIABLES
    dataset,   \* the row of the dataset
    record,    \* its preservation records
    copies,    \* its PAS versions
    contract,  \* the contract
    owner,     \* the worker whose transaction holds the row of the dataset
    job,       \* the request a worker serves and what it will save
    used       \* number of requests so far

data == << dataset, record, copies, contract >>
vars == << data, owner, job, used >>

\* NONE, and all states that follow.
PreservationState == {"NONE", "IN PROCESS"}

PreservationRecord ==
    [contract: BOOLEAN, state: PreservationState, running: BOOLEAN,
     version: Copy \cup {None}, removed: BOOLEAN]

Sensitivity == [sensitive: BOOLEAN, rationales: SUBSET Rationale]

Dataset == [content: BOOLEAN, preservation: Record \cup {None}, sensitivity: Sensitivity]

User == {"user", "pas"}

Kind == {"edit", "replace", "describe", "preservation", "remove preservation", "preserve",
         "merge", "delete file", "contract"}

\* A request saves a row of the dataset with one record, or a contract.
Job ==
    [kind: Kind, user: User, overlapped: BOOLEAN,
     dataset: Dataset \cup {None}, id: Record \cup {None},
     record: PreservationRecord \cup {None}, contract: Sensitivity \cup {None}]

\* Left out of the sets it stands beside.
ASSUME NoneIsNothing ==
    /\ None \notin Worker \cup Record \cup Copy
    /\ None \notin Dataset /\ None \notin PreservationRecord

ASSUME BoundIsNumber == MaxRequests \in Nat

TypeOK ==
    /\ dataset \in Dataset
    /\ record \in [Record -> PreservationRecord \cup {None}]
    /\ copies \subseteq Copy
    /\ contract \in Sensitivity
    /\ owner \in Worker \cup {None}
    /\ job \in [Worker -> Job \cup {None}]
    /\ used \in 0..MaxRequests

NotSensitive == [sensitive |-> FALSE, rationales |-> {}]

\* A dataset that is not in preservation yet.
Init ==
    /\ dataset = [content |-> FALSE, preservation |-> None, sensitivity |-> NotSensitive]
    /\ record = [p \in Record |-> None]
    /\ copies = {}
    /\ contract \in Sensitivity
    /\ owner = None
    /\ job = [w \in Worker |-> None]
    /\ used = 0

-----------------------------------------------------------------------------
(* What requests read. *)

\* The record that the column of the dataset points to, removed or not.
PreservationOf(d) == IF d.preservation = None THEN None ELSE record[d.preservation]

\* The record that the nested view finds.
AvailablePreservation ==
    LET p == PreservationOf(dataset) IN IF p # None /\ p.removed THEN None ELSE p

IsRunning == PreservationOf(dataset) # None /\ PreservationOf(dataset).running

\* Ids are random.
Unused(x) ==
    /\ x \in Record => record[x] = None
    /\ x \notin copies
    /\ \A w \in Worker : job[w] # None =>
           /\ job[w].id # x
           /\ job[w].record # None => job[w].record.version # x

\* A sensitive dataset needs a sensitive contract; its rationales need to be
\* those of the contract.
IsCovered(s, p) ==
    LET hasContract == p # None /\ p.contract IN
    /\ s.sensitive => hasContract /\ contract.sensitive
    /\ s.rationales # {} => hasContract /\ s.rationales \subseteq contract.rationales

\* Faulty variant of SuitsDatasets: only is_sensitive is compared.
SuitsSensitivity(c) ==
    LET p == PreservationOf(dataset) IN
    dataset.sensitivity.sensitive /\ p # None /\ p.contract => c.sensitive

\* A contract is not made less than sensitive datasets need.
SuitsDatasets(c) ==
    LET s == dataset.sensitivity p == PreservationOf(dataset) IN
    s.sensitive /\ p # None /\ p.contract =>
        /\ c.sensitive
        /\ s.rationales \cap contract.rationales \subseteq c.rationales

-----------------------------------------------------------------------------
(* Requests. *)

\* DatasetAccessPolicy and DatasetNestedAccessPolicy.
IsEditAllowed(user) == user = "pas" \/ ~IsRunning

\* Faulty variant of RowIsFree: the row is read without waiting for its lock.
RowIsRead == TRUE

RowIsFree == owner = None

Start(w, kind, user, d, id, p, c) ==
    /\ job[w] = None
    /\ used < MaxRequests
    /\ used' = used + 1
    /\ job' = [job EXCEPT ![w] = [kind |-> kind, user |-> user, overlapped |-> FALSE,
                                  dataset |-> d, id |-> id, record |-> p, contract |-> c]]
    /\ UNCHANGED data

\* The view of the dataset, or a nested one, locks the row, reads it and checks
\* that the user may edit it.
LockAndRead(w, kind, user, d, id, p) ==
    /\ RowIsFree
    /\ IsEditAllowed(user)
    /\ owner' = w
    /\ Start(w, kind, user, d, id, p, None)

\* PATCH of a dataset.
Edit(w, user) == LockAndRead(w, "edit", user, [dataset EXCEPT !.content = ~@], None, None)

\* PUT of a dataset, without a preservation (null is refused): the record is soft
\* deleted. The sensitivity is kept, or given by PAS, and validated against the
\* contract that was there.
Replace(w, user) ==
    LET p == PreservationOf(dataset) IN
    \E s \in IF user = "pas" THEN Sensitivity ELSE {dataset.sensitivity} :
        /\ p # None
        /\ IsCovered(s, p)
        /\ LockAndRead(w, "replace", user,
                       [content |-> ~dataset.content, preservation |-> None, sensitivity |-> s],
                       dataset.preservation, [p EXCEPT !.removed = TRUE])

\* What a request can make of record p, or of none. A record that has entered
\* the process needs a contract.
Given(p) ==
    {v \in PreservationRecord :
        /\ v.state # "NONE" => v.contract
        /\ v.version = IF p = None THEN None ELSE p.version
        /\ v.removed = (p # None /\ p.removed)}

IdOf(p) == IF p = None THEN {q \in Record : Unused(q)} ELSE {dataset.preservation}

\* PUT and PATCH of the nested preservation.
SetPreservation(w, user) ==
    LET p == AvailablePreservation IN
    \E v \in Given(p), id \in IdOf(p) :
        LockAndRead(w, "preservation", user, [dataset EXCEPT !.preservation = id], id, v)

\* PATCH of a dataset by PAS with a sensitivity, and maybe a preservation, which
\* cannot be null.
Describe(w) ==
    LET p == PreservationOf(dataset) IN
    \E s \in Sensitivity :
        \/ /\ IsCovered(s, p)
           /\ LockAndRead(w, "describe", "pas", [dataset EXCEPT !.sensitivity = s], None, None)
        \/ \E v \in Given(p), id \in IdOf(p) :
               /\ IsCovered(s, v)
               /\ LockAndRead(w, "describe", "pas",
                              [dataset EXCEPT !.sensitivity = s, !.preservation = id], id, v)

\* DELETE of the nested preservation: the record is soft deleted, and the
\* dataset still points to it.
RemovePreservation(w, user) ==
    /\ AvailablePreservation # None
    /\ LockAndRead(w, "remove preservation", user, dataset, dataset.preservation,
                   [AvailablePreservation EXCEPT !.removed = TRUE])

HasVersion == PreservationOf(dataset).version # None

\* The copy takes over the state of the record. (Files that are in PAS already
\* and a missing PAS catalog are among the failures.)
CreatePreservationVersion(w) ==
    /\ PreservationOf(dataset) # None
    /\ PreservationOf(dataset).state # "NONE"
    /\ ~HasVersion
    /\ \E c \in {x \in Copy : Unused(x)} :
           LockAndRead(w, "preserve", "pas", dataset, dataset.preservation,
                       [PreservationOf(dataset) EXCEPT !.version = c, !.state = "NONE"])

\* A merge brings the content of the draft, whose own lock it holds: the draft
\* has no preservation record, so it can be published while PAS works on the
\* original. A deprecation follows the deletion of a file. Both have read the
\* row of the dataset when they come to save it.
ReadUnlocked(w, kind) ==
    /\ Start(w, kind, "user", [dataset EXCEPT !.content = ~@], None, None, None)
    /\ UNCHANGED owner

\* PATCH of the contract by PAS.
ChangeContract(w) ==
    \E c \in Sensitivity :
        /\ SuitsDatasets(c)
        /\ Start(w, "contract", "pas", None, None, None, c)
        /\ UNCHANGED owner

-----------------------------------------------------------------------------

\* Others that are served at this time overlap with what is committed.
End(w) ==
    /\ job' = [v \in Worker |->
                  IF v = w THEN None
                  ELSE IF job[v] = None THEN None
                  ELSE [job[v] EXCEPT !.overlapped = @ \/ data' # data]]
    /\ owner' = IF owner = w THEN None ELSE owner
    /\ UNCHANGED used

\* Rows are saved with all their columns.
Commit(w) ==
    LET j == job[w] IN
    /\ j # None
    /\ j.dataset # None => owner \in {w, None}
    /\ IF j.dataset = None THEN UNCHANGED dataset ELSE dataset' = j.dataset
    /\ IF j.record = None THEN UNCHANGED record
       ELSE record' = [record EXCEPT ![j.id] = j.record]
    /\ copies' = IF j.record = None THEN copies ELSE copies \cup ({j.record.version} \ {None})
    /\ contract' = IF j.contract = None THEN contract ELSE j.contract
    /\ End(w)

\* A later validation, a lost connection or a timeout.
Fail(w) ==
    /\ job[w] # None
    /\ UNCHANGED data
    /\ End(w)

Next ==
    \E w \in Worker :
        \/ \E user \in User :
               Edit(w, user) \/ Replace(w, user) \/ SetPreservation(w, user) \/ RemovePreservation(w, user)
        \/ Describe(w)
        \/ CreatePreservationVersion(w)
        \/ \E kind \in {"merge", "delete file"} : ReadUnlocked(w, kind)
        \/ ChangeContract(w)
        \/ Commit(w)
        \/ Fail(w)

Spec == Init /\ [][Next]_vars

-----------------------------------------------------------------------------
(* Properties. *)

Commits(w, kinds) == job[w] # None /\ job[w].kind \in kinds /\ Commit(w)

SavesRowReadUnlocked == \E w \in Worker : Commits(w, {"merge", "delete file"})

\* "Only PAS service is allowed to update the dataset while PAS is processing
\* it" (Preservation.pas_process_running): neither the dataset nor its record
\* is changed by a request of others, also if it came before PAS began, except
\* by merges and deprecations, which do not look (README, Known divergences).
LeftAloneWhileRunning ==
    [][IsRunning /\ << dataset', record' >> # << dataset, record >> =>
           \/ SavesRowReadUnlocked
           \/ \E w \in Worker : Commits(w, Kind) /\ job[w].user = "pas"]_vars

\* Each PAS version is the version of a record that the dataset has, so that
\* MetaxV2Client.update_dataset_files finds the files of its origin; or of one
\* that was removed.
OriginIsKnown ==
    \A c \in copies : \E p \in Record :
        /\ record[p] # None /\ record[p].version = c
        /\ p = dataset.preservation \/ record[p].removed

\* Nothing else makes a PAS version lose its origin, except merges and
\* deprecations, which set back the column (README, Known divergences).
OriginStaysKnown == [][OriginIsKnown => OriginIsKnown' \/ SavesRowReadUnlocked]_vars

ContractCoversDataset ==
    dataset.sensitivity.sensitive => IsCovered(dataset.sensitivity, PreservationOf(dataset))

\* A sensitive dataset and its contract agree: each of the two is validated
\* against the other, at least by requests that do not overlap. The nested view
\* of the record does not validate, and a PUT validates against the contract that
\* it removes (README, Known divergences).
ContractStaysCovering ==
    [][ContractCoversDataset =>
           \/ ContractCoversDataset'
           \/ SavesRowReadUnlocked
           \/ \E w \in Worker : \/ Commits(w, {"preservation", "replace"})
                                \/ Commits(w, Kind) /\ job[w].overlapped]_vars
=============================================================================
