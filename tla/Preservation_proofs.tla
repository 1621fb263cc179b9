------------------------- MODULE Preservation_proofs -------------------------
(* PAS has a dataset to itself while it works on it, and PAS versions keep      *)
(* their origin, for any number of requests, records and versions: what a       *)
(* request has found under the lock of the row is still so when it commits,     *)
(* as long as nobody else saves the row meanwhile. So is what has been          *)
(* validated about the dataset and its contract.                               *)
EXTENDS Preservation, TLAPS

LockedKind == {"edit", "replace", "describe", "preservation", "remove preservation", "preserve"}

\* What is going to be saved as dataset d and as record p, with identifier id,
\* takes no version from the record that has it, and leaves no record with a
\* version behind, unless as a removed one.
KeepsOrigin(d, id, p) ==
    /\ p = None => d.preservation = dataset.preservation
    /\ p # None =>
        /\ id \in Record
        /\ record[id] # None /\ record[id].version # None => p.version = record[id].version
        /\ p.version # None => d.preservation = id \/ p.removed
        /\ \/ d.preservation = dataset.preservation
           \/ id = dataset.preservation
           \/ PreservationOf(dataset) = None
           \/ PreservationOf(dataset).removed

\* A request that has locked the row holds it, and was let in for what the row
\* still says.
JobIsSound(w) ==
    /\ job[w].kind = "contract" => job[w].dataset = None /\ job[w].record = None
    /\ job[w].kind # "contract" => job[w].dataset # None
    /\ job[w].kind \in LockedKind =>
        /\ owner = w
        /\ job[w].user = "pas" \/ ~IsRunning
        /\ KeepsOrigin(job[w].dataset, job[w].id, job[w].record)

JobsAreSound == \A w \in Worker : job[w] # None => JobIsSound(w)

IInv == TypeOK /\ JobsAreSound

LEMMA InitIsGood == Init => IInv
<1> SUFFICES ASSUME Init PROVE IInv OBVIOUS
<1>1. NotSensitive \in Sensitivity
  BY DEF NotSensitive, Sensitivity
<1>2. TypeOK
  BY <1>1, BoundIsNumber DEF Init, TypeOK, Dataset
<1> QED
  BY <1>2 DEF Init, IInv, JobsAreSound

-----------------------------------------------------------------------------
(* Requests that lock the row. *)

\* What such a request brings along.
LocksWell(w) ==
    \E kind \in LockedKind, user \in User, d \in Dataset, id \in Record \cup {None},
       p \in PreservationRecord \cup {None} :
           LockAndRead(w, kind, user, d, id, p) /\ KeepsOrigin(d, id, p)

LEMMA RecordIsTyped ==
    ASSUME TypeOK, PreservationOf(dataset) # None
    PROVE  /\ PreservationOf(dataset) = record[dataset.preservation]
           /\ PreservationOf(dataset) \in PreservationRecord
           /\ dataset.preservation \in Record
BY DEF TypeOK, PreservationOf, Dataset

LEMMA EditLocksWell ==
    ASSUME TypeOK, NEW w \in Worker, NEW user \in User, Edit(w, user)
    PROVE  LocksWell(w)
<1> DEFINE d == [dataset EXCEPT !.content = ~@]
<1>1. d \in Dataset /\ d.preservation = dataset.preservation
  BY Zenon DEF TypeOK, Dataset
<1>2. KeepsOrigin(d, None, None)
  BY <1>1 DEF KeepsOrigin
<1>3. LockAndRead(w, "edit", user, d, None, None)
  BY DEF Edit
<1> HIDE DEF d
<1> QED BY <1>1, <1>2, <1>3, Zenon DEF LocksWell, LockedKind

LEMMA ReplaceLocksWell ==
    ASSUME TypeOK, NEW w \in Worker, NEW user \in User, Replace(w, user)
    PROVE  LocksWell(w)
<1>0. /\ dataset \in Dataset
      /\ (IF user = "pas" THEN Sensitivity ELSE {dataset.sensitivity}) \subseteq Sensitivity
  BY DEF TypeOK, Dataset
<1> DEFINE p == [PreservationOf(dataset) EXCEPT !.removed = TRUE]
           With(s) == [content |-> ~dataset.content, preservation |-> None, sensitivity |-> s]
<1>5. PICK s \in Sensitivity : LockAndRead(w, "replace", user, With(s), dataset.preservation, p)
  BY <1>0, Zenon DEF Replace
<1> DEFINE d == With(s)
<1>1. d \in Dataset
  BY DEF Dataset
<1>2. PreservationOf(dataset) # None
  BY DEF Replace
<1>3. /\ p \in PreservationRecord
      /\ p.version = PreservationOf(dataset).version
      /\ p.removed
  BY <1>2, RecordIsTyped, Zenon DEF PreservationRecord
<1>4. KeepsOrigin(d, dataset.preservation, p)
  <2> HIDE DEF d, p
  <2> QED BY <1>2, <1>3, RecordIsTyped, NoneIsNothing DEF KeepsOrigin
<1>6. LockAndRead(w, "replace", user, d, dataset.preservation, p)
  BY <1>5
<1> HIDE DEF d, p
<1> QED BY <1>1, <1>2, <1>3, <1>4, <1>6, RecordIsTyped, Zenon DEF LocksWell, LockedKind

\* What Given lets become of a record, or of none, keeps its version.
LEMMA GivenKeepsOrigin ==
    ASSUME TypeOK,
           NEW old,
           old = PreservationOf(dataset) \/ (old = None /\ PreservationOf(dataset).removed),
           NEW v \in Given(old), NEW id \in IdOf(old),
           NEW d, d.preservation = id
    PROVE  v \in PreservationRecord /\ id \in Record /\ KeepsOrigin(d, id, v)
<1>1. v \in PreservationRecord
  BY DEF Given
<1>2. v # None
  BY <1>1, NoneIsNothing
<1>3. CASE old = None
  <2>1. id \in Record /\ record[id] = None
    BY <1>3 DEF IdOf, Unused
  <2>2. v.version = None
    BY <1>3 DEF Given
  <2> QED BY <1>1, <1>2, <1>3, <2>1, <2>2 DEF KeepsOrigin
<1>4. CASE old # None
  <2>1. old = PreservationOf(dataset) /\ id = dataset.preservation
    BY <1>4 DEF IdOf
  <2>2. id \in Record /\ old = record[id]
    BY <1>4, <2>1, RecordIsTyped
  <2>3. v.version = record[id].version
    BY <1>4, <2>2 DEF Given
  <2> QED BY <1>1, <1>2, <2>1, <2>2, <2>3 DEF KeepsOrigin
<1> QED BY <1>3, <1>4

LEMMA SetPreservationLocksWell ==
    ASSUME TypeOK, NEW w \in Worker, NEW user \in User, SetPreservation(w, user)
    PROVE  LocksWell(w)
<1> DEFINE old == AvailablePreservation
<1>1. PICK v \in Given(old), id \in IdOf(old) :
          LockAndRead(w, "preservation", user, [dataset EXCEPT !.preservation = id], id, v)
  BY DEF SetPreservation
<1>2. old = PreservationOf(dataset) \/ (old = None /\ PreservationOf(dataset).removed)
  BY DEF AvailablePreservation
<1> DEFINE d == [dataset EXCEPT !.preservation = id]
<1>3. d.preservation = id
  BY DEF TypeOK, Dataset
<1> HIDE DEF old, d
<1>4. v \in PreservationRecord /\ id \in Record /\ KeepsOrigin(d, id, v)
  BY <1>2, <1>3, GivenKeepsOrigin
<1>5. d \in Dataset
  BY <1>4 DEF d, TypeOK, Dataset
<1> QED BY <1>1, <1>4, <1>5, Zenon DEF d, LocksWell, LockedKind

LEMMA DescribeLocksWell ==
    ASSUME TypeOK, NEW w \in Worker, Describe(w)
    PROVE  LocksWell(w)
<1> DEFINE old == PreservationOf(dataset)
<1>1. PICK s \in Sensitivity :
          \/ LockAndRead(w, "describe", "pas", [dataset EXCEPT !.sensitivity = s], None, None)
          \/ \E v \in Given(old), id \in IdOf(old) :
                 LockAndRead(w, "describe", "pas",
                             [dataset EXCEPT !.sensitivity = s, !.preservation = id], id, v)
  BY Zenon DEF Describe
<1>2. CASE LockAndRead(w, "describe", "pas", [dataset EXCEPT !.sensitivity = s], None, None)
  <2> DEFINE d == [dataset EXCEPT !.sensitivity = s]
  <2>1. d \in Dataset /\ d.preservation = dataset.preservation
    BY DEF TypeOK, Dataset
  <2> HIDE DEF d
  <2>2. KeepsOrigin(d, None, None)
    BY <2>1 DEF KeepsOrigin
  <2> QED BY <1>2, <2>1, <2>2, Zenon DEF d, LocksWell, LockedKind, User
<1>3. ASSUME NEW v \in Given(old), NEW id \in IdOf(old),
             LockAndRead(w, "describe", "pas",
                         [dataset EXCEPT !.sensitivity = s, !.preservation = id], id, v)
      PROVE  LocksWell(w)
  <2> DEFINE d == [dataset EXCEPT !.sensitivity = s, !.preservation = id]
  <2>1. d.preservation = id
    BY DEF TypeOK, Dataset
  <2> HIDE DEF d, old
  <2>2. v \in PreservationRecord /\ id \in Record /\ KeepsOrigin(d, id, v)
    BY <2>1, GivenKeepsOrigin DEF old
  <2>3. d \in Dataset
    BY <2>2, Zenon DEF d, TypeOK, Dataset
  <2> QED BY <1>3, <2>2, <2>3, Zenon DEF d, LocksWell, LockedKind, User
<1> QED BY <1>1, <1>2, <1>3, Zenon

LEMMA RemovePreservationLocksWell ==
    ASSUME TypeOK, NEW w \in Worker, NEW user \in User, RemovePreservation(w, user)
    PROVE  LocksWell(w)
<1> DEFINE p == [AvailablePreservation EXCEPT !.removed = TRUE]
<1>1. AvailablePreservation # None
  BY Zenon DEF RemovePreservation
<1>2. AvailablePreservation = PreservationOf(dataset) /\ PreservationOf(dataset) # None
  BY <1>1 DEF AvailablePreservation
<1>3. /\ p \in PreservationRecord
      /\ p.version = PreservationOf(dataset).version
  BY <1>2, RecordIsTyped, Zenon DEF PreservationRecord
<1>4. p.removed
  BY <1>2, RecordIsTyped DEF PreservationRecord
<1>5. LockAndRead(w, "remove preservation", user, dataset, dataset.preservation, p)
  BY Zenon DEF RemovePreservation
<1> HIDE DEF p
<1>6. KeepsOrigin(dataset, dataset.preservation, p)
  BY <1>2, <1>3, <1>4, RecordIsTyped, NoneIsNothing DEF KeepsOrigin
<1> QED BY <1>2, <1>3, <1>5, <1>6, RecordIsTyped, Zenon DEF TypeOK, LocksWell, LockedKind

LEMMA CreateLocksWell ==
    ASSUME TypeOK, NEW w \in Worker, CreatePreservationVersion(w)
    PROVE  LocksWell(w)
<1>1. PICK c \in Copy :
          LockAndRead(w, "preserve", "pas", dataset, dataset.preservation,
                      [PreservationOf(dataset) EXCEPT !.version = c, !.state = "NONE"])
  BY Zenon DEF CreatePreservationVersion
<1> DEFINE p == [PreservationOf(dataset) EXCEPT !.version = c, !.state = "NONE"]
<1>2. PreservationOf(dataset) # None /\ PreservationOf(dataset).version = None
  BY DEF CreatePreservationVersion, HasVersion
<1>3. p \in PreservationRecord
  BY <1>2, RecordIsTyped, Zenon DEF PreservationRecord, PreservationState
<1> HIDE DEF p
<1>4. KeepsOrigin(dataset, dataset.preservation, p)
  BY <1>2, <1>3, RecordIsTyped, NoneIsNothing DEF KeepsOrigin
<1> QED BY <1>1, <1>2, <1>3, <1>4, RecordIsTyped, Zenon DEF p, TypeOK, LocksWell, LockedKind, User

-----------------------------------------------------------------------------
(* Every step keeps the invariant. *)

\* A job that was begun, and those of others, which see the same data.
LEMMA StartKeepsType ==
    ASSUME TypeOK, NEW w \in Worker, NEW kind \in Kind, NEW user \in User,
           NEW d \in Dataset \cup {None}, NEW id \in Record \cup {None},
           NEW p \in PreservationRecord \cup {None}, NEW c \in Sensitivity \cup {None},
           Start(w, kind, user, d, id, p, c), owner' \in Worker \cup {None}
    PROVE  TypeOK'
<1> DEFINE j == [kind |-> kind, user |-> user, overlapped |-> FALSE,
                 dataset |-> d, id |-> id, record |-> p, contract |-> c]
<1>1. j \in Job
  BY DEF Job
<1>2. job' = [job EXCEPT ![w] = j]
  BY DEF Start
<1> HIDE DEF j
<1>3. job' \in [Worker -> Job \cup {None}]
  BY <1>1, <1>2 DEF TypeOK
<1>4. used' \in 0..MaxRequests
  BY BoundIsNumber DEF TypeOK, Start
<1> QED BY <1>3, <1>4 DEF TypeOK, Start, data

LEMMA StartedJob ==
    ASSUME TypeOK, NEW w \in Worker, NEW kind, NEW user, NEW d, NEW id, NEW p, NEW c,
           Start(w, kind, user, d, id, p, c)
    PROVE  /\ job'[w].kind = kind /\ job'[w].user = user /\ job'[w].dataset = d
           /\ job'[w].id = id /\ job'[w].record = p
           /\ \A v \in Worker \ {w} : job'[v] = job[v]
<1>1. job' = [job EXCEPT ![w] = [kind |-> kind, user |-> user, overlapped |-> FALSE,
                                 dataset |-> d, id |-> id, record |-> p, contract |-> c]]
  BY DEF Start
<1> QED BY <1>1 DEF TypeOK

LEMMA LockKeepsIInv ==
    ASSUME IInv, NEW w \in Worker, LocksWell(w)
    PROVE  IInv'
<1>1. PICK kind \in LockedKind, user \in User, d \in Dataset, id \in Record \cup {None},
           p \in PreservationRecord \cup {None} :
               LockAndRead(w, kind, user, d, id, p) /\ KeepsOrigin(d, id, p)
  BY DEF LocksWell
<1>2. Start(w, kind, user, d, id, p, None) /\ owner' = w /\ owner = None /\ IsEditAllowed(user)
  BY <1>1 DEF LockAndRead, RowIsFree
<1>3. TypeOK'
  BY <1>2, StartKeepsType, Zenon DEF IInv, LockedKind, Kind
<1>4. UNCHANGED << dataset, record >>
  BY <1>2 DEF Start, data
<1>5. IsRunning' = IsRunning
  BY <1>4 DEF IsRunning, PreservationOf
<1>6. ASSUME NEW v \in Worker, job'[v] # None PROVE JobIsSound(v)'
  <2>1. CASE v = w
    <3>1. /\ job'[w].kind = kind /\ job'[w].user = user /\ job'[w].dataset = d
          /\ job'[w].id = id /\ job'[w].record = p
      BY <1>2, StartedJob DEF IInv
    <3>2. KeepsOrigin(d, id, p)'
      BY <1>1, <1>4 DEF KeepsOrigin, PreservationOf
    <3>3. KeepsOrigin(job[w].dataset, job[w].id, job[w].record)'
      BY <3>1, <3>2 DEF KeepsOrigin
    <3> QED BY <2>1, <1>2, <1>5, <3>1, <3>3, NoneIsNothing, Zenon
            DEF JobIsSound, LockedKind, IsEditAllowed
  <2>2. CASE v # w
    <3>1. job'[v] = job[v]
      BY <2>2, <1>2 DEF Start, IInv, TypeOK
    <3>2. JobIsSound(v) /\ job[v].kind \notin LockedKind
      BY <3>1, <1>2, <1>6, NoneIsNothing DEF IInv, JobsAreSound, JobIsSound
    <3> QED BY <3>1, <3>2 DEF JobIsSound
  <2> QED BY <2>1, <2>2
<1> QED BY <1>3, <1>6 DEF IInv, JobsAreSound

\* Merges, deprecations and changes of the contract lock nothing.
LEMMA StartUnlockedKeepsIInv ==
    ASSUME IInv, NEW w \in Worker, NEW kind \in {"merge", "delete file", "contract"},
           NEW user \in User, NEW d \in Dataset \cup {None}, NEW c \in Sensitivity \cup {None},
           kind = "contract" => d = None,
           kind # "contract" => d # None,
           Start(w, kind, user, d, None, None, c), UNCHANGED owner
    PROVE  IInv'
<1>1. TypeOK'
  <2>1. owner' \in Worker \cup {None}
    BY Zenon DEF IInv, TypeOK
  <2> QED BY <2>1, StartKeepsType, Zenon DEF IInv, Kind
<1>2. UNCHANGED << dataset, record, owner >>
  BY Zenon DEF Start, data
<1>3. ASSUME NEW v \in Worker, job'[v] # None PROVE JobIsSound(v)'
  <2>1. CASE v = w
    <3>1. job'[w].kind = kind /\ job'[w].dataset = d /\ job'[w].record = None
      BY StartedJob, Zenon DEF IInv
    <3>2. kind \notin LockedKind
      BY Zenon DEF LockedKind
    <3> QED BY <2>1, <3>1, <3>2, Zenon DEF JobIsSound
  <2>2. CASE v # w
    <3>1. job'[v] = job[v]
      BY <2>2, Zenon DEF Start, IInv, TypeOK
    <3>2. JobIsSound(v)
      BY <3>1, <1>3, Zenon DEF IInv, JobsAreSound
    <3> QED BY <3>1, <3>2, <1>2, Zenon DEF JobIsSound, KeepsOrigin, IsRunning, PreservationOf
  <2> QED BY <2>1, <2>2, Zenon
<1> QED BY <1>1, <1>3, Zenon DEF IInv, JobsAreSound

LEMMA ReadUnlockedKeepsIInv ==
    ASSUME IInv, NEW w \in Worker, NEW kind \in {"merge", "delete file"}, ReadUnlocked(w, kind)
    PROVE  IInv'
<1> DEFINE d == [dataset EXCEPT !.content = ~@]
<1>1. d \in Dataset
  BY Zenon DEF IInv, TypeOK, Dataset
<1>2. Start(w, kind, "user", d, None, None, None) /\ UNCHANGED owner
  BY Zenon DEF ReadUnlocked
<1> HIDE DEF d
<1>3. d # None
  BY <1>1, NoneIsNothing, Zenon
<1> QED BY <1>1, <1>2, <1>3, StartUnlockedKeepsIInv, Zenon DEF User

LEMMA ChangeContractKeepsIInv ==
    ASSUME IInv, NEW w \in Worker, ChangeContract(w)
    PROVE  IInv'
<1>1. PICK c \in Sensitivity : Start(w, "contract", "pas", None, None, None, c) /\ UNCHANGED owner
  BY DEF ChangeContract
<1> QED BY <1>1, StartUnlockedKeepsIInv, Zenon DEF User

\* What becomes of the jobs when one ends.
LEMMA EndKeepsOthers ==
    ASSUME TypeOK, NEW w \in Worker, End(w)
    PROVE  /\ job' \in [Worker -> Job \cup {None}]
           /\ owner' \in Worker \cup {None}
           /\ \A v \in Worker : job'[v] # None =>
                  /\ v # w /\ job[v] # None
                  /\ job'[v].kind = job[v].kind /\ job'[v].user = job[v].user
                  /\ job'[v].dataset = job[v].dataset /\ job'[v].id = job[v].id
                  /\ job'[v].record = job[v].record
                  /\ owner = v => owner' = v
<1> DEFINE changed == data' # data
<1>1. changed \in BOOLEAN
  OBVIOUS
<1> HIDE DEF changed
<1>2. job' = [v \in Worker |->
                 IF v = w THEN None
                 ELSE IF job[v] = None THEN None
                 ELSE [job[v] EXCEPT !.overlapped = @ \/ changed]]
  BY DEF End, changed
<1>3. ASSUME NEW j \in Job
      PROVE  /\ [j EXCEPT !.overlapped = @ \/ changed] \in Job
             /\ [j EXCEPT !.overlapped = @ \/ changed].kind = j.kind
             /\ [j EXCEPT !.overlapped = @ \/ changed].user = j.user
             /\ [j EXCEPT !.overlapped = @ \/ changed].dataset = j.dataset
             /\ [j EXCEPT !.overlapped = @ \/ changed].id = j.id
             /\ [j EXCEPT !.overlapped = @ \/ changed].record = j.record
  <2>1. (j.overlapped \/ changed) \in BOOLEAN
    BY <1>1
  <2> QED BY <2>1, Zenon DEF Job
<1>4. \A v \in Worker : job[v] # None => job[v] \in Job
  BY DEF TypeOK
<1>5. job' \in [Worker -> Job \cup {None}]
  BY <1>2, <1>3, <1>4
<1>6. ASSUME NEW v \in Worker, job'[v] # None
      PROVE  /\ v # w /\ job[v] # None
             /\ job'[v].kind = job[v].kind /\ job'[v].user = job[v].user
             /\ job'[v].dataset = job[v].dataset /\ job'[v].id = job[v].id
             /\ job'[v].record = job[v].record
             /\ owner = v => owner' = v
  <2>1. v # w /\ job[v] # None /\ job'[v] = [job[v] EXCEPT !.overlapped = @ \/ changed]
    BY <1>2, <1>6
  <2>2. owner = v => owner' = v
    BY <2>1 DEF End
  <2> QED BY <2>1, <2>2, <1>3, <1>4
<1>7. owner' \in Worker \cup {None}
  BY DEF TypeOK, End
<1> QED BY <1>5, <1>6, <1>7

LEMMA CommitKeepsType ==
    ASSUME IInv, NEW w \in Worker, Commit(w)
    PROVE  TypeOK'
<1>1. job[w] \in Job /\ JobIsSound(w)
  BY DEF IInv, TypeOK, JobsAreSound, Commit
<1>2. dataset' \in Dataset
  BY <1>1 DEF Commit, IInv, TypeOK, Job
<1>3. contract' \in Sensitivity
  BY <1>1 DEF Commit, IInv, TypeOK, Job
<1>4. record' \in [Record -> PreservationRecord \cup {None}]
  BY <1>1 DEF Commit, IInv, TypeOK, Job
<1>5. copies' \subseteq Copy
  BY <1>1 DEF Commit, IInv, TypeOK, Job, PreservationRecord
<1>6. End(w)
  BY DEF Commit
<1>7. used' \in 0..MaxRequests
  BY <1>6 DEF End, IInv, TypeOK
<1> QED BY <1>2, <1>3, <1>4, <1>5, <1>6, <1>7, EndKeepsOthers DEF IInv, TypeOK

\* When a request saves the row, no other has locked it.
LEMMA CommitsInTurn ==
    ASSUME IInv, NEW w \in Worker, Commit(w), NEW v \in Worker, v # w,
           job[v] # None, job[v].kind \in LockedKind
    PROVE  UNCHANGED << dataset, record >>
<1>1. owner = v
  BY DEF IInv, JobsAreSound, JobIsSound
<1>2. job[w] # None /\ (job[w].dataset # None => owner \in {w, None})
  BY DEF Commit
<1>3. job[w].dataset = None
  BY <1>1, <1>2, NoneIsNothing
<1>4. job[w].record = None
  BY <1>2, <1>3 DEF IInv, JobsAreSound, JobIsSound
<1> QED BY <1>3, <1>4 DEF Commit

LEMMA EndKeepsSoundness ==
    ASSUME IInv, NEW w \in Worker, End(w), NEW v \in Worker, job'[v] # None,
           job[v].kind \in LockedKind => UNCHANGED << dataset, record >>
    PROVE  JobIsSound(v)'
<1>1. /\ v # w /\ job[v] # None
      /\ job'[v].kind = job[v].kind /\ job'[v].user = job[v].user
      /\ job'[v].dataset = job[v].dataset /\ job'[v].id = job[v].id
      /\ job'[v].record = job[v].record
      /\ owner = v => owner' = v
  BY EndKeepsOthers DEF IInv
<1>2. JobIsSound(v)
  BY <1>1 DEF IInv, JobsAreSound
<1>3. CASE job[v].kind \in LockedKind
  <2>1. UNCHANGED << dataset, record >>
    BY <1>3
  <2>2. IsRunning' = IsRunning
    BY <2>1 DEF IsRunning, PreservationOf
  <2>3. KeepsOrigin(job[v].dataset, job[v].id, job[v].record)'
    BY <1>1, <1>2, <1>3, <2>1 DEF JobIsSound, KeepsOrigin, PreservationOf
  <2> QED BY <1>1, <1>2, <1>3, <2>2, <2>3, Zenon DEF JobIsSound, LockedKind
<1>4. CASE job[v].kind \notin LockedKind
  BY <1>1, <1>2, <1>4 DEF JobIsSound
<1> QED BY <1>3, <1>4

LEMMA CommitKeepsIInv ==
    ASSUME IInv, NEW w \in Worker, Commit(w)
    PROVE  IInv'
<1>1. End(w)
  BY DEF Commit
<1>2. ASSUME NEW v \in Worker, job'[v] # None PROVE JobIsSound(v)'
  <2>1. v # w /\ job[v] # None
    BY <1>1, <1>2, EndKeepsOthers DEF IInv
  <2> QED BY <1>1, <1>2, <2>1, CommitsInTurn, EndKeepsSoundness
<1> QED BY <1>2, CommitKeepsType DEF IInv, JobsAreSound

LEMMA FailKeepsIInv ==
    ASSUME IInv, NEW w \in Worker, Fail(w)
    PROVE  IInv'
<1>1. End(w) /\ UNCHANGED << dataset, record, copies, contract >>
  BY DEF Fail, data
<1>2. TypeOK'
  BY <1>1, EndKeepsOthers DEF IInv, TypeOK, End
<1>3. ASSUME NEW v \in Worker, job'[v] # None PROVE JobIsSound(v)'
  BY <1>1, <1>3, EndKeepsSoundness
<1> QED BY <1>2, <1>3 DEF IInv, JobsAreSound

LEMMA NextKeepsIInv == IInv /\ [Next]_vars => IInv'
<1> SUFFICES ASSUME IInv, [Next]_vars PROVE IInv' OBVIOUS
<1>1. CASE Next
  <2>1. PICK w \in Worker :
            \/ \E user \in User : Edit(w, user) \/ Replace(w, user)
                                  \/ SetPreservation(w, user) \/ RemovePreservation(w, user)
            \/ Describe(w)
            \/ CreatePreservationVersion(w)
            \/ \E kind \in {"merge", "delete file"} : ReadUnlocked(w, kind)
            \/ ChangeContract(w)
            \/ Commit(w)
            \/ Fail(w)
    BY <1>1, Zenon DEF Next
  <2>2. ASSUME NEW user \in User, Edit(w, user) PROVE LocksWell(w)
    BY <2>2, EditLocksWell DEF IInv
  <2>3. ASSUME NEW user \in User, Replace(w, user) PROVE LocksWell(w)
    BY <2>3, ReplaceLocksWell DEF IInv
  <2>4. ASSUME NEW user \in User, SetPreservation(w, user) PROVE LocksWell(w)
    BY <2>4, SetPreservationLocksWell DEF IInv
  <2>5. ASSUME NEW user \in User, RemovePreservation(w, user) PROVE LocksWell(w)
    BY <2>5, RemovePreservationLocksWell DEF IInv
  <2>6. CASE Describe(w)
    BY <2>6, DescribeLocksWell, LockKeepsIInv DEF IInv
  <2>7. CASE CreatePreservationVersion(w)
    BY <2>7, CreateLocksWell, LockKeepsIInv DEF IInv
  <2> QED BY <2>1, <2>2, <2>3, <2>4, <2>5, <2>6, <2>7, LockKeepsIInv, ReadUnlockedKeepsIInv,
             ChangeContractKeepsIInv, CommitKeepsIInv, FailKeepsIInv, Zenon
<1>2. CASE UNCHANGED vars
  <2>1. UNCHANGED << dataset, record, copies, contract, owner, job, used >>
    BY <1>2 DEF vars, data
  <2> QED BY <2>1 DEF IInv, TypeOK, JobsAreSound, JobIsSound, KeepsOrigin, IsRunning, PreservationOf
<1> QED BY <1>1, <1>2

\* Requests that hold the row stay sound until they commit or fail.
THEOREM Invariance == Spec => []IInv
BY InitIsGood, NextKeepsIInv, PTL DEF Spec

-----------------------------------------------------------------------------
(* What follows. *)

\* Every request but one that ends leaves the data alone.
LEMMA OnlyCommitsChange ==
    ASSUME [Next]_vars, ~\E w \in Worker : Commit(w)
    PROVE  UNCHANGED << dataset, record, copies, contract >>
<1>1. CASE UNCHANGED vars
  BY <1>1 DEF vars, data
<1>2. CASE Next
  <2>1. PICK w \in Worker :
            \/ \E user \in User : Edit(w, user) \/ Replace(w, user)
                                  \/ SetPreservation(w, user) \/ RemovePreservation(w, user)
            \/ Describe(w)
            \/ CreatePreservationVersion(w)
            \/ \E kind \in {"merge", "delete file"} : ReadUnlocked(w, kind)
            \/ ChangeContract(w)
            \/ Fail(w)
    BY <1>2, Zenon DEF Next
  <2>2. UNCHANGED data
    BY <2>1, Zenon DEF Edit, Replace, SetPreservation, RemovePreservation, Describe,
                CreatePreservationVersion, ReadUnlocked, ChangeContract, Fail, LockAndRead, Start
  <2> QED BY <2>2 DEF data
<1> QED BY <1>1, <1>2

\* While PAS works on a dataset, only PAS, merges and deprecations change it
\* (Dataset.get_lock_reason under Dataset.lock_for_update).
THEOREM LeftAloneCorrect == Spec => LeftAloneWhileRunning
<1>1. ASSUME IInv, [Next]_vars, IsRunning, << dataset', record' >> # << dataset, record >>
      PROVE  SavesRowReadUnlocked \/ \E w \in Worker : Commits(w, Kind) /\ job[w].user = "pas"
  <2>1. PICK w \in Worker : Commit(w)
    BY <1>1, OnlyCommitsChange
  <2>2. job[w] # None /\ job[w] \in Job /\ JobIsSound(w)
    BY <1>1, <2>1 DEF Commit, IInv, TypeOK, JobsAreSound
  <2>3. job[w].kind \in Kind
    BY <2>2 DEF Job
  <2>4. CASE job[w].kind \in {"merge", "delete file"}
    BY <2>1, <2>2, <2>4, Zenon DEF SavesRowReadUnlocked, Commits
  <2>5. CASE job[w].kind = "contract"
    BY <1>1, <2>1, <2>2, <2>5 DEF JobIsSound, Commit
  <2>6. CASE job[w].kind \in LockedKind
    <3>1. job[w].user = "pas"
      BY <1>1, <2>2, <2>6 DEF JobIsSound
    <3> QED BY <2>1, <2>2, <2>3, <3>1 DEF Commits
  <2> QED BY <2>3, <2>4, <2>5, <2>6, Zenon DEF Kind, LockedKind
<1>2. IInv /\ [Next]_vars =>
          [IsRunning /\ << dataset', record' >> # << dataset, record >> =>
               \/ SavesRowReadUnlocked
               \/ \E w \in Worker : Commits(w, Kind) /\ job[w].user = "pas"]_vars
  BY <1>1
<1> QED BY <1>2, Invariance, PTL DEF Spec, LeftAloneWhileRunning

\* However requests overlap, PAS versions are made once per record and stay
\* with it, until a merge or a deprecation sets back the dataset
\* (Dataset.create_preservation_version, DatasetNestedOneToOneView.perform_save).
THEOREM OriginStaysCorrect == Spec => OriginStaysKnown
<1>1. ASSUME IInv, [Next]_vars, OriginIsKnown, ~SavesRowReadUnlocked
      PROVE  OriginIsKnown'
  <2>1. CASE ~\E w \in Worker : Commit(w)
    BY <1>1, <2>1, OnlyCommitsChange DEF OriginIsKnown
  <2>2. ASSUME NEW w \in Worker, Commit(w) PROVE OriginIsKnown'
    <3> DEFINE j == job[w]
    <3>1. j # None /\ j \in Job /\ JobIsSound(w)
      BY <1>1, <2>2 DEF Commit, IInv, TypeOK, JobsAreSound
    <3>2. j.kind \in Kind /\ j.kind \notin {"merge", "delete file"}
      BY <1>1, <2>2, <3>1, Zenon DEF Job, SavesRowReadUnlocked, Commits
    <3>3. CASE j.kind = "contract"
      BY <1>1, <2>2, <3>1, <3>3 DEF JobIsSound, Commit, OriginIsKnown
    <3>4. CASE j.kind \in LockedKind
      <4>1. KeepsOrigin(j.dataset, j.id, j.record) /\ dataset' = j.dataset
        BY <2>2, <3>1, <3>4, Zenon DEF JobIsSound, LockedKind, Commit
      <4>2. CASE j.record = None
        <5>1. record' = record /\ copies' = copies /\ dataset'.preservation = dataset.preservation
          BY <2>2, <4>1, <4>2 DEF Commit, KeepsOrigin
        <5> QED BY <1>1, <5>1 DEF OriginIsKnown
      <4>3. CASE j.record # None
        <5>1. /\ record' = [record EXCEPT ![j.id] = j.record]
              /\ copies' = copies \cup ({j.record.version} \ {None})
          BY <2>2, <4>3 DEF Commit
        <5>2. j.id \in Record /\ record'[j.id] = j.record
          BY <1>1, <4>1, <4>3, <5>1 DEF KeepsOrigin, IInv, TypeOK
        <5>3. j.record.version # None => j.id = dataset'.preservation \/ record'[j.id].removed
          BY <4>1, <4>3, <5>2 DEF KeepsOrigin
        <5>4. ASSUME NEW c \in copies'
              PROVE  \E p \in Record : /\ record'[p] # None /\ record'[p].version = c
                                       /\ p = dataset'.preservation \/ record'[p].removed
          <6>1. CASE c = j.record.version /\ c # None
            BY <4>3, <5>2, <5>3, <6>1
          <6>2. CASE ~(c = j.record.version /\ c # None)
            <7>1. c \in copies
              BY <5>1, <5>4, <6>2
            <7>2. PICK p \in Record : /\ record[p] # None /\ record[p].version = c
                                      /\ p = dataset.preservation \/ record[p].removed
              BY <1>1, <7>1 DEF OriginIsKnown
            <7>3. c # None
              BY <1>1, <7>1, NoneIsNothing DEF IInv, TypeOK
            <7>4. p # j.id
              BY <4>1, <4>3, <6>2, <7>2, <7>3 DEF KeepsOrigin
            <7>5. record'[p] = record[p]
              BY <1>1, <5>1, <7>4 DEF IInv, TypeOK
            <7>6. p = dataset.preservation => p = dataset'.preservation \/ record[p].removed
              BY <4>1, <4>3, <7>2, <7>4, NoneIsNothing DEF KeepsOrigin, PreservationOf
            <7> QED BY <7>2, <7>5, <7>6
          <6> QED BY <6>1, <6>2
        <5> QED BY <5>4 DEF OriginIsKnown
      <4> QED BY <4>2, <4>3
    <3> QED BY <3>2, <3>3, <3>4, Zenon DEF Kind, LockedKind
  <2> QED BY <2>1, <2>2
<1>2. IInv /\ [Next]_vars => [OriginIsKnown => OriginIsKnown' \/ SavesRowReadUnlocked]_vars
  BY <1>1
<1> QED BY <1>2, Invariance, PTL DEF Spec, OriginStaysKnown

-----------------------------------------------------------------------------
(* The contract. *)

\* A contract covers the sensitivity of a dataset with one of some records.
Covers(d, records, c) ==
    LET p == IF d.preservation = None THEN None ELSE records[d.preservation]
        s == d.sensitivity
    IN s.sensitive => /\ p # None /\ p.contract
                      /\ c.sensitive
                      /\ s.rationales \subseteq c.rationales

LEMMA CoversIsCovered == ContractCoversDataset <=> Covers(dataset, record, contract)
BY DEF ContractCoversDataset, IsCovered, PreservationOf, Covers

Saved(new, old) == IF new = None THEN old ELSE new

SavedRecords(id, p) == IF p = None THEN record ELSE [record EXCEPT ![id] = p]

\* What is going to be saved leaves the dataset covered.
KeepsCover(d, id, p, c) ==
    Covers(dataset, record, contract) =>
        Covers(Saved(d, dataset), SavedRecords(id, p), Saved(c, contract))

\* What a request has validated is still so while no other request commits.
JobKeepsCover(w) ==
    \/ job[w].overlapped
    \/ job[w].kind \in {"merge", "delete file", "preservation", "replace"}
    \/ KeepsCover(job[w].dataset, job[w].id, job[w].record, job[w].contract)

JobsKeepCover == \A w \in Worker : job[w] # None => JobKeepsCover(w)

LEMMA SameDataKeepCover ==
    ASSUME UNCHANGED data, NEW d, NEW id, NEW p, NEW c, KeepsCover(d, id, p, c)
    PROVE  KeepsCover(d, id, p, c)'
BY DEF data, KeepsCover, Saved, SavedRecords

LEMMA StartKeepsCover ==
    ASSUME TypeOK, JobsKeepCover, NEW w \in Worker,
           NEW kind, NEW user, NEW d, NEW id, NEW p, NEW c,
           Start(w, kind, user, d, id, p, c),
           \/ kind \in {"merge", "delete file", "preservation", "replace"}
           \/ KeepsCover(d, id, p, c)
    PROVE  JobsKeepCover'
<1> SUFFICES ASSUME NEW v \in Worker, job'[v] # None PROVE JobKeepsCover(v)'
  BY Zenon DEF JobsKeepCover
<1>1. UNCHANGED data
  BY Zenon DEF Start
<1>2. CASE v = w
  <2>1. /\ job'[v].kind = kind /\ job'[v].dataset = d /\ job'[v].id = id
        /\ job'[v].record = p /\ job'[v].contract = c
    <3>1. /\ job'[w].kind = kind /\ job'[w].dataset = d /\ job'[w].id = id
          /\ job'[w].record = p
      BY StartedJob, ZenonT(60)
    <3>2. job'[w].contract = c
      BY Zenon DEF Start, TypeOK
    <3> QED BY <1>2, <3>1, <3>2, Zenon
  <2>2. CASE KeepsCover(d, id, p, c)
    <3>1. KeepsCover(d, id, p, c)'
      BY <1>1, <2>2, SameDataKeepCover
    <3>2. KeepsCover(job[v].dataset, job[v].id, job[v].record, job[v].contract)'
      BY <2>1, <3>1, Zenon DEF KeepsCover, Saved, SavedRecords
    <3> QED BY <3>2, Zenon DEF JobKeepsCover
  <2>3. CASE kind \in {"merge", "delete file", "preservation", "replace"}
    BY <2>1, <2>3, Zenon DEF JobKeepsCover
  <2> QED BY <2>2, <2>3, Zenon
<1>3. CASE v # w
  <2>1. job'[v] = job[v] /\ JobKeepsCover(v)
    BY <1>3, Zenon DEF Start, TypeOK, JobsKeepCover
  <2> PICK j : j = job[v] BY Zenon
  <2>2. KeepsCover(j.dataset, j.id, j.record, j.contract)
            => KeepsCover(j.dataset, j.id, j.record, j.contract)'
    BY <1>1, SameDataKeepCover, Zenon
  <2> QED BY <2>1, <2>2, Zenon DEF JobKeepsCover, KeepsCover, Saved, SavedRecords
<1> QED BY <1>2, <1>3, Zenon

\* Requests that are served while another one commits are marked.
LEMMA EndKeepsCover ==
    ASSUME TypeOK, JobsKeepCover, NEW w \in Worker, End(w)
    PROVE  JobsKeepCover'
<1> SUFFICES ASSUME NEW v \in Worker, job'[v] # None PROVE JobKeepsCover(v)'
  BY DEF JobsKeepCover
<1> DEFINE changed == data' # data
<1>1. job[v] # None /\ job[v] \in Job /\ job'[v] = [job[v] EXCEPT !.overlapped = @ \/ changed]
  BY DEF End, TypeOK
<1>2. changed \in BOOLEAN /\ JobKeepsCover(v)
  BY <1>1 DEF JobsKeepCover
<1> HIDE DEF changed
<1>3. /\ job'[v].kind = job[v].kind /\ job'[v].dataset = job[v].dataset
      /\ job'[v].id = job[v].id /\ job'[v].record = job[v].record
      /\ job'[v].contract = job[v].contract
  BY <1>1 DEF Job
<1>4. job'[v].overlapped = (job[v].overlapped \/ changed)
  BY <1>1 DEF Job
<1>5. CASE changed
  BY <1>4, <1>5, Zenon DEF JobKeepsCover
<1>6. CASE ~changed
  <2>1. UNCHANGED data
    BY <1>6 DEF changed
  <2> PICK j : j = job[v] OBVIOUS
  <2>2. KeepsCover(j.dataset, j.id, j.record, j.contract)
            => KeepsCover(j.dataset, j.id, j.record, j.contract)'
    BY <2>1, SameDataKeepCover
  <2> QED BY <1>2, <1>3, <1>4, <1>6, <2>2, Zenon DEF JobKeepsCover, KeepsCover, Saved, SavedRecords
<1> QED BY <1>5, <1>6

\* Whoever sets the sensitivity, and maybe the record, has validated the two.
LEMMA DescribedIsCovered ==
    ASSUME TypeOK, NEW s \in Sensitivity, NEW d \in Dataset, NEW id, NEW p,
           d.sensitivity = s,
           \/ /\ p = None /\ d.preservation = dataset.preservation
              /\ IsCovered(s, PreservationOf(dataset))
           \/ p # None /\ id \in Record /\ d.preservation = id /\ IsCovered(s, p)
    PROVE  KeepsCover(d, id, p, None)
<1>1. Saved(d, dataset) = d /\ Saved(None, contract) = contract
  BY NoneIsNothing DEF Saved
<1>2. CASE p = None
  <2>1. SavedRecords(id, p) = record
    BY <1>2 DEF SavedRecords
  <2> QED BY <1>1, <1>2, <2>1, NoneIsNothing DEF KeepsCover, Covers, IsCovered, PreservationOf
<1>3. CASE p # None
  <2>1. SavedRecords(id, p) = [record EXCEPT ![id] = p] /\ d.preservation = id /\ id # None
    BY <1>3, NoneIsNothing DEF SavedRecords
  <2>2. SavedRecords(id, p)[id] = p
    BY <1>3, <2>1 DEF TypeOK
  <2> QED BY <1>1, <1>3, <2>1, <2>2 DEF KeepsCover, Covers, IsCovered
<1> QED BY <1>2, <1>3

\* Whoever keeps the sensitivity and what the record says of the contract.
LEMMA SameContractIsCovered ==
    ASSUME TypeOK, NEW d \in Dataset, NEW id, NEW p,
           d.sensitivity = dataset.sensitivity, d.preservation = dataset.preservation,
           p # None => id \in Record /\ id = dataset.preservation
                       /\ record[id] # None /\ p.contract = record[id].contract
    PROVE  KeepsCover(d, id, p, None)
<1>1. Saved(d, dataset) = d /\ Saved(None, contract) = contract
  BY NoneIsNothing DEF Saved
<1>2. CASE p = None
  BY <1>1, <1>2 DEF KeepsCover, Covers, SavedRecords
<1>3. CASE p # None
  <2>1. SavedRecords(id, p)[id] = p
    BY <1>3 DEF SavedRecords, TypeOK
  <2> QED BY <1>1, <1>3, <2>1, NoneIsNothing DEF KeepsCover, Covers
<1> QED BY <1>2, <1>3

LEMMA SuitableContractCovers ==
    ASSUME TypeOK, NEW c \in Sensitivity, SuitsDatasets(c)
    PROVE  KeepsCover(None, None, None, c)
<1>1. Saved(None, dataset) = dataset /\ SavedRecords(None, None) = record
  BY DEF Saved, SavedRecords
<1>2. CASE c = None
  BY <1>1, <1>2 DEF KeepsCover, Saved
<1>3. CASE c # None
  BY <1>1, <1>3 DEF KeepsCover, Saved, Covers, SuitsDatasets, PreservationOf
<1> QED BY <1>2, <1>3

LEMMA CoverStep == IInv /\ JobsKeepCover /\ [Next]_vars => JobsKeepCover'
<1> SUFFICES ASSUME IInv, JobsKeepCover, [Next]_vars PROVE JobsKeepCover'
  OBVIOUS
<1>0. TypeOK
  BY DEF IInv
<1>1. ASSUME NEW w \in Worker, NEW user \in User, Edit(w, user) PROVE JobsKeepCover'
  <2> DEFINE d == [dataset EXCEPT !.content = ~@]
  <2>1. /\ d \in Dataset /\ d.sensitivity = dataset.sensitivity
        /\ d.preservation = dataset.preservation
    BY <1>0, Zenon DEF TypeOK, Dataset
  <2>2. Start(w, "edit", user, d, None, None, None)
    BY <1>1 DEF Edit, LockAndRead
  <2> HIDE DEF d
  <2>3. KeepsCover(d, None, None, None)
    BY <1>0, <2>1, SameContractIsCovered
  <2> QED BY <1>0, <2>2, <2>3, StartKeepsCover, Zenon
<1>2. ASSUME NEW w \in Worker, NEW user \in User, Replace(w, user) PROVE JobsKeepCover'
  <2>1. PICK d, id, p : Start(w, "replace", user, d, id, p, None)
    BY <1>2 DEF Replace, LockAndRead
  <2> QED BY <1>0, <2>1, StartKeepsCover, Zenon
<1>3. ASSUME NEW w \in Worker, NEW user \in User, SetPreservation(w, user) PROVE JobsKeepCover'
  <2>1. PICK d, id, p : Start(w, "preservation", user, d, id, p, None)
    BY <1>3 DEF SetPreservation, LockAndRead
  <2> QED BY <1>0, <2>1, StartKeepsCover, Zenon
<1>4. ASSUME NEW w \in Worker, NEW user \in User, RemovePreservation(w, user)
      PROVE  JobsKeepCover'
  <2> DEFINE p == [AvailablePreservation EXCEPT !.removed = TRUE]
  <2>1. AvailablePreservation = PreservationOf(dataset) /\ PreservationOf(dataset) # None
    BY <1>4, Zenon DEF RemovePreservation, AvailablePreservation
  <2>2. /\ dataset.preservation \in Record
        /\ record[dataset.preservation] # None
        /\ p.contract = record[dataset.preservation].contract
    BY <1>0, <2>1, RecordIsTyped DEF PreservationRecord
  <2>3. Start(w, "remove preservation", user, dataset, dataset.preservation, p, None)
    BY <1>4, Zenon DEF RemovePreservation, LockAndRead
  <2> HIDE DEF p
  <2>4. KeepsCover(dataset, dataset.preservation, p, None)
    BY <1>0, <2>2, SameContractIsCovered DEF TypeOK
  <2> QED BY <1>0, <2>3, <2>4, StartKeepsCover, Zenon
<1>5. ASSUME NEW w \in Worker, CreatePreservationVersion(w) PROVE JobsKeepCover'
  <2>1. PICK c \in Copy :
            Start(w, "preserve", "pas", dataset, dataset.preservation,
                  [PreservationOf(dataset) EXCEPT !.version = c, !.state = "NONE"], None)
    BY <1>5, Zenon DEF CreatePreservationVersion, LockAndRead
  <2> DEFINE p == [PreservationOf(dataset) EXCEPT !.version = c, !.state = "NONE"]
  <2>2. PreservationOf(dataset) # None
    BY <1>5 DEF CreatePreservationVersion
  <2>3. /\ dataset.preservation \in Record
        /\ record[dataset.preservation] # None
        /\ p.contract = record[dataset.preservation].contract
    BY <1>0, <2>2, RecordIsTyped DEF PreservationRecord
  <2>4. Start(w, "preserve", "pas", dataset, dataset.preservation, p, None)
    BY <2>1
  <2> HIDE DEF p
  <2>5. KeepsCover(dataset, dataset.preservation, p, None)
    BY <1>0, <2>3, SameContractIsCovered DEF TypeOK
  <2> QED BY <1>0, <2>4, <2>5, StartKeepsCover, Zenon
<1>6. ASSUME NEW w \in Worker, Describe(w) PROVE JobsKeepCover'
  <2> DEFINE old == PreservationOf(dataset)
  <2>1. PICK s \in Sensitivity :
            \/ /\ IsCovered(s, old)
               /\ LockAndRead(w, "describe", "pas", [dataset EXCEPT !.sensitivity = s], None, None)
            \/ \E v \in Given(old), id \in IdOf(old) :
                   /\ IsCovered(s, v)
                   /\ LockAndRead(w, "describe", "pas",
                                  [dataset EXCEPT !.sensitivity = s, !.preservation = id], id, v)
    BY <1>6, Zenon DEF Describe
  <2>2. CASE /\ IsCovered(s, old)
             /\ LockAndRead(w, "describe", "pas", [dataset EXCEPT !.sensitivity = s], None, None)
    <3> DEFINE d == [dataset EXCEPT !.sensitivity = s]
    <3>1. d \in Dataset /\ d.sensitivity = s /\ d.preservation = dataset.preservation
      BY <1>0 DEF TypeOK, Dataset
    <3>2. Start(w, "describe", "pas", d, None, None, None)
      BY <2>2 DEF LockAndRead
    <3> HIDE DEF d
    <3>3. KeepsCover(d, None, None, None)
      BY <1>0, <2>2, <3>1, DescribedIsCovered
    <3> QED BY <1>0, <3>2, <3>3, StartKeepsCover, Zenon
  <2>3. ASSUME NEW v \in Given(old), NEW id \in IdOf(old), IsCovered(s, v),
               LockAndRead(w, "describe", "pas",
                           [dataset EXCEPT !.sensitivity = s, !.preservation = id], id, v)
        PROVE  JobsKeepCover'
    <3> DEFINE d == [dataset EXCEPT !.sensitivity = s, !.preservation = id]
    <3>1. d.sensitivity = s /\ d.preservation = id
      BY <1>0 DEF TypeOK, Dataset
    <3>2. Start(w, "describe", "pas", d, id, v, None)
      BY <2>3 DEF LockAndRead
    <3> HIDE DEF d, old
    <3>3. v \in PreservationRecord /\ id \in Record
      BY <1>0, <3>1, GivenKeepsOrigin DEF old
    <3>4. d \in Dataset
      BY <1>0, <3>3, Zenon DEF d, TypeOK, Dataset
    <3>5. KeepsCover(d, id, v, None)
      BY <1>0, <2>3, <3>1, <3>3, <3>4, NoneIsNothing, DescribedIsCovered
    <3> QED BY <1>0, <3>2, <3>5, StartKeepsCover, Zenon
  <2> QED BY <2>1, <2>2, <2>3, Zenon
<1>7. ASSUME NEW w \in Worker, NEW kind \in {"merge", "delete file"}, ReadUnlocked(w, kind)
      PROVE  JobsKeepCover'
  <2>1. PICK d : Start(w, kind, "user", d, None, None, None)
    BY <1>7, Zenon DEF ReadUnlocked
  <2> QED BY <1>0, <2>1, StartKeepsCover, Zenon
<1>8. ASSUME NEW w \in Worker, ChangeContract(w) PROVE JobsKeepCover'
  <2>1. PICK c \in Sensitivity :
            SuitsDatasets(c) /\ Start(w, "contract", "pas", None, None, None, c)
    BY <1>8 DEF ChangeContract
  <2>2. KeepsCover(None, None, None, c)
    BY <1>0, <2>1, SuitableContractCovers
  <2> QED BY <1>0, <2>1, <2>2, StartKeepsCover, Zenon
<1>9. ASSUME NEW w \in Worker, Commit(w) \/ Fail(w) PROVE JobsKeepCover'
  BY <1>0, <1>9, EndKeepsCover DEF Commit, Fail
<1>10. CASE UNCHANGED vars
  <2> SUFFICES ASSUME NEW v \in Worker, job'[v] # None PROVE JobKeepsCover(v)'
    BY DEF JobsKeepCover
  <2>1. UNCHANGED data /\ job' = job /\ JobKeepsCover(v)
    BY <1>10 DEF vars, JobsKeepCover
  <2> PICK j : j = job[v] OBVIOUS
  <2>2. KeepsCover(j.dataset, j.id, j.record, j.contract)
            => KeepsCover(j.dataset, j.id, j.record, j.contract)'
    BY <2>1, SameDataKeepCover
  <2> QED BY <2>1, <2>2, Zenon DEF JobKeepsCover, KeepsCover, Saved, SavedRecords
<1> QED BY <1>1, <1>2, <1>3, <1>4, <1>5, <1>6, <1>7, <1>8, <1>9, <1>10, Zenon DEF Next

\* What a request saves is what it has validated, if no other has committed.
LEMMA CommitIsCovered ==
    ASSUME IInv, JobsKeepCover, NEW w \in Worker, Commit(w), ~job[w].overlapped,
           job[w].kind \notin {"merge", "delete file", "preservation", "replace"},
           ContractCoversDataset
    PROVE  ContractCoversDataset'
<1>1. KeepsCover(job[w].dataset, job[w].id, job[w].record, job[w].contract)
  BY Zenon DEF JobsKeepCover, JobKeepsCover, Commit
<1>2. /\ dataset' = Saved(job[w].dataset, dataset)
      /\ record' = SavedRecords(job[w].id, job[w].record)
      /\ contract' = Saved(job[w].contract, contract)
  BY Zenon DEF Commit, Saved, SavedRecords
<1>3. Covers(dataset', record', contract')
  BY <1>1, <1>2, CoversIsCovered, Zenon DEF KeepsCover
<1> QED BY <1>3, Zenon DEF Covers, ContractCoversDataset, IsCovered, PreservationOf

\* Requests that do not overlap leave a sensitive dataset with a contract that
\* covers it (Contract.validate_datasets, DatasetSerializer.validate_sensitivity).
THEOREM ContractStaysCorrect == Spec => ContractStaysCovering
<1> DEFINE Excepted ==
        \/ SavesRowReadUnlocked
        \/ \E w \in Worker : \/ Commits(w, {"preservation", "replace"})
                             \/ Commits(w, Kind) /\ job[w].overlapped
<1>1. ASSUME IInv, JobsKeepCover, [Next]_vars, ContractCoversDataset
      PROVE  ContractCoversDataset' \/ Excepted
  <2>1. ASSUME NEW w \in Worker, Commit(w) PROVE ContractCoversDataset' \/ Excepted
    <3>1. job[w] # None /\ job[w].kind \in Kind
      BY <1>1, <2>1 DEF Commit, IInv, TypeOK, Job
    <3>2. CASE job[w].overlapped
      BY <2>1, <3>1, <3>2 DEF Commits
    <3>3. CASE job[w].kind \in {"merge", "delete file", "preservation", "replace"}
      BY <2>1, <3>1, <3>3, Zenon DEF Commits, SavesRowReadUnlocked
    <3> QED BY <1>1, <2>1, <3>2, <3>3, CommitIsCovered, Zenon
  <2>2. CASE ~\E w \in Worker : Commit(w)
    <3>1. UNCHANGED << dataset, record, contract >>
      BY <1>1, <2>2, OnlyCommitsChange
    <3> QED BY <1>1, <3>1 DEF ContractCoversDataset, IsCovered, PreservationOf
  <2> QED BY <2>1, <2>2
<1>2. Init => JobsKeepCover
  BY DEF Init, JobsKeepCover
<1>3. IInv /\ JobsKeepCover /\ [Next]_vars =>
          [ContractCoversDataset =>
               \/ ContractCoversDataset'
               \/ SavesRowReadUnlocked
               \/ \E w \in Worker : \/ Commits(w, {"preservation", "replace"})
                                    \/ Commits(w, Kind) /\ job[w].overlapped]_vars
  BY <1>1
<1> QED BY <1>2, <1>3, CoverStep, Invariance, PTL DEF Spec, ContractStaysCovering
=============================================================================
