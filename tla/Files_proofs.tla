------------------------------ MODULE Files_proofs ------------------------------
(* What file records promise, for any files, identifiers, projects and         *)
(* requests at a time, and that files of datasets that are no longer public do *)
(* not stay published, for any datasets, tasks and workers. The two            *)
(* specifications, Spec and PublicationSpec, have the files in common and no   *)
(* variables.                                                                  *)
EXTENDS FileRecords, FilePublication, TLAPS

(***************************************************************************)
(*                              FILE RECORDS                               *)
(***************************************************************************)

-----------------------------------------------------------------------------
(* The invariant. *)

Live(r) == r # None /\ ~r.removed

\* How far a request has come.
StepFits(j) ==
    /\ j.step \in {"list", "apply"} => j.kind \in List
    /\ j.step = "lock" => j.kind \notin List
    /\ j.kind \in {"insert", "upsert"} => j.project \in Project
    /\ j.step \notin {"sync", "commit"} => DOMAIN j.writes = {}
    /\ DOMAIN j.writes \subseteq j.locks
    /\ \A f \in DOMAIN j.writes :
           IF j.kind \in List THEN ~Live(j.writes[f]) ELSE j.writes[f] # None

\* What a bulk request writes follows from what the record is when it commits.
Follows(f, new, change) ==
    row[f] # None =>
        /\ ~row[f].removed
        /\ new \in {[row[f] EXCEPT !.removed = TRUE], Changed(row[f], change)}
        /\ row[f].pas => change.user = "pas"

BulkFollows(j) ==
    j.kind \in Bulk => \A f \in DOMAIN j.writes : Follows(f, j.writes[f], j.change)

\* A record with the identifier has been committed behind the back of a request,
\* or by requests that did not see each other.
IsKnown(known, i, g) == Stored(g) /\ row[g].identifier = i => i \in known \cup overlapped

FoundIsKnown(found, seen, known) ==
    \A i \in DOMAIN found :
        /\ found[i] \in File /\ seen[found[i]] # None
        /\ \A k \in DOMAIN found : found[k] = found[i]
        /\ \A g \in File \ {found[i]} : IsKnown(known, seen[found[i]].identifier, g)

\* A request about one file that waits for its lock.
SingleIsKnown(j) ==
    j.kind \in Single /\ j.step = "lock" => FoundIsKnown(j.found, j.seen, j.unseen)

\* What is written is unique as far as IdentifiersAreUnique says.
IsUniqueWrite(writes, known, f) ==
    /\ \A g \in DOMAIN writes \ {f} :
           Live(writes[g]) /\ writes[g].identifier = writes[f].identifier =>
               writes[f].identifier \in overlapped /\ ~SameKey(writes[g], writes[f])
    /\ \A g \in File \ DOMAIN writes :
           /\ IsKnown(known, writes[f].identifier, g)
           /\ Stored(g) => ~SameKey(row[g], writes[f])

WritesAreUnique(j) ==
    \A f \in DOMAIN j.writes : Live(j.writes[f]) => IsUniqueWrite(j.writes, j.unseen, f)

Fits(j) == StepFits(j) /\ BulkFollows(j) /\ SingleIsKnown(j) /\ WritesAreUnique(j)

JobsFit == \A w \in Worker : job[w] # None => Fits(job[w])

\* Two requests lock no record and write no key that is the same.
Apart(i, j) ==
    /\ i.locks \cap j.locks = {}
    /\ \A f \in DOMAIN i.writes, g \in DOMAIN j.writes :
           Live(i.writes[f]) /\ Live(j.writes[g]) => ~SameKey(i.writes[f], j.writes[g])

JobsAreApart ==
    \A v, w \in Worker : v # w /\ job[v] # None /\ job[w] # None => Apart(job[v], job[w])

\* What Metax V2 has been told is what the request has written.
ToldIsWritten ==
    \A w \in Worker :
        job[w] # None /\ job[w].step = "commit" =>
            \A f \in DOMAIN Sent(job[w]) \ spared :
                f \in DOMAIN job[w].writes /\ v2[f] = Told(Sent(job[w])[f])

IsTold(f) ==
    \E w \in Worker : job[w] # None /\ job[w].step = "commit" /\ f \in DOMAIN Sent(job[w])

\* Metax V2 knows the record, or knows that it is not there.
IsInStep(f) == v2[f] = InStep(f) \/ (~Stored(f) /\ v2[f] # None /\ ~v2[f].stored)

InStepUnlessTold == \A f \in File : f \in adrift \cup spared \/ IsTold(f) \/ IsInStep(f)

IInv ==
    /\ TypeOK
    /\ JobsFit
    /\ JobsAreApart
    /\ IdentifiersAreUnique
    /\ ToldIsWritten
    /\ InStepUnlessTold

-----------------------------------------------------------------------------
(* Records and requests. *)

LEMMA RowTypes ==
    ASSUME TypeOK, NEW f \in File, row[f] # None
    PROVE  /\ row[f] \in Row
           /\ row[f].project \in Project /\ row[f].identifier \in Identifier
           /\ row[f].removed \in BOOLEAN /\ row[f].content \in 0..MaxRequests
           /\ row[f].pas \in BOOLEAN
<1>1. row[f] \in Row
  BY DEF TypeOK, Rows
<1> QED BY <1>1 DEF Row

LEMMA JobTypes ==
    ASSUME TypeOK, NEW w \in Worker, job[w] # None
    PROVE  /\ job[w] \in Job
           /\ job[w].change \in Change
           /\ job[w].project \in Project \cup {None}
           /\ job[w].found \in Partial(Identifier, File \cup {None})
           /\ job[w].seen \in Rows
           /\ job[w].todo \subseteq File /\ job[w].locks \subseteq File
           /\ job[w].writes \in Partial(File, Row \cup {None})
           /\ job[w].unseen \subseteq Identifier
           /\ job[w].step \in Steps
<1>1. job[w] \in Job
  BY DEF TypeOK
<1> QED BY <1>1 DEF Job

LEMMA Partials ==
    ASSUME NEW S, NEW T
    PROVE  /\ \A D \in SUBSET S : \A p \in [D -> T] : p \in Partial(S, T)
           /\ \A p \in Partial(S, T) :
                  /\ DOMAIN p \subseteq S /\ p \in [DOMAIN p -> T]
                  /\ \A x \in DOMAIN p : p[x] \in T
BY DEF Partial

LEMMA Nothing == [f \in {} |-> None] \in Partial(File, Row \cup {None})
                 /\ DOMAIN [f \in {} |-> None] = {}
<1>1. [f \in {} |-> None] \in [{} -> Row \cup {None}]
  OBVIOUS
<1> QED BY <1>1, Partials, Zenon

\* A change keeps what a record is about.
LEMMA ChangedRow ==
    ASSUME FileAssumption, NEW r \in Row, NEW change \in Change
    PROVE  /\ Changed(r, change) \in Row
           /\ Changed(r, change).project = r.project
           /\ Changed(r, change).identifier = r.identifier
           /\ Changed(r, change).removed = r.removed
<1>1. CASE change.user = "ida"
  <2>1. change.content \in 0..MaxRequests
    BY <1>1, FileAssumption DEF Change
  <2> QED BY <1>1, <2>1 DEF Changed, Row
<1>2. CASE change.user # "ida"
  <2>1. change.pas \in BOOLEAN
    BY <1>2 DEF Change
  <2> QED BY <1>2, <2>1 DEF Changed, Row
<1> QED BY <1>1, <1>2

LEMMA NewRow ==
    ASSUME FileAssumption, NEW p \in Project, NEW i \in Identifier, NEW change \in Change
    PROVE  /\ New(p, i, change) \in Row /\ New(p, i, change) # None
           /\ New(p, i, change).project = p
           /\ New(p, i, change).identifier = i
<1> DEFINE r == [project |-> p, identifier |-> i, removed |-> FALSE, content |-> 0, pas |-> FALSE]
<1>1. r \in Row
  BY FileAssumption DEF Row
<1>2. New(p, i, change) = Changed(r, change)
  BY DEF New
<1>3. r.project = p /\ r.identifier = i
  OBVIOUS
<1> HIDE DEF r
<1> QED BY <1>1, <1>2, <1>3, ChangedRow, NoneIsNoRecord

LEMMA RemovedRow ==
    ASSUME NEW r \in Row
    PROVE  /\ [r EXCEPT !.removed = TRUE] \in Row
           /\ [r EXCEPT !.removed = TRUE].removed
           /\ [r EXCEPT !.removed = TRUE] # None
<1>1. [r EXCEPT !.removed = TRUE] \in Row /\ [r EXCEPT !.removed = TRUE].removed
  BY Zenon DEF Row
<1> QED BY <1>1, NoneIsNoRecord, Zenon

LEMMA ToldTypes ==
    ASSUME NEW r \in Row
    PROVE  Told(r) \in Known /\ Told(r) # None /\ Told(r).stored = ~r.removed
<1>1. r.removed \in BOOLEAN /\ r.content \in 0..MaxRequests
  BY DEF Row
<1>2. Told(r) \in Known
  BY <1>1 DEF Told, Known
<1>3. Told(r).stored = ~r.removed
  BY DEF Told
<1> QED BY <1>2, <1>3, NoneIsNoRecord

LEMMA SentTypes ==
    ASSUME TypeOK, NEW w \in Worker, job[w] # None, StepFits(job[w])
    PROVE  /\ DOMAIN Sent(job[w]) \subseteq File
           /\ \A f \in DOMAIN Sent(job[w]) : Sent(job[w])[f] \in Row
           /\ job[w].kind \in List =>
                  \A f \in DOMAIN Sent(job[w]) : job[w].seen[f] # None /\ Sent(job[w])[f].removed
           /\ job[w].kind \notin List => Sent(job[w]) = job[w].writes
<1>1. CASE job[w].kind \in List
  <2>1. Sent(job[w]) = [f \in {g \in File : job[w].seen[g] # None} |->
                            [job[w].seen[f] EXCEPT !.removed = TRUE]]
    BY <1>1 DEF Sent
  <2>2. ASSUME NEW f \in File, job[w].seen[f] # None PROVE job[w].seen[f] \in Row
    BY <2>2, JobTypes DEF Rows
  <2> QED BY <1>1, <2>1, <2>2, RemovedRow
<1>2. CASE job[w].kind \notin List
  <2>1. Sent(job[w]) = job[w].writes
    BY <1>2 DEF Sent
  <2>2. \A f \in DOMAIN job[w].writes : f \in File /\ job[w].writes[f] \in Row
    BY <1>2, JobTypes, Partials DEF StepFits
  <2> QED BY <1>2, <2>1, <2>2
<1> QED BY <1>1, <1>2

LEMMA InitIsGood == Init => IInv
<1> SUFFICES ASSUME Init PROVE IInv
  OBVIOUS
<1>1. row \in Rows
  BY DEF Init, Rows
<1>2. v2 \in [File -> Known \cup {None}]
  <2>1. ASSUME NEW f \in File, row[f] # None PROVE InStep(f) \in Known
    <3>1. row[f] \in Row
      BY <1>1, <2>1 DEF Rows
    <3> QED BY <2>1, <3>1, ToldTypes DEF InStep
  <2>2. \A f \in File : InStep(f) \in Known \cup {None}
    BY <2>1 DEF InStep
  <2>3. v2 = [f \in File |-> InStep(f)]
    BY DEF Init
  <2> QED BY <2>2, <2>3
<1>3. TypeOK
  BY <1>1, <1>2, FileAssumption DEF Init, TypeOK
<1>4. JobsFit /\ JobsAreApart /\ ToldIsWritten
  BY DEF Init, JobsFit, JobsAreApart, ToldIsWritten
<1>5. IdentifiersAreUnique
  BY DEF Init, IdentifiersAreUnique
<1>6. InStepUnlessTold
  BY DEF Init, InStepUnlessTold, IsInStep
<1> QED BY <1>3, <1>4, <1>5, <1>6 DEF IInv

-----------------------------------------------------------------------------
(* Steps of a request before its end: the records stay as they are.            *)

\* A request that goes from one state to the next.
Goes(w, n) ==
    /\ n \in Job
    /\ Fits(n)
    /\ \A v \in Worker \ {w} : job[v] # None => Apart(n, job[v])
    /\ job' = [job EXCEPT ![w] = n]
    /\ row' = row /\ overlapped' = overlapped

LEMMA FitsStays ==
    ASSUME NEW j, Fits(j), row' = row, overlapped' = overlapped
    PROVE  Fits(j)'
BY DEF Fits, StepFits, BulkFollows, Follows, SingleIsKnown, FoundIsKnown,
       WritesAreUnique, IsUniqueWrite, IsKnown, Stored

LEMMA ApartIsSymmetric == ASSUME NEW i, NEW j, Apart(i, j) PROVE Apart(j, i)
BY DEF Apart, SameKey

LEMMA Frame ==
    ASSUME IInv, NEW w \in Worker, NEW n, Goes(w, n)
    PROVE  JobsFit' /\ JobsAreApart' /\ IdentifiersAreUnique'
<1>1. job \in [Worker -> Job \cup {None}]
  BY DEF IInv, TypeOK
<1>2. job'[w] = n /\ \A v \in Worker \ {w} : job'[v] = job[v]
  BY <1>1 DEF Goes
<1>3. JobsFit'
  <2> SUFFICES ASSUME NEW v \in Worker, job'[v] # None PROVE Fits(job[v])'
    BY DEF JobsFit
  <2>1. CASE v = w
    <3>1. Fits(n)'
      BY FitsStays DEF Goes
    <3>2. job'[v] = n
      BY <1>2, <2>1
    <3> QED BY <3>1, <3>2 DEF Fits, StepFits, BulkFollows, SingleIsKnown, WritesAreUnique
  <2>2. CASE v # w
    <3>1. job'[v] = job[v] /\ Fits(job[v])
      BY <1>2, <2>2 DEF IInv, JobsFit
    <3>2. PICK j : j = job[v]
      OBVIOUS
    <3>3. Fits(j)'
      BY <3>1, <3>2, FitsStays DEF Goes
    <3> QED BY <3>1, <3>2, <3>3 DEF Fits, StepFits, BulkFollows, SingleIsKnown, WritesAreUnique
  <2> QED BY <2>1, <2>2
<1>4. JobsAreApart'
  <2> SUFFICES ASSUME NEW u \in Worker, NEW v \in Worker, u # v, job'[u] # None, job'[v] # None
               PROVE  Apart(job'[u], job'[v])
    BY DEF JobsAreApart, Apart
  <2>1. CASE u # w /\ v # w
    BY <1>2, <2>1 DEF IInv, JobsAreApart
  <2>2. CASE u = w
    BY <1>2, <2>2 DEF Goes
  <2>3. CASE v = w
    BY <1>2, <2>3, ApartIsSymmetric DEF Goes
  <2> QED BY <2>1, <2>2, <2>3
<1>5. IdentifiersAreUnique'
  BY DEF IInv, IdentifiersAreUnique, Goes, Stored
<1> QED BY <1>3, <1>4, <1>5

\* A request that Metax V2 has not been told of.
LEMMA Untold ==
    ASSUME IInv, NEW w \in Worker, NEW n, n = None \/ n.step # "commit",
           job[w] = None \/ job[w].step # "commit", job' = [job EXCEPT ![w] = n],
           row' = row, v2' = v2, adrift' = adrift, spared' = spared
    PROVE  ToldIsWritten' /\ InStepUnlessTold'
<1>1. job \in [Worker -> Job \cup {None}]
  BY DEF IInv, TypeOK
<1>2. job'[w] = n /\ \A v \in Worker \ {w} : job'[v] = job[v]
  BY <1>1
<1>3. \A v \in Worker : job'[v] # None /\ job'[v].step = "commit" => job'[v] = job[v] /\ v # w
  BY <1>2
<1>4. \A v \in Worker : job[v] # None /\ job[v].step = "commit" => job'[v] = job[v]
  BY <1>2
<1>5. ToldIsWritten'
  <2> SUFFICES ASSUME NEW v \in Worker, job'[v] # None, job'[v].step = "commit",
                      NEW f \in DOMAIN Sent(job'[v]) \ spared
               PROVE  f \in DOMAIN job'[v].writes /\ v2[f] = Told(Sent(job'[v])[f])
    BY ZenonT(60) DEF ToldIsWritten, Sent, Told
  <2>1. job'[v] = job[v]
    BY <1>3
  <2> QED BY <2>1 DEF IInv, ToldIsWritten
<1>6. InStepUnlessTold'
  <2> SUFFICES ASSUME NEW f \in File PROVE (f \in adrift \cup spared \/ IsTold(f) \/ IsInStep(f))'
    BY DEF InStepUnlessTold
  <2>1. IsTold(f) => IsTold(f)'
    <3> SUFFICES ASSUME NEW v \in Worker, job[v] # None, job[v].step = "commit",
                        f \in DOMAIN Sent(job[v])
                 PROVE  IsTold(f)'
      BY DEF IsTold
    <3>1. job'[v] = job[v]
      BY <1>4
    <3> QED BY <3>1 DEF IsTold, Sent
  <2>2. IsInStep(f) => IsInStep(f)'
    BY DEF IsInStep, InStep, Stored
  <2> QED BY <2>1, <2>2 DEF IInv, InStepUnlessTold
<1> QED BY <1>5, <1>6

-----------------------------------------------------------------------------
(* Requests begin and take their locks.                                        *)

Received(w, n) ==
    /\ job[w] = None /\ n # None
    /\ n.step \in {"lock", "list"}
    /\ Goes(w, n)
    /\ UNCHANGED << v2, adrift, spared >>
    /\ requests < MaxRequests /\ requests' = requests + 1

LEMMA Receiving ==
    ASSUME IInv, NEW w \in Worker, NEW kind, NEW change \in Change, NEW ignore \in BOOLEAN,
           NEW project \in Project \cup {None},
           NEW found \in Partial(Identifier, File \cup {None}), NEW seen \in Rows,
           NEW todo \in SUBSET File, NEW step \in {"lock", "list"},
           Receive(w, NewJob(kind, change, ignore, project, found, seen, todo, step)),
           step = "list" <=> kind \in List,
           kind \in {"insert", "upsert"} => project \in Project,
           kind \in Single => FoundIsKnown(found, seen, {})
    PROVE  \E n : Received(w, n)
<1> DEFINE n == NewJob(kind, change, ignore, project, found, seen, todo, step)
<1>1. /\ n.kind = kind /\ n.project = project /\ n.change = change
      /\ n.found = found /\ n.seen = seen
      /\ n.locks = {} /\ n.unseen = {} /\ n.step = step
      /\ n.writes = [f \in {} |-> None]
  BY DEF NewJob
<1>2. n \in Job
  <2>1. kind \in Kinds
    BY <1>1 DEF Receive
  <2> QED BY <2>1, Nothing DEF NewJob, Job, Steps
<1>3. /\ job[w] = None /\ job' = [job EXCEPT ![w] = n] /\ row' = row /\ overlapped' = overlapped
      /\ UNCHANGED << v2, adrift, spared >>
      /\ requests < MaxRequests /\ requests' = requests + 1
  BY DEF Receive
<1> HIDE DEF n
<1>4. DOMAIN n.writes = {}
  BY <1>1, Nothing
<1>5. Fits(n)
  <2>1. StepFits(n)
    BY <1>1, <1>4 DEF StepFits
  <2>2. BulkFollows(n) /\ WritesAreUnique(n)
    BY <1>4 DEF BulkFollows, WritesAreUnique
  <2>3. SingleIsKnown(n)
    BY <1>1 DEF SingleIsKnown
  <2> QED BY <2>1, <2>2, <2>3 DEF Fits
<1>6. ASSUME NEW v \in Worker PROVE Apart(n, job[v])
  BY <1>1, <1>4 DEF Apart
<1>7. n # None
  BY <1>2, NoneIsNoRecord
<1> QED BY <1>1, <1>2, <1>3, <1>5, <1>6, <1>7, Zenon DEF Received, Goes

LEMMA ChangesAreChange ==
    ASSUME TypeOK, requests < MaxRequests, NEW kind, NEW change \in Changes(kind)
    PROVE  change \in Change
<1>1. requests + 1 \in 1..MaxRequests
  BY FileAssumption DEF TypeOK
<1> QED BY <1>1, Zenon DEF Changes, Change

LEMMA Begun == ASSUME IInv, NEW w \in Worker, Begin(w) PROVE \E n : Received(w, n)
<1>0. TypeOK /\ row \in Rows
  BY DEF IInv, TypeOK
<1> DEFINE Comes(kind, change) ==
          \/ /\ kind \in Bulk
             /\ \E ignore \in BOOLEAN, items \in SUBSET Identifier,
                   p \in IF kind \in {"insert", "upsert"} THEN Project ELSE {None} :
                    /\ items # {}
                    /\ ignore => Cardinality(items) > 1
                    /\ ReceiveBulk(w, kind, change, ignore, p, items)
          \/ kind \in Single /\ \E f \in File : ReceiveSingle(w, kind, change, f)
          \/ kind \in List /\ \E p \in Project : ReceiveList(w, kind, change, p)
<1>1. PICK kind \in Kinds : \E change \in Changes(kind) : Comes(kind, change)
  BY Zenon DEF Begin
<1>2. PICK change \in Changes(kind) : Comes(kind, change)
  BY <1>1, Zenon
<1>3. CASE kind \in Bulk
  <2>1. PICK ignore \in BOOLEAN, items \in SUBSET Identifier, p \in Project \cup {None} :
            /\ ReceiveBulk(w, kind, change, ignore, p, items)
            /\ kind \in {"insert", "upsert"} => p \in Project
    BY <1>2, <1>3, Zenon DEF Bulk, Single, List
  <2>2. PICK found \in [items -> File \cup {None}] :
            LET old == {found[i] : i \in items} \ {None}
            IN Receive(w, NewJob(kind, change, ignore, p, found,
                                 [f \in File |-> IF f \in old THEN row[f] ELSE None],
                                 old, "lock"))
    BY <2>1, Zenon DEF ReceiveBulk
  <2> DEFINE old == {found[i] : i \in items} \ {None}
             seen == [f \in File |-> IF f \in old THEN row[f] ELSE None]
  <2>3. old \in SUBSET File /\ seen \in Rows /\ found \in Partial(Identifier, File \cup {None})
    <3>1. old \in SUBSET File
      OBVIOUS
    <3>2. seen \in Rows
      BY <1>0 DEF Rows
    <3> QED BY <3>1, <3>2, Partials, Zenon
  <2>4. Receive(w, NewJob(kind, change, ignore, p, found, seen, old, "lock"))
    BY <2>2
  <2>5. change \in Change
    BY <1>0, <2>4, ChangesAreChange DEF Receive
  <2>6. kind \notin List /\ kind \notin Single
    BY <1>3, Zenon DEF Bulk, List, Single
  <2> HIDE DEF old, seen
  <2> QED BY <2>1, <2>3, <2>4, <2>5, <2>6, Receiving, Zenon
<1>4. CASE kind \in Single
  <2>1. PICK f \in File : ReceiveSingle(w, kind, change, f)
    BY <1>2, <1>4, Zenon DEF Bulk, Single, List
  <2> DEFINE found == [i \in {row[f].identifier} |-> f]
             seen == [NoRows EXCEPT ![f] = row[f]]
  <2>2. /\ Stored(f)
        /\ Receive(w, NewJob(kind, change, FALSE, None, found, seen, {f}, "lock"))
    BY <2>1, Zenon DEF ReceiveSingle
  <2>3. found \in Partial(Identifier, File \cup {None})
    <3>1. row[f].identifier \in Identifier
      BY <1>0, <2>2, RowTypes DEF Stored
    <3>2. found \in [{row[f].identifier} -> File \cup {None}]
      OBVIOUS
    <3> QED BY <3>1, <3>2, Partials
  <2>4. seen \in Rows /\ seen[f] = row[f]
    BY <1>0 DEF Rows, NoRows
  <2>5. change \in Change
    BY <1>0, <2>2, ChangesAreChange DEF Receive
  <2>6. \A i \in DOMAIN found : found[i] = f
    OBVIOUS
  <2>7. ASSUME NEW g \in File \ {f} PROVE IsKnown({}, row[f].identifier, g)
    BY <2>2, <2>7 DEF IInv, IdentifiersAreUnique, IsKnown
  <2>8. kind \notin List /\ kind \notin {"insert", "upsert"} /\ row[f] # None
    BY <1>4, <2>2, Zenon DEF Stored, Single, List
  <2> HIDE DEF found, seen
  <2>9. FoundIsKnown(found, seen, {})
    BY <2>4, <2>6, <2>7, <2>8 DEF FoundIsKnown
  <2> QED BY <2>2, <2>3, <2>4, <2>5, <2>8, <2>9, Receiving, Zenon
<1>5. CASE kind \in List
  <2>1. PICK p \in Project : ReceiveList(w, kind, change, p)
    BY <1>2, <1>5, Zenon DEF Bulk, Single, List
  <2> DEFINE found == [i \in {} |-> None]
  <2>2. Receive(w, NewJob(kind, change, FALSE, p, found, NoRows, {}, "list"))
    BY <2>1, Zenon DEF ReceiveList
  <2>3. found \in Partial(Identifier, File \cup {None})
    <3>1. found \in [{} -> File \cup {None}]
      OBVIOUS
    <3> QED BY <3>1, Partials, Zenon
  <2>4. NoRows \in Rows
    BY DEF NoRows, Rows
  <2>5. change \in Change
    BY <1>0, <2>2, ChangesAreChange DEF Receive
  <2>6. kind \notin Single /\ kind \notin {"insert", "upsert"}
    BY <1>5, Zenon DEF List, Single
  <2> HIDE DEF found
  <2> QED BY <1>5, <2>2, <2>3, <2>4, <2>5, <2>6, Receiving, Zenon
<1> QED BY <1>2, <1>3, <1>4, <1>5

\* A step that neither writes nor tells.
LEMMA Waits ==
    ASSUME IInv, NEW w \in Worker, job[w] # None, NEW n, n \in Job,
           job[w].step \in {"lock", "list"}, n.step \in {"lock", "list", "apply"},
           n.kind = job[w].kind, n.project = job[w].project,
           n.found = job[w].found, n.unseen = job[w].unseen,
           n.writes = job[w].writes, n.step = "lock" <=> job[w].step = "lock",
           n.step = "lock" => n.seen = job[w].seen,
           \A v \in Worker \ {w} : job[v] # None => n.locks \cap job[v].locks = {},
           job' = [job EXCEPT ![w] = n], row' = row, overlapped' = overlapped
    PROVE  Goes(w, n)
<1>1. Fits(job[w])
  BY DEF IInv, JobsFit
<1>2. DOMAIN n.writes = {}
  BY <1>1 DEF Fits, StepFits
<1>3. StepFits(n)
  BY <1>1, <1>2 DEF Fits, StepFits
<1>4. BulkFollows(n) /\ WritesAreUnique(n)
  BY <1>2 DEF BulkFollows, WritesAreUnique
<1>5. SingleIsKnown(n)
  BY <1>1 DEF Fits, SingleIsKnown
<1>6. \A v \in Worker \ {w} : job[v] # None => Apart(n, job[v])
  BY <1>2 DEF Apart
<1> QED BY <1>3, <1>4, <1>5, <1>6 DEF Goes, Fits

LEMMA Locking ==
    ASSUME IInv, NEW w \in Worker, NEW f \in File, LockFile(w, f)
    PROVE  \E n : Goes(w, n) /\ n.step # "commit" /\ job[w].step # "commit"
                  /\ UNCHANGED << v2, adrift, spared >>
<1>0. TypeOK
  BY DEF IInv
<1> DEFINE j == job[w]
           locks == IF Stored(f) THEN j.locks \cup {f} ELSE j.locks
           n == [j EXCEPT !.todo = j.todo \ {f}, !.locks = locks]
<1>1. /\ j # None /\ j.step = "lock" /\ ~LockedByOther(w, f)
      /\ job' = [job EXCEPT ![w] = n] /\ row' = row /\ overlapped' = overlapped
      /\ UNCHANGED << v2, adrift, spared >>
  BY Zenon DEF LockFile, Serving
<1>2. j \in Job /\ locks \subseteq File /\ locks \subseteq j.locks \cup {f}
  BY <1>0, <1>1, JobTypes
<1>3. /\ n \in Job
      /\ n.kind = j.kind /\ n.project = j.project /\ n.found = j.found
      /\ n.unseen = j.unseen /\ n.writes = j.writes
      /\ n.step = "lock" /\ n.seen = j.seen /\ n.locks = locks
  <2> HIDE DEF j, locks
  <2>1. j.todo \ {f} \in SUBSET File
    BY <1>2 DEF Job
  <2> QED BY <1>1, <1>2, <2>1, Zenon DEF Job
<1>4. ASSUME NEW v \in Worker \ {w}, job[v] # None PROVE n.locks \cap job[v].locks = {}
  <2>1. f \notin job[v].locks
    BY <1>1, <1>4 DEF LockedByOther
  <2>2. j.locks \cap job[v].locks = {}
    BY <1>1, <1>4 DEF IInv, JobsAreApart, Apart
  <2> QED BY <1>2, <1>3, <2>1, <2>2
<1> HIDE DEF n
<1> QED BY <1>1, <1>3, <1>4, Waits, Zenon

LEMMA Listing ==
    ASSUME IInv, NEW w \in Worker, ListFiles(w)
    PROVE  \E n : Goes(w, n) /\ n.step # "commit" /\ job[w].step # "commit"
                  /\ UNCHANGED << v2, adrift, spared >>
<1>0. TypeOK
  BY DEF IInv
<1> DEFINE j == job[w]
           seen == [f \in File |-> IF f \in Matching(j.kind, j.project) THEN row[f] ELSE None]
           n == [j EXCEPT !.seen = seen, !.step = "apply"]
<1>1. /\ j # None /\ j.step = "list"
      /\ job' = [job EXCEPT ![w] = n] /\ row' = row /\ overlapped' = overlapped
      /\ UNCHANGED << v2, adrift, spared >>
  BY Zenon DEF ListFiles, Serving
<1>2. j \in Job /\ seen \in Rows
  BY <1>0, <1>1, JobTypes DEF TypeOK, Rows
<1>3. /\ n \in Job
      /\ n.kind = j.kind /\ n.project = j.project /\ n.found = j.found
      /\ n.unseen = j.unseen /\ n.writes = j.writes
      /\ n.step = "apply" /\ n.locks = j.locks
  <2> HIDE DEF j, seen
  <2> QED BY <1>2, Zenon DEF Job, Steps
<1>4. ASSUME NEW v \in Worker \ {w}, job[v] # None PROVE n.locks \cap job[v].locks = {}
  BY <1>1, <1>3, <1>4 DEF IInv, JobsAreApart, Apart
<1> HIDE DEF n
<1> QED BY <1>1, <1>3, <1>4, Waits, Zenon

-----------------------------------------------------------------------------
(* Requests write.                                                             *)

LEMMA Writing ==
    ASSUME IInv, NEW w \in Worker, NEW W \in Partial(File, Row \cup {None}), Write(w, W),
           job[w] # None, job[w].step \in {"lock", "apply"},
           \A f \in DOMAIN W : IF job[w].kind \in List THEN ~Live(W[f]) ELSE W[f] # None,
           job[w].kind \in Bulk => \A f \in DOMAIN W : Follows(f, W[f], job[w].change),
           \A f \in DOMAIN W : Live(W[f]) =>
               /\ \A g \in DOMAIN W \ {f} :
                      Live(W[g]) /\ W[g].identifier = W[f].identifier =>
                          W[f].identifier \in overlapped /\ ~SameKey(W[g], W[f])
               /\ \A g \in File \ DOMAIN W :
                      IsKnown(IF job[w].kind \in Bulk THEN {} ELSE job[w].unseen,
                              W[f].identifier, g)
    PROVE  \E n : Goes(w, n) /\ n.step # "commit" /\ job[w].step # "commit"
                  /\ UNCHANGED << v2, adrift, spared >>
<1>0. TypeOK /\ Fits(job[w])
  BY DEF IInv, JobsFit
<1> DEFINE j == job[w]
           unseen == IF j.kind \in Bulk THEN {} ELSE j.unseen
           n == [j EXCEPT !.writes = W, !.step = "sync", !.locks = j.locks \cup DOMAIN W,
                          !.unseen = unseen]
<1>1. /\ job' = [job EXCEPT ![w] = n] /\ row' = row /\ overlapped' = overlapped
      /\ UNCHANGED << v2, adrift, spared >>
      /\ \A f \in DOMAIN W : ~LockedByOther(w, f)
      /\ KeysAreFree(w, W)
  BY Zenon DEF Write
<1>2. j \in Job /\ unseen \subseteq Identifier /\ DOMAIN W \subseteq File
      /\ \A f \in DOMAIN W : W[f] \in Row \cup {None}
  BY <1>0, JobTypes, Partials
<1>3. /\ n \in Job
      /\ n.kind = j.kind /\ n.change = j.change /\ n.project = j.project
      /\ n.writes = W /\ n.step = "sync"
      /\ n.locks = j.locks \cup DOMAIN W /\ n.unseen = unseen
  <2> HIDE DEF j, unseen
  <2>1. j.locks \cup DOMAIN W \in SUBSET File
    BY <1>2 DEF Job
  <2> QED BY <1>2, <2>1, Zenon DEF Job, Steps
<1> HIDE DEF n
<1>4. StepFits(n)
  BY <1>0, <1>3 DEF Fits, StepFits
<1>5. BulkFollows(n)
  BY <1>3 DEF BulkFollows
<1>6. SingleIsKnown(n)
  BY <1>3 DEF SingleIsKnown
<1>7. ASSUME NEW f \in DOMAIN W, Live(W[f]) PROVE IsUniqueWrite(W, unseen, f)
  <2>1. ASSUME NEW g \in File \ DOMAIN W, Stored(g) PROVE ~SameKey(row[g], W[f])
    BY <1>1, <1>7, <2>1 DEF KeysAreFree, Live
  <2> QED BY <1>7, <2>1 DEF IsUniqueWrite
<1>8. WritesAreUnique(n)
  BY <1>3, <1>7 DEF WritesAreUnique
<1>9. ASSUME NEW v \in Worker \ {w}, job[v] # None PROVE Apart(n, job[v])
  <2>1. \A f \in DOMAIN W : f \notin job[v].locks
    BY <1>1, <1>9 DEF LockedByOther
  <2>2. n.locks \cap job[v].locks = {}
    BY <1>3, <1>9, <2>1 DEF IInv, JobsAreApart, Apart
  <2>3. ASSUME NEW f \in DOMAIN W, NEW g \in DOMAIN job[v].writes,
               Live(W[f]), Live(job[v].writes[g])
        PROVE  ~SameKey(W[f], job[v].writes[g])
    BY <1>1, <1>9, <2>3 DEF KeysAreFree, Live, SameKey
  <2> QED BY <1>3, <2>2, <2>3 DEF Apart
<1> QED BY <1>1, <1>3, <1>4, <1>5, <1>6, <1>8, <1>9, Zenon DEF Goes, Fits

LEMMA SingleWrites ==
    ASSUME IInv, NEW w \in Worker, ApplySingle(w)
    PROVE  \E n : Goes(w, n) /\ n.step # "commit" /\ job[w].step # "commit"
                  /\ UNCHANGED << v2, adrift, spared >>
<1> DEFINE j == job[w]
           D == {j.found[i] : i \in DOMAIN j.found}
           W == [f \in D |-> IF j.kind = "remove" THEN [j.seen[f] EXCEPT !.removed = TRUE]
                             ELSE Changed(j.seen[f], j.change)]
<1>0. TypeOK
  BY DEF IInv
<1>1. j # None /\ j.step = "lock" /\ j.kind \in Single /\ Write(w, W)
  BY DEF ApplySingle, HasLocks, Serving
<1>2. FoundIsKnown(j.found, j.seen, j.unseen)
  BY <1>1 DEF IInv, JobsFit, Fits, SingleIsKnown
<1>3. j.kind \notin List /\ j.kind \notin Bulk
  BY <1>1, Zenon DEF Single, List, Bulk
<1>4. ASSUME NEW f \in D
      PROVE  /\ f \in File /\ j.seen[f] \in Row
             /\ \A g \in D : g = f
             /\ \A g \in File \ {f} : IsKnown(j.unseen, j.seen[f].identifier, g)
  <2>1. PICK i \in DOMAIN j.found : f = j.found[i]
    OBVIOUS
  <2>2. f \in File /\ j.seen[f] # None
    BY <1>2, <2>1 DEF FoundIsKnown
  <2>3. j.seen[f] \in Row
    BY <1>0, <1>1, <2>2, JobTypes DEF Rows
  <2> QED BY <1>2, <2>1, <2>2, <2>3 DEF FoundIsKnown
<1>5. ASSUME NEW f \in D
      PROVE  W[f] \in Row /\ W[f].identifier = j.seen[f].identifier
  <2>1. j.seen[f] \in Row /\ j.change \in Change
    BY <1>0, <1>1, <1>4, JobTypes
  <2>2. CASE j.kind = "remove"
    <3>1. W[f] = [j.seen[f] EXCEPT !.removed = TRUE]
      BY <2>2
    <3>2. W[f].identifier = j.seen[f].identifier
      BY <2>1, <3>1 DEF Row
    <3> QED BY <2>1, <3>1, <3>2, RemovedRow
  <2>3. CASE j.kind # "remove"
    <3>1. W[f] = Changed(j.seen[f], j.change)
      BY <2>3
    <3> QED BY <2>1, <3>1, ChangedRow, FileAssumption
  <2> QED BY <2>2, <2>3
<1>6. W \in Partial(File, Row \cup {None}) /\ DOMAIN W = D
  <2>1. D \in SUBSET File
    BY <1>4
  <2>2. W \in [D -> Row \cup {None}]
    BY <1>5, Zenon
  <2>3. DOMAIN W = D
    OBVIOUS
  <2> HIDE DEF W, D
  <2> QED BY <2>1, <2>2, <2>3, Partials
<1> HIDE DEF W, D
<1>7. \A f \in DOMAIN W : W[f] # None
  BY <1>5, <1>6, NoneIsNoRecord
<1>8. \A f \in DOMAIN W : Live(W[f]) =>
          /\ \A g \in DOMAIN W \ {f} :
                 Live(W[g]) /\ W[g].identifier = W[f].identifier =>
                     W[f].identifier \in overlapped /\ ~SameKey(W[g], W[f])
          /\ \A g \in File \ DOMAIN W :
                 IsKnown(IF j.kind \in Bulk THEN {} ELSE j.unseen, W[f].identifier, g)
  BY <1>3, <1>4, <1>5, <1>6
<1> QED BY <1>1, <1>3, <1>6, <1>7, <1>8, Writing, Zenon

LEMMA ListWrites ==
    ASSUME IInv, NEW w \in Worker, ApplyList(w)
    PROVE  \E n : Goes(w, n) /\ n.step # "commit" /\ job[w].step # "commit"
                  /\ UNCHANGED << v2, adrift, spared >>
<1> DEFINE j == job[w]
           D == Matching(j.kind, j.project)
           W == [f \in D |-> IF j.kind = "flush list" THEN None
                             ELSE [row[f] EXCEPT !.removed = TRUE]]
<1>0. TypeOK
  BY DEF IInv
<1>1. j # None /\ j.step = "apply" /\ Write(w, W)
  BY Zenon DEF ApplyList, Serving
<1>2. j.kind \in List /\ j.kind \notin Bulk
  BY <1>1, Zenon DEF IInv, JobsFit, Fits, StepFits, List, Bulk
<1>3. ASSUME NEW f \in D PROVE f \in File /\ W[f] \in Row \cup {None} /\ ~Live(W[f])
  <2>1. f \in File /\ row[f] \in Row
    BY <1>0, RowTypes, Zenon DEF Matching
  <2>2. W[f] \in {None, [row[f] EXCEPT !.removed = TRUE]}
    OBVIOUS
  <2> QED BY <2>1, <2>2, RemovedRow, Zenon DEF Live
<1>4. W \in Partial(File, Row \cup {None}) /\ DOMAIN W = D
  <2>1. D \in SUBSET File
    BY <1>3, Zenon
  <2>2. W \in [D -> Row \cup {None}]
    BY <1>3, Zenon
  <2>3. DOMAIN W = D
    OBVIOUS
  <2> HIDE DEF W, D
  <2> QED BY <2>1, <2>2, <2>3, Partials
<1> HIDE DEF W, D
<1> QED BY <1>1, <1>2, <1>3, <1>4, Writing, Zenon

\* What the items of a bulk request that are not refused may rely on.
LEMMA Accepted ==
    ASSUME IInv, NEW w \in Worker, job[w] # None, NEW i \in DOMAIN job[w].found, ~IsRefused(w, i)
    PROVE  /\ i \in Identifier /\ job[w].found[i] \in File \cup {None}
           /\ job[w].found[i] = None =>
                  /\ job[w].project \in Project
                  /\ \A g \in File : Stored(g) => row[g].identifier # i
           /\ job[w].found[i] # None => ~LockReason(w, job[w].found[i])
<1>1. i \in Identifier /\ job[w].found[i] \in File \cup {None}
  BY JobTypes, Partials DEF IInv
<1>2. ASSUME job[w].found[i] = None
      PROVE  job[w].project \in Project /\ \A g \in File : Stored(g) => row[g].identifier # i
  <2>1. job[w].kind \in {"insert", "upsert"} /\ ~IdentifierIsTaken(i, job[w].project)
    BY <1>2 DEF IsRefused
  <2> QED BY <2>1 DEF IInv, JobsFit, Fits, StepFits, IdentifierIsTaken
<1>3. ASSUME job[w].found[i] # None PROVE ~LockReason(w, job[w].found[i])
  BY <1>3 DEF IsRefused
<1> QED BY <1>1, <1>2, <1>3

LEMMA BulkWrites ==
    ASSUME IInv, NEW w \in Worker, ApplyBulk(w)
    PROVE  \E n : Goes(w, n) /\ n.step # "commit" /\ job[w].step # "commit"
                  /\ UNCHANGED << v2, adrift, spared >>
<1> DEFINE j == job[w]
           items == {i \in DOMAIN j.found : ~IsRefused(w, i)}
           new == {i \in items : j.found[i] = None}
           old == {j.found[i] : i \in items \ new}
<1>0. TypeOK
  BY DEF IInv
<1>1. /\ j # None /\ j.step = "lock" /\ j.kind \in Bulk
      /\ \A f \in old : row[f] # None /\ ~row[f].removed
  BY DEF ApplyBulk, HasLocks, Serving, Current
<1>2. PICK id \in [new -> {f \in File : Unused(f)}] :
          /\ \A i, k \in new : id[i] = id[k] => i = k
          /\ Write(w, [f \in old \cup {id[i] : i \in new} |->
                 IF f \in old
                 THEN IF j.kind = "delete" THEN [Current(w, f) EXCEPT !.removed = TRUE]
                      ELSE Changed(Current(w, f), j.change)
                 ELSE New(j.project, CHOOSE i \in new : id[i] = f, j.change)])
  BY Zenon DEF ApplyBulk
<1> DEFINE D == old \cup {id[i] : i \in new}
           W == [f \in D |->
                    IF f \in old
                    THEN IF j.kind = "delete" THEN [row[f] EXCEPT !.removed = TRUE]
                         ELSE Changed(row[f], j.change)
                    ELSE New(j.project, CHOOSE i \in new : id[i] = f, j.change)]
<1>3. Write(w, W)
  BY <1>2 DEF Current
<1>4. j.change \in Change
  BY <1>0, <1>1, JobTypes
<1>5. ASSUME NEW f \in old
      PROVE  /\ f \in File /\ Stored(f)
             /\ W[f] \in Row /\ Follows(f, W[f], j.change)
             /\ W[f].identifier = row[f].identifier /\ W[f].project = row[f].project
  <2>1. PICK i \in items : j.found[i] = f /\ f # None
    OBVIOUS
  <2>2. f \in File /\ ~LockReason(w, f)
    BY <1>1, <2>1, Accepted
  <2>3. row[f] \in Row /\ Stored(f) /\ ~row[f].removed
    BY <1>0, <1>1, <2>2, RowTypes DEF Stored
  <2>4. row[f].pas => j.change.user = "pas"
    BY <1>4, <2>2, <2>3 DEF LockReason, Change, Stored
  <2>5. W[f] = [row[f] EXCEPT !.removed = TRUE] \/ W[f] = Changed(row[f], j.change)
    BY SMTT(30)
  <2>6. /\ W[f] \in Row
        /\ W[f].identifier = row[f].identifier /\ W[f].project = row[f].project
    <3>1. CASE W[f] = [row[f] EXCEPT !.removed = TRUE]
      <4>1. /\ [row[f] EXCEPT !.removed = TRUE].identifier = row[f].identifier
            /\ [row[f] EXCEPT !.removed = TRUE].project = row[f].project
        BY <2>3 DEF Row
      <4> HIDE DEF W
      <4> QED BY <2>3, <3>1, <4>1, RemovedRow
    <3>2. CASE W[f] = Changed(row[f], j.change)
      <4> HIDE DEF W
      <4> QED BY <1>4, <2>3, <3>2, ChangedRow, FileAssumption, SMTT(30)
    <3> QED BY <2>5, <3>1, <3>2, Zenon
  <2> HIDE DEF W
  <2> QED BY <2>2, <2>3, <2>4, <2>5, <2>6 DEF Follows
<1>6. ASSUME NEW f \in D, f \notin old
      PROVE  /\ f \in File /\ row[f] = None
             /\ \E i \in new : id[i] = f /\ W[f] = New(j.project, i, j.change)
             /\ j.project \in Project
  <2>1. \E i \in new : id[i] = f
    BY <1>6
  <2>2. (CHOOSE i \in new : id[i] = f) \in new /\ id[CHOOSE i \in new : id[i] = f] = f
    BY <2>1
  <2>3. W[f] = New(j.project, CHOOSE i \in new : id[i] = f, j.change)
    BY <1>6
  <2>4. f \in File /\ row[f] = None
    BY <1>2, <2>1 DEF Unused
  <2>5. j.project \in Project
    BY <1>1, <2>1, Accepted
  <2> QED BY <2>2, <2>3, <2>4, <2>5, Zenon
<1>7. ASSUME NEW i \in new, NEW f, f = New(j.project, i, j.change), j.project \in Project
      PROVE  f \in Row /\ f.identifier = i /\ \A g \in File : Stored(g) => row[g].identifier # i
  <2>1. i \in Identifier /\ \A g \in File : Stored(g) => row[g].identifier # i
    BY <1>1, Accepted
  <2> QED BY <1>4, <1>7, <2>1, NewRow, FileAssumption
<1>8. W \in Partial(File, Row \cup {None}) /\ DOMAIN W = D
  <2>1. DOMAIN W = D
    OBVIOUS
  <2>2. ASSUME NEW f \in D PROVE f \in File /\ W[f] \in Row
    <3> HIDE DEF W, new, old, D
    <3>1. CASE f \in old
      BY <1>5, <3>1
    <3>2. CASE f \notin old
      BY <1>6, <1>7, <3>2
    <3> QED BY <3>1, <3>2
  <2>3. W \in [D -> Row \cup {None}] /\ D \in SUBSET File
    BY <2>2, Zenon
  <2> HIDE DEF W, D
  <2> QED BY <2>1, <2>3, Partials
<1> HIDE DEF W, D, old, new
<1>9. \A f \in DOMAIN W : W[f] # None /\ Follows(f, W[f], j.change)
  <2> SUFFICES ASSUME NEW f \in D PROVE W[f] # None /\ Follows(f, W[f], j.change)
    BY <1>8
  <2>1. CASE f \in old
    BY <1>5, <2>1, NoneIsNoRecord
  <2>2. CASE f \notin old
    BY <1>6, <1>7, <2>2, NoneIsNoRecord DEF Follows
  <2> QED BY <2>1, <2>2
<1>10. ASSUME NEW f \in D, NEW g \in D, f # g, W[g].identifier = W[f].identifier
       PROVE  W[f].identifier \in overlapped /\ ~SameKey(W[g], W[f])
  <2>1. CASE f \in old /\ g \in old
    BY <1>5, <1>10, <2>1 DEF IInv, IdentifiersAreUnique, SameKey
  <2>2. CASE f \in old /\ g \notin old
    BY <1>5, <1>6, <1>7, <1>10, <2>2
  <2>3. CASE f \notin old /\ g \in old
    BY <1>5, <1>6, <1>7, <1>10, <2>3
  <2>4. CASE f \notin old /\ g \notin old
    BY <1>6, <1>7, <1>10, <2>4
  <2> QED BY <2>1, <2>2, <2>3, <2>4
<1>11. ASSUME NEW f \in D, NEW g \in File \ D PROVE IsKnown({}, W[f].identifier, g)
  <2>1. CASE f \in old
    BY <1>5, <1>11, <2>1 DEF IInv, IdentifiersAreUnique, IsKnown
  <2>2. CASE f \notin old
    BY <1>6, <1>7, <1>11, <2>2 DEF IsKnown
  <2> QED BY <2>1, <2>2
<1>12. j.kind \notin List
  BY <1>1, Zenon DEF List, Bulk
<1>13. \A f \in DOMAIN W : Live(W[f]) =>
          /\ \A g \in DOMAIN W \ {f} :
                 Live(W[g]) /\ W[g].identifier = W[f].identifier =>
                     W[f].identifier \in overlapped /\ ~SameKey(W[g], W[f])
          /\ \A g \in File \ DOMAIN W :
                 IsKnown(IF j.kind \in Bulk THEN {} ELSE j.unseen, W[f].identifier, g)
  BY <1>1, <1>8, <1>10, <1>11
<1> QED BY <1>1, <1>3, <1>8, <1>9, <1>12, <1>13, Writing, Zenon

-----------------------------------------------------------------------------
(* Metax V2 is told, and requests end.                                         *)

LEMMA Telling ==
    ASSUME IInv, NEW w \in Worker, SyncToV2(w)
    PROVE  \E n : /\ Goes(w, n) /\ n.step = "commit" /\ Sent(n) = Sent(job[w])
                  /\ n.writes = job[w].writes
                  /\ job[w] # None /\ job[w].step = "sync"
<1>0. TypeOK /\ Fits(job[w])
  BY DEF IInv, JobsFit, SyncToV2, Serving
<1> DEFINE j == job[w]
           n == [j EXCEPT !.step = "commit"]
<1>1. /\ j # None /\ j.step = "sync"
      /\ job' = [job EXCEPT ![w] = n] /\ row' = row /\ overlapped' = overlapped
  BY DEF SyncToV2, Serving
<1>2. j \in Job
  BY <1>0, <1>1, JobTypes
<1>3. /\ n \in Job
      /\ n.kind = j.kind /\ n.change = j.change /\ n.project = j.project /\ n.found = j.found
      /\ n.seen = j.seen /\ n.locks = j.locks /\ n.writes = j.writes /\ n.unseen = j.unseen
      /\ n.step = "commit"
  <2> HIDE DEF j
  <2> QED BY <1>2 DEF Job, Steps
<1> HIDE DEF n
<1>4. Fits(n)
  BY <1>0, <1>1, <1>3 DEF Fits, StepFits, BulkFollows, SingleIsKnown, WritesAreUnique
<1>5. ASSUME NEW v \in Worker \ {w}, job[v] # None PROVE Apart(n, job[v])
  BY <1>1, <1>3, <1>5 DEF IInv, JobsAreApart, Apart
<1>6. Sent(n) = Sent(j)
  BY <1>3 DEF Sent
<1> QED BY <1>1, <1>3, <1>4, <1>5, <1>6, Zenon DEF Goes

LEMMA TellingV2 ==
    ASSUME IInv, NEW w \in Worker, SyncToV2(w)
    PROVE  ToldIsWritten' /\ InStepUnlessTold'
<1>0. TypeOK
  BY DEF IInv
<1> DEFINE S == Sent(job[w])
<1>1. PICK n : /\ Goes(w, n) /\ n.step = "commit" /\ Sent(n) = Sent(job[w])
               /\ n.writes = job[w].writes
               /\ job[w] # None /\ job[w].step = "sync"
  BY Telling
<1>2. /\ job'[w] = n /\ \A v \in Worker \ {w} : job'[v] = job[v]
      /\ row' = row
  BY <1>0, <1>1 DEF Goes, TypeOK
<1>3. /\ spared' = spared \cup (DOMAIN S \ DOMAIN job[w].writes) /\ adrift' = adrift
      /\ \A f \in File : v2'[f] = IF f \in DOMAIN S THEN Told(S[f]) ELSE v2[f]
  BY DEF SyncToV2
<1>4. \A v \in Worker : job[v] # None => DOMAIN Sent(job[v]) \subseteq File
  BY <1>0, SentTypes DEF IInv, JobsFit, Fits
<1>5. ToldIsWritten'
  <2> SUFFICES ASSUME NEW v \in Worker, job'[v] # None, job'[v].step = "commit",
                      NEW f \in DOMAIN Sent(job'[v]), f \notin spared'
               PROVE  f \in DOMAIN job'[v].writes /\ v2'[f] = Told(Sent(job'[v])[f])
    BY Zenon DEF ToldIsWritten, Sent, Told
  <2>1. CASE v = w
    <3>1. Sent(job'[v]) = S /\ job'[v].writes = job[w].writes
      BY <1>1, <1>2, <2>1
    <3>2. f \in DOMAIN S /\ f \in File
      BY <1>1, <1>4, <3>1
    <3> QED BY <1>3, <3>1, <3>2
  <2>2. CASE v # w
    <3>1. job'[v] = job[v]
      BY <1>2, <2>2
    <3>2. f \in DOMAIN Sent(job[v]) /\ f \notin spared /\ job[v] # None /\ job[v].step = "commit"
      BY <1>3, <3>1
    <3>3. f \in DOMAIN job[v].writes /\ v2[f] = Told(Sent(job[v])[f]) /\ f \in File
      BY <1>4, <3>2 DEF IInv, ToldIsWritten
    <3>4. f \notin DOMAIN job[w].writes
      BY <1>1, <2>2, <3>2, <3>3 DEF IInv, JobsAreApart, Apart, JobsFit, Fits, StepFits
    <3>5. f \notin DOMAIN S
      BY <1>3, <3>4
    <3> QED BY <1>3, <3>1, <3>3, <3>5
  <2> QED BY <2>1, <2>2
<1>6. InStepUnlessTold'
  <2> SUFFICES ASSUME NEW f \in File PROVE (f \in adrift \cup spared \/ IsTold(f) \/ IsInStep(f))'
    BY DEF InStepUnlessTold
  <2>1. CASE f \in DOMAIN S
    <3>1. job'[w] # None
      BY <1>1, <1>2, NoneIsNoRecord DEF Goes
    <3>2. f \in DOMAIN Sent(job'[w])
      BY <1>1, <1>2, <2>1
    <3> QED BY <1>1, <1>2, <3>1, <3>2 DEF IsTold, Sent
  <2>2. CASE f \notin DOMAIN S
    <3>1. v2'[f] = v2[f]
      BY <1>3, <2>2
    <3>2. IsTold(f) => IsTold(f)'
      <4> SUFFICES ASSUME NEW v \in Worker, job[v] # None, job[v].step = "commit",
                          f \in DOMAIN Sent(job[v])
                   PROVE  IsTold(f)'
        BY DEF IsTold
      <4>1. job'[v] = job[v]
        BY <1>1, <1>2
      <4> QED BY <4>1 DEF IsTold, Sent
    <3>3. IsInStep(f) => IsInStep(f)'
      BY <1>2, <3>1 DEF IsInStep, InStep, Stored
    <3> QED BY <1>3, <3>2, <3>3 DEF IInv, InStepUnlessTold
  <2> QED BY <2>1, <2>2
<1> QED BY <1>5, <1>6

LEMMA Failing ==
    ASSUME IInv, NEW w \in Worker, Fail(w)
    PROVE  JobsFit' /\ JobsAreApart' /\ IdentifiersAreUnique' /\ ToldIsWritten' /\ InStepUnlessTold'
<1>0. job \in [Worker -> Job \cup {None}]
  BY DEF IInv, TypeOK
<1>1. /\ job[w] # None /\ row' = row /\ v2' = v2 /\ overlapped' = overlapped /\ spared' = spared
      /\ adrift' = IF job[w].step = "commit" THEN adrift \cup DOMAIN Sent(job[w]) ELSE adrift
      /\ job'[w] = None /\ \A v \in Worker \ {w} : job'[v] = job[v]
  BY <1>0 DEF Fail
<1>2. JobsFit'
  <2> SUFFICES ASSUME NEW v \in Worker, job'[v] # None PROVE Fits(job[v])'
    BY DEF JobsFit
  <2>1. job'[v] = job[v] /\ Fits(job[v])
    BY <1>1 DEF IInv, JobsFit
  <2>2. PICK j : j = job[v]
    OBVIOUS
  <2>3. Fits(j)'
    BY <1>1, <2>1, <2>2, FitsStays
  <2> QED BY <2>1, <2>2, <2>3 DEF Fits, StepFits, BulkFollows, SingleIsKnown, WritesAreUnique
<1>3. JobsAreApart'
  <2> SUFFICES ASSUME NEW u \in Worker, NEW v \in Worker, u # v, job'[u] # None, job'[v] # None
               PROVE  Apart(job'[u], job'[v])
    BY DEF JobsAreApart, Apart
  <2> QED BY <1>1 DEF IInv, JobsAreApart
<1>4. IdentifiersAreUnique'
  BY <1>1 DEF IInv, IdentifiersAreUnique, Stored
<1>5. ToldIsWritten'
  <2> SUFFICES ASSUME NEW v \in Worker, job'[v] # None, job'[v].step = "commit",
                      NEW f \in DOMAIN Sent(job'[v]) \ spared
               PROVE  f \in DOMAIN job'[v].writes /\ v2[f] = Told(Sent(job'[v])[f])
    BY <1>1, Zenon DEF ToldIsWritten, Sent, Told
  <2>1. job'[v] = job[v]
    BY <1>1
  <2> QED BY <2>1 DEF IInv, ToldIsWritten
<1>6. InStepUnlessTold'
  <2> SUFFICES ASSUME NEW f \in File, f \notin adrift', f \notin spared'
               PROVE  (IsTold(f) \/ IsInStep(f))'
    BY DEF InStepUnlessTold
  <2>1. IsTold(f) => IsTold(f)'
    <3> SUFFICES ASSUME NEW v \in Worker, job[v] # None, job[v].step = "commit",
                        f \in DOMAIN Sent(job[v])
                 PROVE  IsTold(f)'
      BY DEF IsTold
    <3>1. v # w
      BY <1>1
    <3>2. job'[v] = job[v]
      BY <1>1, <3>1
    <3> QED BY <3>2 DEF IsTold, Sent
  <2>2. IsInStep(f) => IsInStep(f)'
    BY <1>1 DEF IsInStep, InStep, Stored
  <2> QED BY <1>1, <2>1, <2>2 DEF IInv, InStepUnlessTold
<1> QED BY <1>2, <1>3, <1>4, <1>5, <1>6

-----------------------------------------------------------------------------
(* A request commits.                                                          *)

Written(w) == Identifiers(job[w].writes)

\* What others still serve, but for the identifiers that they have not seen.
IsSame(i, j) ==
    /\ i.kind = j.kind /\ i.change = j.change /\ i.project = j.project /\ i.found = j.found
    /\ i.seen = j.seen /\ i.todo = j.todo /\ i.locks = j.locks /\ i.writes = j.writes
    /\ i.step = j.step

LEMMA Committed ==
    ASSUME IInv, NEW w \in Worker, Commit(w)
    PROVE  /\ job[w] # None /\ job[w].step = "commit"
           /\ job' \in [Worker -> Job \cup {None}] /\ job'[w] = None
           /\ \A v \in Worker \ {w} :
                  /\ job[v] = None => job'[v] = None
                  /\ job[v] # None =>
                         /\ job'[v] # None /\ IsSame(job'[v], job[v])
                         /\ job'[v].unseen = job[v].unseen \cup Written(w)
           /\ row' \in Rows
           /\ \A f \in DOMAIN job[w].writes : row'[f] = job[w].writes[f]
           /\ \A f \in File \ DOMAIN job[w].writes : row'[f] = row[f]
           /\ overlapped' = overlapped \cup (Written(w) \cap job[w].unseen)
           /\ adrift' = (adrift \cup DOMAIN job[w].writes) \ DOMAIN Sent(job[w])
           /\ v2' = v2 /\ spared' = spared
           /\ \A f \in DOMAIN job[w].writes :
                  Live(job[w].writes[f]) => job[w].writes[f].identifier \in Written(w)
<1>0. TypeOK
  BY DEF IInv
<1> DEFINE j == job[w]
<1>1. /\ j # None /\ j.step = "commit"
      /\ overlapped' = overlapped \cup (Written(w) \cap j.unseen)
      /\ adrift' = (adrift \cup DOMAIN j.writes) \ DOMAIN Sent(j)
      /\ v2' = v2 /\ spared' = spared
      /\ row' = [f \in File |-> IF f \in DOMAIN j.writes THEN j.writes[f] ELSE row[f]]
      /\ job' = [v \in Worker |->
                    IF v = w THEN None
                    ELSE IF job[v] = None THEN None
                    ELSE [job[v] EXCEPT !.unseen = @ \cup Written(w)]]
  BY DEF Commit, Serving, Written
<1>2. /\ DOMAIN j.writes \subseteq File
      /\ \A f \in DOMAIN j.writes : j.writes[f] \in Row \cup {None}
  BY <1>0, <1>1, JobTypes, Partials
<1>3. /\ row' \in Rows
      /\ \A f \in DOMAIN j.writes : row'[f] = j.writes[f]
      /\ \A f \in File \ DOMAIN j.writes : row'[f] = row[f]
  BY <1>0, <1>1, <1>2 DEF TypeOK, Rows
<1>4. \A f \in DOMAIN j.writes : Live(j.writes[f]) => j.writes[f].identifier \in Written(w)
  BY DEF Live, Written, Identifiers
<1>5. Written(w) \subseteq Identifier
  BY <1>2 DEF Written, Identifiers, Row
<1>6. ASSUME NEW v \in Worker \ {w}, job[v] # None
      PROVE  /\ job'[v] \in Job /\ IsSame(job'[v], job[v])
             /\ job'[v].unseen = job[v].unseen \cup Written(w)
  <2>1. PICK i : i = job[v]
    OBVIOUS
  <2>2. i \in Job
    BY <1>0, <1>6, <2>1, JobTypes
  <2>3. job'[v] = [i EXCEPT !.unseen = i.unseen \cup Written(w)]
    BY <1>1, <1>6, <2>1
  <2>4. i.unseen \cup Written(w) \in SUBSET Identifier
    BY <1>5, <2>2 DEF Job
  <2>5. /\ job'[v] \in Job /\ IsSame(job'[v], i) /\ job'[v].unseen = i.unseen \cup Written(w)
    BY <2>2, <2>3, <2>4 DEF Job, IsSame
  <2> QED BY <2>1, <2>5
<1>7. job' \in [Worker -> Job \cup {None}]
  <2>1. \A v \in Worker : job'[v] \in Job \cup {None}
    BY <1>1, <1>6, Zenon
  <2> QED BY <1>1, <2>1, Zenon
<1>8. \A v \in Worker \ {w} : job[v] # None => job'[v] # None
  BY <1>6, NoneIsNoRecord
<1>9. job'[w] = None /\ \A v \in Worker \ {w} : job[v] = None => job'[v] = None
  BY <1>1
<1> QED BY <1>1, <1>3, <1>4, <1>6, <1>7, <1>8, <1>9, Zenon

\* A record that is new with an identifier has been written by the request.
LEMMA KnownGrows ==
    ASSUME IInv, NEW w \in Worker, Commit(w), NEW known, NEW i, NEW g \in File,
           IsKnown(known, i, g),
           NEW more, known \cup Written(w) \subseteq more
    PROVE  IsKnown(more, i, g)'
<1> SUFFICES ASSUME Stored(g)', row'[g].identifier = i
             PROVE  i \in more \cup overlapped'
  BY DEF IsKnown
<1>1. CASE g \in DOMAIN job[w].writes
  BY <1>1, Committed DEF Stored, Live
<1>2. CASE g \notin DOMAIN job[w].writes
  BY <1>2, Committed DEF Stored, IsKnown
<1> QED BY <1>1, <1>2

\* The other requests go on.
LEMMA OthersFit ==
    ASSUME IInv, NEW w \in Worker, Commit(w), NEW v \in Worker \ {w}, job[v] # None
    PROVE  Fits(job[v])'
<1> DEFINE W == job[w].writes
<1>0. TypeOK
  BY DEF IInv
<1>1. PICK i : i = job[v]
  OBVIOUS
<1>2. PICK j : j = job'[v]
  OBVIOUS
<1>3. IsSame(j, i) /\ j.unseen = i.unseen \cup Written(w)
  BY <1>1, <1>2, Committed
<1>4. Fits(i)
  BY <1>1 DEF IInv, JobsFit
<1>5. /\ DOMAIN i.writes \subseteq File
      /\ \A f \in DOMAIN i.writes : f \notin DOMAIN W
  <2>1. /\ DOMAIN i.writes \subseteq i.locks /\ DOMAIN W \subseteq job[w].locks
        /\ job[v].locks \cap job[w].locks = {}
    BY <1>1, <1>4, Committed DEF IInv, JobsFit, JobsAreApart, Apart, Fits, StepFits
  <2>2. i.locks \subseteq File
    BY <1>0, <1>1, JobTypes
  <2> QED BY <1>1, <2>1, <2>2
<1>6. \A f \in DOMAIN i.writes : row'[f] = row[f]
  BY <1>5, Committed
<1>7. StepFits(j)
  BY <1>3, <1>4 DEF Fits, StepFits, IsSame
<1>8. BulkFollows(j)'
  <2> SUFFICES ASSUME j.kind \in Bulk, NEW f \in DOMAIN j.writes
               PROVE  Follows(f, j.writes[f], j.change)'
    BY DEF BulkFollows
  <2>1. f \in DOMAIN i.writes /\ Follows(f, j.writes[f], j.change)
    BY <1>3, <1>4 DEF Fits, BulkFollows, IsSame
  <2> QED BY <1>6, <2>1 DEF Follows
<1>9. SingleIsKnown(j)'
  <2> SUFFICES ASSUME j.kind \in Single, j.step = "lock"
               PROVE  FoundIsKnown(j.found, j.seen, j.unseen)'
    BY DEF SingleIsKnown
  <2>1. FoundIsKnown(j.found, j.seen, i.unseen)
    BY <1>3, <1>4 DEF Fits, SingleIsKnown, IsSame
  <2>2. ASSUME NEW k, NEW g \in File, IsKnown(i.unseen, k, g) PROVE IsKnown(j.unseen, k, g)'
    BY <1>3, <2>2, KnownGrows
  <2> QED BY <2>1, <2>2 DEF FoundIsKnown
<1>10. WritesAreUnique(j)'
  <2> SUFFICES ASSUME NEW f \in DOMAIN j.writes, Live(j.writes[f])
               PROVE  IsUniqueWrite(j.writes, j.unseen, f)'
    BY DEF WritesAreUnique, Live
  <2>1. IsUniqueWrite(j.writes, i.unseen, f)
    BY <1>3, <1>4 DEF Fits, WritesAreUnique, IsSame
  <2>2. \A g \in DOMAIN j.writes \ {f} :
            Live(j.writes[g]) /\ j.writes[g].identifier = j.writes[f].identifier =>
                j.writes[f].identifier \in overlapped' /\ ~SameKey(j.writes[g], j.writes[f])
    BY <2>1, Committed DEF IsUniqueWrite
  <2>3. \A g \in File \ DOMAIN j.writes : IsKnown(j.unseen, j.writes[f].identifier, g)'
    BY <1>3, <2>1, KnownGrows DEF IsUniqueWrite
  <2>4. ASSUME NEW g \in File \ DOMAIN j.writes, Stored(g)' PROVE ~SameKey(row'[g], j.writes[f])
    <3>1. CASE g \in DOMAIN W
      <4>1. row'[g] = W[g] /\ Live(W[g])
        BY <2>4, <3>1, Committed DEF Stored, Live
      <4>2. j.writes[f] = job[v].writes[f] /\ f \in DOMAIN job[v].writes
        BY <1>1, <1>3 DEF IsSame
      <4>3. ~SameKey(W[g], job[v].writes[f])
        BY <3>1, <4>1, <4>2, Committed DEF IInv, JobsAreApart, Apart
      <4> QED BY <4>1, <4>2, <4>3
    <3>2. CASE g \notin DOMAIN W
      <4>1. row'[g] = row[g] /\ Stored(g)
        BY <2>4, <3>2, Committed DEF Stored
      <4> QED BY <2>1, <4>1 DEF IsUniqueWrite
    <3> QED BY <3>1, <3>2
  <2> QED BY <2>2, <2>3, <2>4 DEF IsUniqueWrite, Live, SameKey
<1>11. Fits(j)'
  BY <1>7, <1>8, <1>9, <1>10 DEF Fits, StepFits, Live
<1> QED BY <1>2, <1>11 DEF Fits, StepFits, BulkFollows, SingleIsKnown, WritesAreUnique

LEMMA CommittedApart ==
    ASSUME IInv, NEW w \in Worker, Commit(w)
    PROVE  JobsFit' /\ JobsAreApart'
<1>1. JobsFit'
  BY OthersFit, Committed DEF JobsFit
<1>2. JobsAreApart'
  <2> SUFFICES ASSUME NEW u \in Worker, NEW v \in Worker, u # v, job'[u] # None, job'[v] # None
               PROVE  Apart(job'[u], job'[v])
    BY DEF JobsAreApart, Apart
  <2>1. u # w /\ v # w /\ job[u] # None /\ job[v] # None
    BY Committed
  <2>2. IsSame(job'[u], job[u]) /\ IsSame(job'[v], job[v])
    BY <2>1, Committed
  <2>3. Apart(job[u], job[v])
    BY <2>1 DEF IInv, JobsAreApart
  <2> QED BY <2>2, <2>3 DEF Apart, IsSame
<1> QED BY <1>1, <1>2

LEMMA CommittedUnique ==
    ASSUME IInv, NEW w \in Worker, Commit(w)
    PROVE  IdentifiersAreUnique'
<1> DEFINE W == job[w].writes
<1>1. WritesAreUnique(job[w])
  BY Committed DEF IInv, JobsFit, Fits
<1>2. ASSUME NEW f \in DOMAIN W, NEW g \in File, f # g, Stored(f)', Stored(g)',
             row'[f].identifier = row'[g].identifier
      PROVE  row'[f].identifier \in overlapped' /\ row'[f].project # row'[g].project
  <2>1. row'[f] = W[f] /\ Live(W[f]) /\ W[f].identifier \in Written(w)
    BY <1>2, Committed DEF Stored, Live
  <2>2. IsUniqueWrite(W, job[w].unseen, f)
    BY <1>1, <2>1 DEF WritesAreUnique
  <2>3. CASE g \in DOMAIN W
    <3>1. row'[g] = W[g] /\ Live(W[g])
      BY <1>2, <2>3, Committed DEF Stored, Live
    <3> QED BY <1>2, <2>1, <2>2, <2>3, <3>1, Committed DEF IsUniqueWrite, SameKey
  <2>4. CASE g \notin DOMAIN W
    <3>1. row'[g] = row[g] /\ Stored(g)
      BY <1>2, <2>4, Committed DEF Stored
    <3>2. W[f].identifier \in job[w].unseen \cup overlapped /\ ~SameKey(row[g], W[f])
      BY <1>2, <2>1, <2>2, <2>4, <3>1 DEF IsUniqueWrite, IsKnown
    <3> QED BY <1>2, <2>1, <3>1, <3>2, Committed DEF SameKey
  <2> QED BY <2>3, <2>4
<1>3. ASSUME NEW f \in File \ DOMAIN W, NEW g \in File \ DOMAIN W, f # g, Stored(f)', Stored(g)',
             row'[f].identifier = row'[g].identifier
      PROVE  row'[f].identifier \in overlapped' /\ row'[f].project # row'[g].project
  <2>1. row'[f] = row[f] /\ row'[g] = row[g] /\ Stored(f) /\ Stored(g)
    BY <1>3, Committed DEF Stored
  <2> QED BY <1>3, <2>1, Committed DEF IInv, IdentifiersAreUnique
<1> SUFFICES ASSUME NEW f \in File, NEW g \in File, f # g, Stored(f)', Stored(g)',
                    row'[f].identifier = row'[g].identifier
             PROVE  row'[f].identifier \in overlapped' /\ row'[f].project # row'[g].project
  BY DEF IdentifiersAreUnique
<1>4. CASE f \in DOMAIN W
  BY <1>2, <1>4
<1>5. CASE g \in DOMAIN W
  BY <1>2, <1>5
<1>6. CASE f \notin DOMAIN W /\ g \notin DOMAIN W
  BY <1>3, <1>6
<1> QED BY <1>4, <1>5, <1>6

LEMMA CommittedTold ==
    ASSUME IInv, NEW w \in Worker, Commit(w)
    PROVE  ToldIsWritten' /\ InStepUnlessTold'
<1> DEFINE W == job[w].writes
           S == Sent(job[w])
<1>0. TypeOK /\ StepFits(job[w])
  BY Committed DEF IInv, JobsFit, Fits
<1>1. \A v \in Worker \ {w} : job[v] # None =>
          /\ job'[v] # None /\ job'[v].step = job[v].step
          /\ job'[v].writes = job[v].writes /\ Sent(job'[v]) = Sent(job[v])
  <2> SUFFICES ASSUME NEW v \in Worker \ {w}, job[v] # None
               PROVE  /\ job'[v] # None /\ job'[v].step = job[v].step
                      /\ job'[v].writes = job[v].writes /\ Sent(job'[v]) = Sent(job[v])
    OBVIOUS
  <2>1. job'[v] # None /\ IsSame(job'[v], job[v])
    BY Committed
  <2> QED BY <2>1 DEF IsSame, Sent
<1>2. ToldIsWritten'
  <2> SUFFICES ASSUME NEW v \in Worker, job'[v] # None, job'[v].step = "commit",
                      NEW f \in DOMAIN Sent(job'[v]) \ spared'
               PROVE  f \in DOMAIN job'[v].writes /\ v2'[f] = Told(Sent(job'[v])[f])
    BY Zenon DEF ToldIsWritten, Sent, Told
  <2>1. v # w /\ job[v] # None
    BY Committed
  <2>2. job[v].step = "commit" /\ f \in DOMAIN Sent(job[v]) \ spared
    BY <1>1, <2>1, Committed
  <2>3. f \in DOMAIN job[v].writes /\ v2[f] = Told(Sent(job[v])[f])
    BY <2>1, <2>2 DEF IInv, ToldIsWritten
  <2> QED BY <1>1, <2>1, <2>3, Committed
<1>3. ASSUME NEW f \in File, f \notin adrift', f \notin spared' PROVE IsTold(f)' \/ IsInStep(f)'
  <2>1. f \notin spared /\ v2' = v2
    BY <1>3, Committed
  <2>2. CASE f \in DOMAIN S
    <3>1. f \in DOMAIN W /\ v2[f] = Told(S[f])
      BY <2>1, <2>2, Committed DEF IInv, ToldIsWritten
    <3>2. row'[f] = W[f]
      BY <3>1, Committed
    <3>3. CASE job[w].kind \in List
      <4>1. ~Live(W[f])
        BY <1>0, <3>1, <3>3 DEF StepFits
      <4>2. S[f] \in Row /\ S[f].removed
        BY <1>0, <2>2, <3>3, SentTypes, Committed
      <4>3. v2[f] # None /\ ~v2[f].stored
        BY <3>1, <4>2, ToldTypes, Zenon
      <4> QED BY <2>1, <3>2, <4>1, <4>3 DEF IsInStep, Stored, Live
    <3>4. CASE job[w].kind \notin List
      <4>1. S = W /\ W[f] # None
        BY <1>0, <3>1, <3>4, SentTypes, Committed DEF StepFits
      <4>2. v2'[f] = Told(row'[f]) /\ row'[f] # None
        BY <2>1, <3>1, <3>2, <4>1
      <4> QED BY <4>2 DEF IsInStep, InStep, Told
    <3> QED BY <3>3, <3>4
  <2>3. CASE f \notin DOMAIN S
    <3>1. f \notin adrift /\ f \notin DOMAIN W
      BY <1>3, <2>3, Committed
    <3>2. row'[f] = row[f]
      BY <3>1, Committed
    <3>3. IsTold(f) => IsTold(f)'
      <4> SUFFICES ASSUME NEW v \in Worker, job[v] # None, job[v].step = "commit",
                          f \in DOMAIN Sent(job[v])
                   PROVE  IsTold(f)'
        BY DEF IsTold
      <4>1. v # w
        BY <2>3
      <4>2. job'[v] # None /\ job'[v].step = "commit" /\ f \in DOMAIN Sent(job'[v])
        BY <1>1, <4>1
      <4> QED BY <4>2 DEF IsTold, Sent
    <3>4. IsInStep(f) => IsInStep(f)'
      BY <2>1, <3>2 DEF IsInStep, InStep, Stored
    <3> QED BY <2>1, <3>1, <3>3, <3>4 DEF IInv, InStepUnlessTold
  <2> QED BY <2>2, <2>3
<1>4. InStepUnlessTold'
  BY <1>3 DEF InStepUnlessTold
<1> QED BY <1>2, <1>4

-----------------------------------------------------------------------------
(* The theorems.                                                               *)

\* What any other step does.
OnItsWay(w) ==
    \E n : Goes(w, n) /\ n.step # "commit" /\ job[w].step # "commit"
           /\ UNCHANGED << v2, adrift, spared >>

LEMMA OtherSteps ==
    ASSUME IInv, NEW w \in Worker,
           \/ \E f \in File : LockFile(w, f)
           \/ ApplyBulk(w) \/ ApplySingle(w) \/ ListFiles(w) \/ ApplyList(w)
    PROVE  OnItsWay(w)
BY Locking, Listing, BulkWrites, SingleWrites, ListWrites DEF OnItsWay

LEMMA TypeStep == IInv /\ [Next]_vars => TypeOK'
<1> SUFFICES ASSUME IInv, [Next]_vars PROVE TypeOK'
  OBVIOUS
<1>0. TypeOK
  BY DEF IInv
<1>1. ASSUME NEW w \in Worker, NEW n, Goes(w, n)
      PROVE  job' \in [Worker -> Job \cup {None}] /\ row' \in Rows
            /\ overlapped' \subseteq Identifier
  BY <1>0, <1>1 DEF TypeOK, Goes
<1>2. ASSUME NEW w \in Worker, Begin(w) PROVE TypeOK'
  <2>1. PICK n : Received(w, n)
    BY <1>2, Begun
  <2>2. requests' \in 0..MaxRequests
    BY <1>0, <2>1, FileAssumption DEF TypeOK, Received
  <2> QED BY <1>0, <1>1, <2>1, <2>2 DEF Received, TypeOK
<1>3. ASSUME NEW w \in Worker,
             \/ \E f \in File : LockFile(w, f)
             \/ ApplyBulk(w) \/ ApplySingle(w) \/ ListFiles(w) \/ ApplyList(w)
      PROVE  TypeOK'
  <2>1. PICK n : Goes(w, n) /\ UNCHANGED << v2, adrift, spared >>
    BY <1>3, OtherSteps, SMTT(30) DEF OnItsWay
  <2>2. requests' = requests
    BY <1>3, Zenon DEF LockFile, ApplyBulk, ApplySingle, ListFiles, ApplyList, Write
  <2> QED BY <1>0, <1>1, <2>1, <2>2 DEF TypeOK
<1>4. ASSUME NEW w \in Worker, SyncToV2(w) PROVE TypeOK'
  <2>1. PICK n : Goes(w, n) /\ job[w] # None
    BY <1>4, Telling
  <2>2. DOMAIN Sent(job[w]) \subseteq File /\ \A f \in DOMAIN Sent(job[w]) : Sent(job[w])[f] \in Row
    BY <1>0, <2>1, SentTypes DEF IInv, JobsFit, Fits
  <2>3. /\ v2' = [f \in File |-> IF f \in DOMAIN Sent(job[w]) THEN Told(Sent(job[w])[f]) ELSE v2[f]]
        /\ spared' = spared \cup (DOMAIN Sent(job[w]) \ DOMAIN job[w].writes)
        /\ requests' = requests /\ adrift' = adrift
    BY <1>4 DEF SyncToV2
  <2>4. v2' \in [File -> Known \cup {None}]
    BY <1>0, <2>2, <2>3, ToldTypes DEF TypeOK
  <2> QED BY <1>0, <1>1, <2>1, <2>2, <2>3, <2>4 DEF TypeOK
<1>5. ASSUME NEW w \in Worker, Commit(w) PROVE TypeOK'
  <2>1. DOMAIN job[w].writes \subseteq File
    BY <1>0, <1>5, Committed, JobTypes, Partials
  <2>2. job[w].unseen \subseteq Identifier
    BY <1>0, <1>5, Committed, JobTypes
  <2>3. requests' = requests
    BY <1>5 DEF Commit
  <2>4. /\ job' \in [Worker -> Job \cup {None}] /\ row' \in Rows /\ v2' = v2 /\ spared' = spared
        /\ overlapped' \subseteq overlapped \cup job[w].unseen
        /\ adrift' \subseteq adrift \cup DOMAIN job[w].writes
    BY <1>5, Committed
  <2> QED BY <1>0, <2>1, <2>2, <2>3, <2>4 DEF TypeOK
<1>6. ASSUME NEW w \in Worker, Fail(w) PROVE TypeOK'
  <2>1. DOMAIN Sent(job[w]) \subseteq File
    BY <1>0, <1>6, SentTypes DEF Fail, IInv, JobsFit, Fits
  <2>2. /\ job' = [job EXCEPT ![w] = None] /\ adrift' \subseteq adrift \cup DOMAIN Sent(job[w])
        /\ UNCHANGED << row, v2, requests, overlapped, spared >>
    BY <1>6 DEF Fail
  <2> QED BY <1>0, <2>1, <2>2 DEF TypeOK
<1>7. CASE UNCHANGED vars
  BY <1>0, <1>7 DEF vars, TypeOK, Stored, InStep
<1> QED BY <1>2, <1>3, <1>4, <1>5, <1>6, <1>7 DEF Next

LEMMA Stutters ==
    ASSUME IInv, UNCHANGED vars
    PROVE  JobsFit' /\ JobsAreApart' /\ IdentifiersAreUnique' /\ ToldIsWritten' /\ InStepUnlessTold'
<1>1. row' = row /\ v2' = v2 /\ job' = job /\ overlapped' = overlapped
      /\ adrift' = adrift /\ spared' = spared
  BY DEF vars
<1>2. JobsFit'
  BY <1>1 DEF IInv, JobsFit, Fits, StepFits, BulkFollows, Follows, SingleIsKnown, FoundIsKnown,
              WritesAreUnique, IsUniqueWrite, IsKnown, Stored
<1>3. JobsAreApart'
  BY <1>1 DEF IInv, JobsAreApart, Apart
<1>4. IdentifiersAreUnique'
  BY <1>1 DEF IInv, IdentifiersAreUnique, Stored
<1>5. ToldIsWritten'
  <2> SUFFICES ASSUME NEW w \in Worker, job'[w] # None, job'[w].step = "commit",
                      NEW f \in DOMAIN Sent(job'[w]) \ spared
               PROVE  f \in DOMAIN job'[w].writes /\ v2[f] = Told(Sent(job'[w])[f])
    BY <1>1, ZenonT(60) DEF ToldIsWritten, Sent, Told
  <2> QED BY <1>1 DEF IInv, ToldIsWritten
<1>6. InStepUnlessTold'
  BY <1>1 DEF IInv, InStepUnlessTold, IsTold, Sent, IsInStep, InStep, Told, Stored
<1> QED BY <1>2, <1>3, <1>4, <1>5, <1>6

LEMMA Step == IInv /\ [Next]_vars => IInv'
<1> SUFFICES ASSUME IInv, [Next]_vars
             PROVE  JobsFit' /\ JobsAreApart' /\ IdentifiersAreUnique' /\ ToldIsWritten'
                        /\ InStepUnlessTold'
  BY TypeStep DEF IInv
<1>1. ASSUME NEW w \in Worker, Begin(w)
      PROVE  /\ JobsFit' /\ JobsAreApart' /\ IdentifiersAreUnique'
             /\ ToldIsWritten' /\ InStepUnlessTold'
  <2>1. PICK n : Received(w, n)
    BY <1>1, Begun
  <2>2. Goes(w, n) /\ job' = [job EXCEPT ![w] = n] /\ row' = row
        /\ v2' = v2 /\ adrift' = adrift /\ spared' = spared
        /\ job[w] = None /\ n.step # "commit"
    BY <2>1 DEF Received, Goes
  <2> QED BY <2>2, Frame, Untold, Zenon
<1>2. ASSUME NEW w \in Worker, OnItsWay(w)
      PROVE  /\ JobsFit' /\ JobsAreApart' /\ IdentifiersAreUnique'
             /\ ToldIsWritten' /\ InStepUnlessTold'
  <2>1. PICK n : Goes(w, n) /\ n.step # "commit" /\ job[w].step # "commit"
                 /\ UNCHANGED << v2, adrift, spared >>
    BY <1>2 DEF OnItsWay
  <2>2. job' = [job EXCEPT ![w] = n] /\ row' = row
        /\ v2' = v2 /\ adrift' = adrift /\ spared' = spared
    BY <2>1 DEF Goes
  <2> QED BY <2>1, <2>2, Frame, Untold, Zenon
<1>3. ASSUME NEW w \in Worker, SyncToV2(w)
      PROVE  /\ JobsFit' /\ JobsAreApart' /\ IdentifiersAreUnique'
             /\ ToldIsWritten' /\ InStepUnlessTold'
  <2>1. PICK n : Goes(w, n)
    BY <1>3, Telling
  <2> QED BY <1>3, <2>1, Frame, TellingV2
<1>4. ASSUME NEW w \in Worker, Commit(w)
      PROVE  /\ JobsFit' /\ JobsAreApart' /\ IdentifiersAreUnique'
             /\ ToldIsWritten' /\ InStepUnlessTold'
  BY <1>4, CommittedApart, CommittedUnique, CommittedTold
<1> QED BY <1>1, <1>2, <1>3, <1>4, Failing, Stutters, OtherSteps DEF Next

LEMMA Invariance == Spec => []IInv
BY InitIsGood, Step, PTL DEF Spec

\* Any number of files, identifiers, projects and requests at a time: two records
\* share an identifier only if requests in two projects overlapped.
THEOREM IdentifiersAreUniqueCorrect == Spec => []IdentifiersAreUnique
<1>1. IInv => IdentifiersAreUnique
  BY DEF IInv
<1> QED BY <1>1, Invariance, PTL

\* Metax V2 knows every file that no request is about, however many requests told
\* it of which files and in which order, with the exceptions that adrift and spared
\* record.
THEOREM V2IsInStepCorrect == Spec => []V2IsInStep
<1>1. ASSUME IInv PROVE V2IsInStep
  <2> SUFFICES ASSUME NEW f \in File, f \notin adrift \cup spared, ~IsInStep(f)
               PROVE  \E w \in Worker : job[w] # None /\ f \in DOMAIN job[w].writes
    BY DEF V2IsInStep, IsInStep
  <2>1. PICK w \in Worker : job[w] # None /\ job[w].step = "commit" /\ f \in DOMAIN Sent(job[w])
    BY <1>1 DEF IInv, InStepUnlessTold, IsTold
  <2> QED BY <1>1, <2>1 DEF IInv, ToldIsWritten
<1> QED BY <1>1, Invariance, PTL

\* No bulk request of the storage service changes a file that the preservation
\* service was processing when the request committed.
THEOREM PasFilesAreLeftAloneCorrect == Spec => PasFilesAreLeftAlone
<1> DEFINE Left ==
        \A w \in Worker : job[w] # None /\ job[w].kind \in Bulk /\ Commit(w) =>
           \A f \in DOMAIN job[w].writes :
               row[f] # None /\ row[f].pas => job[w].change.user = "pas"
<1>1. IInv => Left
  BY DEF IInv, JobsFit, Fits, BulkFollows, Follows
<1> QED BY <1>1, Invariance, PTL DEF PasFilesAreLeftAlone

\* What a bulk request writes follows from what has been committed before it.
THEOREM BulkKeepsOtherChangesCorrect == Spec => BulkKeepsOtherChanges
<1> DEFINE Kept ==
        \A w \in Worker : job[w] # None /\ job[w].kind \in Bulk /\ Commit(w) =>
           \A f \in DOMAIN job[w].writes :
               LET old == row[f] new == row'[f]
               IN old # None =>
                      /\ ~old.removed
                      /\ new \in {[old EXCEPT !.removed = TRUE], Changed(old, job[w].change)}
<1>1. ASSUME IInv PROVE Kept
  <2> SUFFICES ASSUME NEW w \in Worker, job[w] # None, job[w].kind \in Bulk, Commit(w),
                      NEW f \in DOMAIN job[w].writes, row[f] # None
               PROVE  /\ ~row[f].removed
                      /\ row'[f] \in {[row[f] EXCEPT !.removed = TRUE],
                                      Changed(row[f], job[w].change)}
    OBVIOUS
  <2>1. Follows(f, job[w].writes[f], job[w].change)
    BY <1>1 DEF IInv, JobsFit, Fits, BulkFollows
  <2>2. row'[f] = job[w].writes[f]
    BY <1>1, Committed
  <2> QED BY <2>1, <2>2 DEF Follows
<1> QED BY <1>1, Invariance, PTL DEF BulkKeepsOtherChanges

(***************************************************************************)
(*                            PUBLICATION TIMES                            *)
(***************************************************************************)

-----------------------------------------------------------------------------
(* The invariant. *)

\* Datasets and drafts have file sets of their own, that have been made.
SetsAreOwn ==
    /\ \A d \in Dataset :
        /\ Exists(d) => dataset[d].set \in 1..used.sets
        /\ draft[d] # None => draft[d].set \in 1..used.sets
    /\ \A d, e \in Dataset :
        /\ d # e /\ Exists(d) /\ Exists(e) => dataset[d].set # dataset[e].set
        /\ d # e /\ draft[d] # None /\ draft[e] # None => draft[d].set # draft[e].set
        /\ Exists(d) /\ draft[e] # None => dataset[d].set # draft[e].set

\* A linked draft is of a published dataset that is not removed.
DraftsArePublished ==
    \A d \in Dataset : draft[d] # None => dataset[d].state = "published" /\ ~dataset[d].removed

\* A worker has a task unless it is idle, and skips no part of it.
TasksFit ==
    \A w \in TaskWorker :
        /\ pc[w] # "idle" => taken[w] \in Task
        /\ pc[w] = "unpublish" => ~PublishesAll(taken[w])

\* Tasks that are going to look at the files of a set and unpublish those that
\* are not in a public dataset.
IsAwaited(s) ==
    \/ \E t \in BagToSet(tasks) : t.set = s /\ ~PublishesAll(t)
    \/ \E w \in TaskWorker : pc[w] = "unpublish" /\ taken[w].set = s

\* A dataset that has been published, removed or deprecated as it may be, has
\* the file and a task that waits.
IsWaitedFor(f) ==
    \E d \in Dataset :
        /\ dataset[d].state = "published"
        /\ f \in files[dataset[d].set]
        /\ IsAwaited(dataset[d].set)

PublishedIsAccounted ==
    /\ published \subseteq stored
    /\ \A f \in published : f \in FilesOf(PublicSets) \/ f \in leaked \/ IsWaitedFor(f)

PublicationInv ==
    /\ PublicationTypeOK
    /\ SetsAreOwn
    /\ DraftsArePublished
    /\ TasksFit
    /\ PublishedIsAccounted

-----------------------------------------------------------------------------
(* Bags. *)

LEMMA Added ==
    ASSUME NEW B, IsABag(B), NEW S
    PROVE  /\ IsABag(B (+) SetToBag(S))
           /\ BagToSet(B (+) SetToBag(S)) = BagToSet(B) \cup S
BY DEF IsABag, SetToBag, BagToSet, (+)

LEMMA Taken ==
    ASSUME NEW B, IsABag(B), NEW t \in BagToSet(B)
    PROVE  /\ IsABag(B (-) SetToBag({t}))
           /\ BagToSet(B (-) SetToBag({t})) \subseteq BagToSet(B)
           /\ BagToSet(B) \ {t} \subseteq BagToSet(B (-) SetToBag({t}))
BY DEF IsABag, SetToBag, BagToSet, (-)

LEMMA Made ==
    ASSUME PublicationTypeOK, NEW S, S \subseteq Task, Make(S)
    PROVE  /\ IsABag(tasks') /\ BagToSet(tasks') \subseteq Task
           /\ BagToSet(tasks') = BagToSet(tasks) \cup S
BY Added DEF PublicationTypeOK, Make

-----------------------------------------------------------------------------
(* Types. *)

DatasetRow == [state : {"none", "draft", "published", "flushed"}, removed : BOOLEAN,
               deprecated : BOOLEAN, set : Sets \cup {None}]

DraftRow == [set : Sets, deprecated : BOOLEAN]

\* What save and delete have made of a saved with a file set.
LEMMA TasksAreTasks ==
    ASSUME NEW saved, saved.set \in Sets
    PROVE  /\ \A isNew, added \in BOOLEAN : TasksOfSave(saved, isNew, added) \subseteq Task
           /\ TasksOfDelete(saved) \subseteq Task
<1>1. \A self \in BOOLEAN : TaskOf(saved.set, self, IsPublic(saved)) \in Task
  BY DEF TaskOf, Task, IsPublic
<1>2. \A isNew, added \in BOOLEAN :
         TasksOfSave(saved, isNew, added) \subseteq {TaskOf(saved.set, FALSE, IsPublic(saved))}
  BY Zenon DEF TasksOfSave
<1>3. TasksOfDelete(saved) \subseteq {TaskOf(saved.set, TRUE, IsPublic(saved))}
  BY Zenon DEF TasksOfDelete
<1> QED BY <1>1, <1>2, <1>3, Zenon

LEMMA SetsAreSets ==
    ASSUME PublicationTypeOK, SetsAreOwn, NEW d \in Dataset
    PROVE  /\ Exists(d) => dataset[d].set \in Sets
           /\ draft[d] # None => draft[d] \in DraftRow
BY PublicationAssumption DEF PublicationTypeOK, SetsAreOwn, Sets, DraftRow

LEMMA PublicationInitIsGood == PublicationInit => PublicationInv
<1> SUFFICES ASSUME PublicationInit PROVE PublicationInv OBVIOUS
<1>1. IsABag(tasks) /\ BagToSet(tasks) = {}
  BY DEF PublicationInit, EmptyBag, SetToBag, BagToSet, IsABag
<1>2. PublicationTypeOK
  BY <1>1, PublicationAssumption DEF PublicationInit, PublicationTypeOK, NoDataset
<1>3. SetsAreOwn
  BY DEF PublicationInit, SetsAreOwn, Exists, NoDataset
<1> QED
  BY <1>2, <1>3
       DEF PublicationInit, PublicationInv, DraftsArePublished, TasksFit, PublishedIsAccounted

\* A request takes a new file set, or none.
LEMMA CountsFit ==
    ASSUME PublicationTypeOK
    PROVE  /\ \A kind : Asked(kind) =>
                  /\ used' \in [sets : 0..MaxSets, requests : 0..MaxChanges,
                            crashes : 0..MaxCrashes]
                  /\ used'.sets = used.sets
           /\ \A kind : AskedForSet(kind) =>
                  /\ used' \in [sets : 0..MaxSets, requests : 0..MaxChanges,
                            crashes : 0..MaxCrashes]
                  /\ used'.sets = used.sets + 1 /\ used'.sets \in Sets
<1>1. used.sets \in 0..MaxSets /\ used.requests \in 0..MaxChanges
  BY DEF PublicationTypeOK
<1>2. ASSUME NEW kind, Asked(kind)
      PROVE  /\ used' \in [sets : 0..MaxSets, requests : 0..MaxChanges, crashes : 0..MaxCrashes]
             /\ used'.sets = used.sets
  <2>1. used.requests + 1 \in 0..MaxChanges
    BY <1>1, <1>2, PublicationAssumption DEF Asked
  <2> QED BY <1>2, <2>1 DEF Asked, PublicationTypeOK
<1>3. ASSUME NEW kind, AskedForSet(kind)
      PROVE  /\ used' \in [sets : 0..MaxSets, requests : 0..MaxChanges, crashes : 0..MaxCrashes]
             /\ used'.sets = used.sets + 1 /\ used'.sets \in Sets
  <2>1. used.requests + 1 \in 0..MaxChanges /\ used.sets + 1 \in 0..MaxSets
        /\ used.sets + 1 \in Sets
    BY <1>1, <1>3, PublicationAssumption DEF AskedForSet, Sets
  <2> QED BY <1>3, <2>1, Zenon DEF AskedForSet, PublicationTypeOK
<1> QED BY <1>2, <1>3

DatasetType == dataset \in [Dataset -> DatasetRow]
RestType ==
    /\ draft \in [Dataset -> DraftRow \cup {None}]
    /\ files \in [Sets -> SUBSET File]
    /\ stored \subseteq File /\ published \subseteq File
    /\ missed \subseteq File /\ leaked \subseteq File
CountType == used \in [sets : 0..MaxSets, requests : 0..MaxChanges, crashes : 0..MaxCrashes]
WorkType ==
    /\ pc \in [TaskWorker -> {"idle", "unpublish", "publish"}]
    /\ taken \in [TaskWorker -> Task \cup {None}]
TasksType == IsABag(tasks) /\ BagToSet(tasks) \subseteq Task

LEMMA TypeParts ==
    /\ PublicationTypeOK <=> DatasetType /\ RestType /\ CountType /\ WorkType /\ TasksType
    /\ PublicationTypeOK' <=> DatasetType' /\ RestType' /\ CountType' /\ WorkType' /\ TasksType'
BY DEF PublicationTypeOK, DatasetType, RestType, CountType, WorkType, TasksType,
       DatasetRow, DraftRow

LEMMA CreateKeepsTypes ==
    ASSUME PublicationInv, NEW d \in Dataset, NEW fs \in SUBSET File, Create(d, fs)
    PROVE  PublicationTypeOK'
<1>1. used.sets + 1 \in Sets /\ used'.sets = used.sets + 1 /\ CountType'
  <2>1. used.sets \in 0..MaxSets /\ used.sets + 1 \in 0..MaxSets /\ used.sets + 1 \in Sets
    BY PublicationAssumption DEF PublicationInv, PublicationTypeOK, Create, Sets
  <2> QED BY <2>1 DEF Create, PublicationInv, PublicationTypeOK, CountType
<1>2. DatasetType'
  <2> DEFINE saved == [dataset[d] EXCEPT !.state = "draft", !.set = used'.sets]
  <2>1. dataset[d] \in DatasetRow
    BY TypeParts DEF PublicationInv, DatasetType
  <2>2. saved \in DatasetRow
    BY <1>1, <2>1, Zenon DEF DatasetRow
  <2>3. dataset' = [dataset EXCEPT ![d] = saved]
    BY DEF Create
  <2> HIDE DEF saved
  <2> QED BY <2>2, <2>3, TypeParts DEF PublicationInv, DatasetType
<1>3. RestType'
  BY <1>1, TypeParts DEF PublicationInv, RestType, Create
<1>4. WorkType' /\ TasksType'
  BY TypeParts DEF PublicationInv, WorkType, TasksType, Create
<1> QED BY <1>1, <1>2, <1>3, <1>4, TypeParts

LEMMA PublishKeepsTypes ==
    ASSUME PublicationInv, NEW d \in Dataset, Publish(d) PROVE PublicationTypeOK'
<1>1. CountType'
  BY CountsFit DEF PublicationInv, Publish, CountType
<1>2. DatasetType' /\ dataset'[d].set \in Sets
  BY TypeParts, SetsAreSets DEF PublicationInv, DatasetType, DatasetRow, Publish, Exists
<1>3. RestType' /\ WorkType'
  BY TypeParts DEF PublicationInv, RestType, WorkType, Publish
<1>4. TasksType'
  BY <1>2, TasksAreTasks, Made, Zenon DEF PublicationInv, TasksType, Publish
<1> QED BY <1>1, <1>2, <1>3, <1>4, TypeParts

LEMMA AddFileKeepsTypes ==
    ASSUME PublicationInv, NEW d \in Dataset, NEW f \in File, AddFile(d, f) \/ AddFileToDraft(d, f)
    PROVE  PublicationTypeOK'
<1>1. CountType'
  BY CountsFit, Zenon DEF PublicationInv, AddFile, AddFileToDraft, CountType
<1>2. DatasetType' /\ WorkType'
  BY TypeParts, Zenon DEF PublicationInv, DatasetType, WorkType, AddFile, AddFileToDraft
<1>3. RestType'
  <2>1. CASE AddFile(d, f)
    BY <2>1, TypeParts, Zenon DEF PublicationInv, RestType, AddFile
  <2>2. CASE AddFileToDraft(d, f)
    BY <2>2, TypeParts, Zenon DEF PublicationInv, RestType, AddFileToDraft
  <2> QED BY <2>1, <2>2
<1>4. TasksType'
  <2>1. CASE AddFile(d, f)
    BY <2>1, SetsAreSets, TasksAreTasks, Made, Zenon DEF PublicationInv, TasksType, AddFile, Found
  <2>2. CASE AddFileToDraft(d, f)
    BY <2>2, TypeParts, Zenon DEF PublicationInv, TasksType, AddFileToDraft
  <2> QED BY <2>1, <2>2
<1> QED BY <1>1, <1>2, <1>3, <1>4, TypeParts

LEMMA CreateDraftKeepsTypes ==
    ASSUME PublicationInv, NEW d \in Dataset, CreateDraft(d) PROVE PublicationTypeOK'
<1> DEFINE n == used'.sets
           new == {TaskOf(s, FALSE, FALSE) : s \in {t \in {n} : files'[t] # {}}}
<1>1. CountType' /\ n \in Sets
  BY CountsFit DEF PublicationInv, CreateDraft, CountType
<1>2. DatasetType' /\ WorkType'
  BY TypeParts DEF PublicationInv, DatasetType, WorkType, CreateDraft
<1>3. RestType'
  <2>1. [set |-> n, deprecated |-> FALSE] \in DraftRow
    BY <1>1 DEF DraftRow
  <2>2. files[dataset[d].set] \cap stored \subseteq File
    BY TypeParts DEF PublicationInv, RestType
  <2> QED BY <1>1, <2>1, <2>2, TypeParts DEF PublicationInv, RestType, CreateDraft
<1>4. new \subseteq Task
  <2>1. TaskOf(n, FALSE, FALSE) \in Task
    BY <1>1 DEF TaskOf, Task
  <2> HIDE DEF n
  <2> QED BY <2>1, Zenon
<1>5. TasksType'
  BY <1>4, Made, Zenon DEF PublicationInv, TasksType, CreateDraft
<1> QED BY <1>1, <1>2, <1>3, <1>5, TypeParts

LEMMA MergeKeepsTypes ==
    ASSUME PublicationInv, NEW d \in Dataset, Merge(d) PROVE PublicationTypeOK'
<1> DEFINE saved == [dataset[d] EXCEPT !.set = draft[d].set, !.deprecated = FALSE]
<1>1. CountType'
  BY CountsFit DEF PublicationInv, Merge, CountType
<1>2. draft[d] \in DraftRow /\ draft[d].set \in Sets
  BY SetsAreSets DEF PublicationInv, Merge, DraftRow
<1>3. DatasetType' /\ saved.set \in Sets
  <2>1. saved \in DatasetRow /\ saved.set \in Sets
    BY <1>2, TypeParts, Zenon DEF PublicationInv, DatasetType, DatasetRow
  <2> HIDE DEF saved
  <2>2. dataset' = [dataset EXCEPT ![d] = saved]
    BY DEF Merge, saved
  <2> QED BY <2>1, <2>2, TypeParts DEF PublicationInv, DatasetType
<1>4. RestType' /\ WorkType'
  BY <1>2, TypeParts, Zenon DEF PublicationInv, RestType, WorkType, Merge
<1>5. TasksType'
  <2>1. Make(TasksOfSave(saved, FALSE, FALSE))
    BY Zenon DEF Merge
  <2> HIDE DEF saved
  <2> QED BY <1>3, <2>1, TasksAreTasks, Made, Zenon DEF PublicationInv, TasksType
<1> QED BY <1>1, <1>3, <1>4, <1>5, TypeParts

LEMMA RemoveKeepsTypes ==
    ASSUME PublicationInv, NEW d \in Dataset, Remove(d) PROVE PublicationTypeOK'
<1>1. CountType'
  BY CountsFit DEF PublicationInv, Remove, CountType
<1>2. DatasetType'
  <2>1. dataset[d] \in DatasetRow
    BY TypeParts DEF PublicationInv, DatasetType
  <2>2. /\ [dataset[d] EXCEPT !.removed = TRUE] \in DatasetRow
        /\ [NoDataset EXCEPT !.state = "flushed"] \in DatasetRow
    BY <2>1, Zenon DEF DatasetRow, NoDataset
  <2>3. CASE dataset[d].state = "published"
    <3>1. dataset' = [dataset EXCEPT ![d] = [dataset[d] EXCEPT !.removed = TRUE]]
      BY <2>3, TypeParts DEF PublicationInv, DatasetType, Remove
    <3> QED BY <2>2, <3>1, TypeParts DEF PublicationInv, DatasetType
  <2>4. CASE dataset[d].state # "published"
    BY <2>2, <2>4, TypeParts DEF PublicationInv, DatasetType, Remove
  <2> QED BY <2>3, <2>4
<1>3. RestType' /\ WorkType'
  BY TypeParts DEF PublicationInv, RestType, WorkType, Remove
<1>4. TasksType'
  BY SetsAreSets, TasksAreTasks, Made DEF PublicationInv, TasksType, Remove, Found
<1> QED BY <1>1, <1>2, <1>3, <1>4, TypeParts

LEMMA FlushKeepsTypes ==
    ASSUME PublicationInv, NEW d \in Dataset, Flush(d) PROVE PublicationTypeOK'
<1>1. CountType'
  BY CountsFit DEF PublicationInv, Flush, CountType
<1>2. DatasetType'
  BY TypeParts, Zenon DEF PublicationInv, DatasetType, DatasetRow, Flush, NoDataset
<1>3. RestType' /\ WorkType'
  BY TypeParts, SetsAreSets DEF PublicationInv, RestType, WorkType, Flush
<1>4. TasksType'
  BY SetsAreSets, TasksAreTasks, Made DEF PublicationInv, TasksType, Flush
<1> QED BY <1>1, <1>2, <1>3, <1>4, TypeParts

LEMMA RestoreKeepsTypes ==
    ASSUME PublicationInv, NEW d \in Dataset, Restore(d) PROVE PublicationTypeOK'
<1>1. CountType'
  BY CountsFit DEF PublicationInv, Restore, CountType
<1>2. DatasetType' /\ dataset'[d].set \in Sets
  BY TypeParts, SetsAreSets, Zenon DEF PublicationInv, DatasetType, DatasetRow, Restore
<1>3. RestType' /\ WorkType'
  BY TypeParts, SetsAreSets DEF PublicationInv, RestType, WorkType, Restore
<1>4. TasksType'
  BY <1>2, TasksAreTasks, Made, Zenon DEF PublicationInv, TasksType, Restore
<1> QED BY <1>1, <1>2, <1>3, <1>4, TypeParts

\* A deletion deprecates datasets, and changes nothing else of one.
LEMMA DeleteFileDeprecates ==
    ASSUME PublicationInv, NEW f \in File, DeleteFile(f), NEW d \in Dataset
    PROVE  /\ dataset'[d] \in DatasetRow
           /\ dataset'[d].state = dataset[d].state /\ dataset'[d].set = dataset[d].set
           /\ dataset'[d].removed = dataset[d].removed
<1>1. dataset[d] \in DatasetRow
  BY TypeParts, Zenon DEF PublicationInv, DatasetType
<1> DEFINE now == dataset[d].deprecated \/ d \in Deprecates(f)
<1>2. dataset'[d] = [dataset[d] EXCEPT !.deprecated = now]
  BY Zenon DEF DeleteFile
<1>3. now \in BOOLEAN
  BY Zenon
<1> HIDE DEF now
<1> QED BY <1>1, <1>2, <1>3 DEF DatasetRow

LEMMA DeleteFileKeepsTypes ==
    ASSUME PublicationInv, NEW f \in File, DeleteFile(f) PROVE PublicationTypeOK'
<1>1. CountType'
  BY CountsFit, Zenon DEF PublicationInv, DeleteFile, CountType
<1>2. DatasetType' /\ \A d \in Dataset : dataset'[d].set = dataset[d].set
  <2>1. dataset' = [d \in Dataset |-> dataset'[d]]
    BY Zenon DEF DeleteFile
  <2> QED BY <2>1, DeleteFileDeprecates, Zenon DEF DatasetType
<1>3. RestType' /\ WorkType'
  <2>1. \A d \in Dataset : draft'[d] \in DraftRow \cup {None}
    BY SetsAreSets, TypeParts, Zenon DEF PublicationInv, RestType, DraftRow, DeleteFile, LosesFile
  <2>2. draft' \in [Dataset -> DraftRow \cup {None}]
    BY <2>1, Zenon DEF DeleteFile
  <2> QED BY <2>2, TypeParts, Zenon DEF PublicationInv, RestType, WorkType, DeleteFile
<1>4. \A d \in Deprecates(f) : dataset'[d].set \in Sets
  BY <1>2, SetsAreSets DEF PublicationInv, Deprecates, Exists
<1>5. UNION {TasksOfSave(dataset'[d], FALSE, FALSE) : d \in Deprecates(f)} \subseteq Task
  BY <1>4, TasksAreTasks, Zenon
<1>6. TasksType'
  BY <1>5, Made, Zenon DEF PublicationInv, TasksType, DeleteFile
<1> QED BY <1>1, <1>2, <1>3, <1>6, TypeParts

LEMMA WorkersKeepTypes ==
    ASSUME PublicationInv, NEW w \in TaskWorker,
           TakeTask(w) \/ UnpublishFiles(w) \/ PublishFiles(w) \/ Crash(w)
    PROVE  PublicationTypeOK'
<1>1. CASE TakeTask(w)
  <2>1. PICK t \in BagToSet(tasks) :
            /\ pc[w] = "idle"
            /\ tasks' = tasks (-) SetToBag({t})
            /\ taken' = [taken EXCEPT ![w] = t]
            /\ pc' = [pc EXCEPT ![w] =
                        IF PublishesAll(t) THEN "publish" ELSE "unpublish"]
            /\ UNCHANGED << dataset, draft, files, stored, published, used, missed, leaked >>
    BY <1>1, Zenon DEF TakeTask
  <2>2. TasksType'
    BY <2>1, Taken, TypeParts DEF PublicationInv, TasksType
  <2>3. DatasetType' /\ RestType' /\ CountType' /\ WorkType'
    BY <2>1, TypeParts DEF PublicationInv, DatasetType, RestType, CountType, WorkType, TasksType
  <2> QED BY <2>2, <2>3, TypeParts
<1>2. CASE UnpublishFiles(w)
  <2>1. RestType' /\ WorkType'
    BY <1>2, TypeParts DEF PublicationInv, RestType, WorkType, UnpublishFiles
  <2> QED
    BY <1>2, <2>1, TypeParts DEF PublicationInv, DatasetType, CountType, TasksType, UnpublishFiles
<1>3. CASE PublishFiles(w)
  <2>1. FilesToPublish(taken[w]) \subseteq File
    BY TypeParts DEF PublicationInv, RestType, FilesToPublish
  <2>2. RestType' /\ WorkType'
    BY <1>3, <2>1, TypeParts DEF PublicationInv, RestType, WorkType, PublishFiles
  <2> QED
    BY <1>3, <2>2, TypeParts DEF PublicationInv, DatasetType, CountType, TasksType, PublishFiles
<1>4. CASE Crash(w)
  <2>1. taken[w] \in Task
    BY <1>4 DEF PublicationInv, TasksFit, Crash
  <2>2. TasksType'
    BY <1>4, <2>1, Made DEF PublicationInv, TasksType, Crash
  <2>3. CountType'
    <3>1. used.crashes + 1 \in 0..MaxCrashes
      BY <1>4, PublicationAssumption DEF PublicationInv, PublicationTypeOK, Crash
    <3> QED BY <1>4, <3>1 DEF PublicationInv, PublicationTypeOK, CountType, Crash
  <2>4. DatasetType' /\ RestType' /\ WorkType'
    BY <1>4, TypeParts DEF PublicationInv, DatasetType, RestType, WorkType, Crash
  <2> QED BY <2>2, <2>3, <2>4, TypeParts
<1> QED BY <1>1, <1>2, <1>3, <1>4

-----------------------------------------------------------------------------
(* File sets of datasets and drafts. *)

\* A step that makes no file set leaves datasets and drafts with their own.
LEMMA SetsStayOwn ==
    ASSUME PublicationInv, used'.sets = used.sets,
           \A d \in Dataset :
              /\ Exists(d)' => Exists(d) /\ dataset'[d].set = dataset[d].set
              /\ draft'[d] # None => draft[d] # None /\ draft'[d].set = draft[d].set
    PROVE  SetsAreOwn'
BY DEF PublicationInv, SetsAreOwn

LEMMA SetsStepOwn == ASSUME PublicationInv, PublicationNext PROVE SetsAreOwn' /\ DraftsArePublished'
<1>1. ASSUME NEW d \in Dataset, NEW fs \in SUBSET File, Create(d, fs)
      PROVE  SetsAreOwn' /\ DraftsArePublished'
  <2>1. used'.sets = used.sets + 1 /\ used.sets \in Nat
    BY <1>1, PublicationAssumption DEF Create, PublicationInv, PublicationTypeOK
  <2>2. /\ \A e \in Dataset \ {d} : dataset'[e] = dataset[e]
        /\ dataset'[d].set = used.sets + 1
        /\ dataset[d].state = "none"
    BY <1>1, <2>1, TypeParts DEF Create, PublicationInv, DatasetType, DatasetRow
  <2>3. draft' = draft /\ draft[d] = None
    BY <1>1, <2>2 DEF Create, PublicationInv, DraftsArePublished
  <2>4. DraftsArePublished'
    BY <2>2, <2>3 DEF PublicationInv, DraftsArePublished
  <2>5. SetsAreOwn'
    BY <2>1, <2>2, <2>3 DEF PublicationInv, SetsAreOwn, Exists
  <2> QED BY <2>4, <2>5
<1>2. ASSUME NEW d \in Dataset, CreateDraft(d) PROVE SetsAreOwn' /\ DraftsArePublished'
  <2>1. used'.sets = used.sets + 1 /\ used.sets \in Nat
    BY <1>2, CountsFit, PublicationAssumption DEF CreateDraft, PublicationInv, PublicationTypeOK
  <2>2. /\ dataset' = dataset /\ dataset[d].state = "published" /\ ~dataset[d].removed
        /\ \A e \in Dataset \ {d} : draft'[e] = draft[e]
        /\ draft'[d].set = used.sets + 1
    BY <1>2, <2>1, TypeParts DEF CreateDraft, Found, PublicationInv, RestType
  <2>3. DraftsArePublished'
    BY <2>2 DEF PublicationInv, DraftsArePublished
  <2>4. SetsAreOwn'
    BY <2>1, <2>2 DEF PublicationInv, SetsAreOwn, Exists
  <2> QED BY <2>3, <2>4
<1>3. ASSUME NEW d \in Dataset, Merge(d) PROVE SetsAreOwn' /\ DraftsArePublished'
  <2>1. used'.sets = used.sets
    BY <1>3, CountsFit DEF Merge, PublicationInv
  <2>2. /\ \A e \in Dataset \ {d} : dataset'[e] = dataset[e] /\ draft'[e] = draft[e]
        /\ dataset'[d].set = draft[d].set /\ draft'[d] = None /\ draft[d] # None
        /\ Exists(d)
    <3>1. dataset[d].state = "published"
      BY <1>3 DEF Merge, PublicationInv, DraftsArePublished
    <3> QED BY <1>3, <3>1, TypeParts
         DEF Merge, Exists, PublicationInv, DatasetType, DatasetRow, RestType
  <2>3. DraftsArePublished'
    BY <2>2 DEF PublicationInv, DraftsArePublished
  <2>4. SetsAreOwn'
    BY <2>1, <2>2 DEF PublicationInv, SetsAreOwn, Exists
  <2> QED BY <2>3, <2>4
<1>4. ASSUME NEW d \in Dataset, Publish(d) \/ Restore(d)
      PROVE  SetsAreOwn' /\ DraftsArePublished'
  <2>1. used'.sets = used.sets /\ draft' = draft
    BY <1>4, CountsFit, Zenon DEF Publish, Restore, PublicationInv
  <2>2. \A e \in Dataset :
            /\ Exists(e)' => Exists(e) /\ dataset'[e].set = dataset[e].set
            /\ dataset[e].state = "published" /\ ~dataset[e].removed => dataset'[e] = dataset[e]
    <3>1. CASE Publish(d)
      BY <3>1, TypeParts DEF Publish, Exists, PublicationInv, DatasetType, DatasetRow
    <3>2. CASE Restore(d)
      BY <3>2, TypeParts DEF Restore, Exists, PublicationInv, DatasetType, DatasetRow
    <3> QED BY <1>4, <3>1, <3>2
  <2> QED BY <2>1, <2>2, SetsStayOwn DEF PublicationInv, DraftsArePublished
<1>5. ASSUME NEW d \in Dataset, Remove(d) \/ Flush(d)
      PROVE  SetsAreOwn' /\ DraftsArePublished'
  <2>1. used'.sets = used.sets
    BY <1>5, CountsFit DEF Remove, Flush, PublicationInv
  <2>2. /\ \A e \in Dataset \ {d} : dataset'[e] = dataset[e] /\ draft'[e] = draft[e]
        /\ draft'[d] = None
    BY <1>5, TypeParts DEF Remove, Flush, PublicationInv, DatasetType, RestType
  <2>3. Exists(d)' => Exists(d) /\ dataset'[d].set = dataset[d].set
    BY <1>5, TypeParts
         DEF Remove, Flush, Exists, NoDataset, Found, PublicationInv, DatasetType, DatasetRow
  <2>4. SetsAreOwn'
    BY <2>1, <2>2, <2>3, SetsStayOwn DEF Exists
  <2> QED BY <2>2, <2>4 DEF PublicationInv, DraftsArePublished
<1>6. ASSUME NEW f \in File, DeleteFile(f) PROVE SetsAreOwn' /\ DraftsArePublished'
  <2>1. used'.sets = used.sets
    BY <1>6, CountsFit, Zenon DEF DeleteFile, PublicationInv
  <2>2. \A e \in Dataset :
            /\ dataset'[e].state = dataset[e].state /\ dataset'[e].set = dataset[e].set
            /\ dataset'[e].removed = dataset[e].removed
    BY <1>6, DeleteFileDeprecates, Zenon
  <2>3. \A e \in Dataset : draft'[e] # None => draft[e] # None /\ draft'[e].set = draft[e].set
    BY <1>6, SetsAreSets, Zenon DEF DeleteFile, LosesFile, DraftRow, PublicationInv
  <2>4. SetsAreOwn'
    BY <2>1, <2>2, <2>3, SetsStayOwn DEF Exists
  <2> QED BY <2>2, <2>3, <2>4 DEF PublicationInv, DraftsArePublished
<1>7. ASSUME UNCHANGED << dataset, draft >>, used'.sets = used.sets
      PROVE  SetsAreOwn' /\ DraftsArePublished'
  BY <1>7 DEF PublicationInv, SetsAreOwn, DraftsArePublished, Exists
<1>8. ASSUME NEW d \in Dataset, NEW f \in File, AddFile(d, f) \/ AddFileToDraft(d, f)
      PROVE  SetsAreOwn' /\ DraftsArePublished'
  BY <1>7, <1>8, CountsFit, Zenon DEF AddFile, AddFileToDraft, PublicationInv
<1>9. ASSUME NEW w \in TaskWorker, TakeTask(w) \/ UnpublishFiles(w) \/ PublishFiles(w) \/ Crash(w)
      PROVE  SetsAreOwn' /\ DraftsArePublished'
  <2>1. used'.sets = used.sets /\ UNCHANGED << dataset, draft >>
    BY <1>9, Zenon DEF TakeTask, UnpublishFiles, PublishFiles, Crash, PublicationInv,
       PublicationTypeOK
  <2> QED BY <1>7, <2>1
<1> QED BY <1>1, <1>2, <1>3, <1>4, <1>5, <1>6, <1>8, <1>9 DEF PublicationNext

-----------------------------------------------------------------------------
(* Tasks. *)

LEMMA TasksStayFit == ASSUME PublicationInv, PublicationNext PROVE TasksFit'
<1>1. CASE UNCHANGED << pc, taken >>
  BY <1>1 DEF PublicationInv, TasksFit, PublishesAll
<1>2. ASSUME NEW w \in TaskWorker, TakeTask(w) PROVE TasksFit'
  BY <1>2, TypeParts DEF TakeTask, PublicationInv, TasksFit, WorkType, TasksType, PublishesAll
<1>3. ASSUME NEW w \in TaskWorker, UnpublishFiles(w) \/ PublishFiles(w) \/ Crash(w) PROVE TasksFit'
  BY <1>3, TypeParts
       DEF UnpublishFiles, PublishFiles, Crash, PublicationInv, TasksFit, WorkType, PublishesAll
<1> QED
  BY <1>1, <1>2, <1>3, Zenon
     DEF PublicationNext, Create, Publish, AddFile, AddFileToDraft, CreateDraft, Merge, Remove,
              Flush, Restore, DeleteFile

\* A public dataset has the file.
LEMMA InPublicSet ==
    /\ \A f : f \in FilesOf(PublicSets) <=>
          \E d \in Dataset : IsPublic(dataset[d]) /\ f \in files[dataset[d].set]
    /\ \A f : (f \in FilesOf(PublicSets))' <=>
          \E d \in Dataset : IsPublic(dataset[d])' /\ f \in files'[dataset'[d].set]
BY DEF FilesOf, PublicSets

\* A task stays until a worker takes it.
LEMMA TasksWait ==
    ASSUME UNCHANGED << pc, taken >>, BagToSet(tasks) \subseteq BagToSet(tasks')
    PROVE  \A s : IsAwaited(s) => IsAwaited(s)'
BY DEF IsAwaited, PublishesAll

\* In a step that publishes nothing and takes no task away, a published file of
\* a dataset that was published has to stay with it, with a new task if it was
\* public and is so no longer.
StaysAccounted(d, f) ==
    \/ f \in leaked'
    \/ (f \in FilesOf(PublicSets))'
    \/ dataset'[d] = dataset[d] /\ f \in files'[dataset[d].set]
    \/ /\ dataset'[d].state = "published"
       /\ dataset'[d].set = dataset[d].set
       /\ f \in files'[dataset[d].set]
       /\ IsPublic(dataset[d]) => IsAwaited(dataset[d].set)'

LEMMA AccountedStep ==
    ASSUME PublicationInv, published' \subseteq published, published' \subseteq stored',
           leaked \subseteq leaked',
           \A s : IsAwaited(s) => IsAwaited(s)',
           \A d \in Dataset : \A f \in published' :
              dataset[d].state = "published" /\ f \in files[dataset[d].set] => StaysAccounted(d, f)
    PROVE  PublishedIsAccounted'
<1> SUFFICES ASSUME NEW f \in published', f \notin leaked', ~(f \in FilesOf(PublicSets))'
             PROVE  IsWaitedFor(f)'
  BY DEF PublishedIsAccounted
<1>1. f \in FilesOf(PublicSets) \/ IsWaitedFor(f)
  BY DEF PublicationInv, PublishedIsAccounted
<1>2. ASSUME NEW d \in Dataset, dataset[d].state = "published", f \in files[dataset[d].set],
             IsPublic(dataset[d]) \/ IsAwaited(dataset[d].set)
      PROVE  IsWaitedFor(f)'
  <2>1. \/ dataset'[d] = dataset[d] /\ f \in files'[dataset[d].set]
        \/ /\ dataset'[d].state = "published"
           /\ dataset'[d].set = dataset[d].set
           /\ f \in files'[dataset[d].set]
           /\ IsPublic(dataset[d]) => IsAwaited(dataset[d].set)'
    BY <1>2 DEF StaysAccounted
  <2>2. dataset'[d] = dataset[d] => ~IsPublic(dataset[d]) \/ f \notin files'[dataset[d].set]
    BY InPublicSet DEF IsPublic
  <2>3. IsAwaited(dataset[d].set)'
    BY <1>2, <2>1, <2>2
  <2>4. /\ dataset'[d].state = "published" /\ dataset'[d].set = dataset[d].set
        /\ f \in files'[dataset'[d].set]
    BY <1>2, <2>1
  <2> QED BY <2>3, <2>4 DEF IsWaitedFor
<1> QED BY <1>1, <1>2, InPublicSet DEF IsWaitedFor, IsPublic

\* In a request the workers do nothing, and published files stay.
Keeps(d) ==
    \A f \in published' :
        dataset[d].state = "published" /\ f \in files[dataset[d].set] => StaysAccounted(d, f)

LEMMA RequestKeeps ==
    ASSUME PublicationInv, UNCHANGED << pc, taken >>, BagToSet(tasks) \subseteq BagToSet(tasks'),
           published' \subseteq published, published' \subseteq stored', leaked \subseteq leaked',
           \A d \in Dataset : Keeps(d)
    PROVE  PublishedIsAccounted'
BY TasksWait, AccountedStep DEF Keeps

\* What a request leaves alone.
LEMMA FilesStay ==
    ASSUME NEW d \in Dataset, dataset'[d] = dataset[d],
           dataset[d].state = "published" => files[dataset[d].set] \subseteq files'[dataset[d].set]
    PROVE  Keeps(d)
BY DEF Keeps, StaysAccounted

LEMMA CreateIsAccounted ==
    ASSUME PublicationInv, NEW d \in Dataset, NEW fs \in SUBSET File, Create(d, fs)
    PROVE  PublishedIsAccounted'
<1>1. used'.sets = used.sets + 1 /\ used.sets \in Nat
  BY PublicationAssumption DEF Create, PublicationInv, PublicationTypeOK
<1>2. \A e \in Dataset : dataset[e].state = "published" => dataset'[e] = dataset[e]
  BY TypeParts DEF Create, PublicationInv, DatasetType
<1>3. \A e \in Dataset :
          dataset[e].state = "published" => files'[dataset[e].set] = files[dataset[e].set]
  BY <1>1, SetsAreSets, TypeParts DEF Create, PublicationInv, SetsAreOwn, Exists, RestType
<1>4. \A e \in Dataset : Keeps(e)
  BY <1>2, <1>3 DEF Keeps, StaysAccounted
<1> QED BY <1>4, RequestKeeps DEF Create, PublicationInv, PublishedIsAccounted

LEMMA PublishIsAccounted ==
    ASSUME PublicationInv, NEW d \in Dataset, Publish(d) PROVE PublishedIsAccounted'
<1>1. BagToSet(tasks) \subseteq BagToSet(tasks')
  BY SetsAreSets, TasksAreTasks, Made, TypeParts, Zenon
     DEF Publish, PublicationInv, Exists, DatasetType, DatasetRow
<1>2. \A e \in Dataset : Keeps(e)
  BY TypeParts DEF Keeps, StaysAccounted, Publish, PublicationInv, DatasetType
<1> QED BY <1>1, <1>2, RequestKeeps DEF Publish, PublicationInv, PublishedIsAccounted

LEMMA AddFileIsAccounted ==
    ASSUME PublicationInv, NEW d \in Dataset, NEW f \in File, AddFile(d, f) \/ AddFileToDraft(d, f)
    PROVE  PublishedIsAccounted'
<1>1. BagToSet(tasks) \subseteq BagToSet(tasks')
  BY SetsAreSets, TasksAreTasks, Made, Zenon DEF AddFile, AddFileToDraft, Found, PublicationInv
<1>2. \A s \in Sets : files[s] \subseteq files'[s]
  BY TypeParts, Zenon DEF AddFile, AddFileToDraft, PublicationInv, RestType
<1>3. \A e \in Dataset : Keeps(e)
  BY <1>2, FilesStay, SetsAreSets, Zenon DEF AddFile, AddFileToDraft, PublicationInv, Exists
<1> QED BY <1>1, <1>3, RequestKeeps, Zenon
     DEF AddFile, AddFileToDraft, PublicationInv, PublishedIsAccounted

LEMMA CreateDraftIsAccounted ==
    ASSUME PublicationInv, NEW d \in Dataset, CreateDraft(d) PROVE PublishedIsAccounted'
<1> DEFINE n == used'.sets
           new == {TaskOf(s, FALSE, FALSE) : s \in {t \in {n} : files'[t] # {}}}
<1>1. n = used.sets + 1 /\ used.sets \in Nat /\ n \in Sets
  BY CountsFit, PublicationAssumption DEF CreateDraft, PublicationInv, PublicationTypeOK
<1>2. TaskOf(n, FALSE, FALSE) \in Task
  BY <1>1 DEF TaskOf, Task
<1>3. BagToSet(tasks) \subseteq BagToSet(tasks')
  <2>1. Make(new)
    BY DEF CreateDraft
  <2>2. new \subseteq Task
    <3> HIDE DEF n
    <3> QED BY <1>2, Zenon
  <2> QED BY <2>1, <2>2, Made, Zenon DEF PublicationInv
<1>4. \A e \in Dataset :
          dataset[e].state = "published" => files'[dataset[e].set] = files[dataset[e].set]
  BY <1>1, SetsAreSets, TypeParts DEF CreateDraft, PublicationInv, SetsAreOwn, Exists, RestType
<1>5. \A e \in Dataset : Keeps(e)
  BY <1>4, FilesStay DEF CreateDraft
<1> QED BY <1>3, <1>5, RequestKeeps DEF CreateDraft, PublicationInv, PublishedIsAccounted

\* The files of a dataset before a merge are public after it.
LEMMA MergeIsAccounted ==
    ASSUME PublicationInv, NEW d \in Dataset, Merge(d) PROVE PublishedIsAccounted'
<1> DEFINE old == dataset[d].set
           new == draft[d].set
           saved == [dataset[d] EXCEPT !.set = new, !.deprecated = FALSE]
<1>1. dataset[d].state = "published" /\ ~dataset[d].removed /\ draft[d] \in DraftRow
  BY SetsAreSets DEF Merge, PublicationInv, DraftsArePublished
<1>2. old \in Sets /\ new \in Sets /\ old # new
  BY <1>1, SetsAreSets DEF PublicationInv, SetsAreOwn, Exists, Merge, DraftRow
<1>3. dataset'[d] = saved /\ saved.set = new /\ IsPublic(saved)
  BY <1>1, TypeParts DEF Merge, PublicationInv, DatasetType, DatasetRow, IsPublic
<1>4. /\ files'[new] = files[new]
      /\ \A s \in Sets \ {old} : files'[s] = files[s]
  BY <1>2, TypeParts DEF Merge, PublicationInv, RestType
<1>5. BagToSet(tasks) \subseteq BagToSet(tasks')
  <2>1. Make(TasksOfSave(saved, FALSE, FALSE)) /\ saved.set \in Sets
    BY <1>2, <1>3, Zenon DEF Merge
  <2> HIDE DEF saved
  <2> QED BY <2>1, TasksAreTasks, Made, Zenon DEF PublicationInv
<1>6. Keeps(d)
  <2> SUFFICES ASSUME NEW f \in published', f \in files[old]
               PROVE  (f \in FilesOf(PublicSets))'
    BY DEF Keeps, StaysAccounted
  <2>1. f \in files[new]
    BY DEF Merge, PublicationInv, PublishedIsAccounted
  <2>2. IsPublic(dataset[d])' /\ f \in files'[dataset'[d].set]
    BY <1>3, <1>4, <2>1 DEF IsPublic
  <2> QED BY <2>2, InPublicSet
<1>7. \A e \in Dataset \ {d} : Keeps(e)
  <2> SUFFICES ASSUME NEW e \in Dataset \ {d} PROVE Keeps(e)
    OBVIOUS
  <2>1. dataset'[e] = dataset[e]
    BY TypeParts DEF Merge, PublicationInv, DatasetType
  <2>2. dataset[e].state = "published" => dataset[e].set \in Sets \ {old}
    BY <1>1, SetsAreSets DEF PublicationInv, SetsAreOwn, Exists
  <2> QED BY <1>4, <2>1, <2>2, FilesStay
<1> QED BY <1>5, <1>6, <1>7, RequestKeeps DEF Merge, PublicationInv, PublishedIsAccounted

\* The file sets that go with a dataset are not those of others.
LEMMA GoneSets ==
    ASSUME PublicationInv, NEW d \in Dataset, Exists(d), NEW e \in Dataset,
           dataset[e].state = "published"
    PROVE  /\ dataset[e].set \notin DraftSets(d)
           /\ e # d => dataset[e].set # dataset[d].set
BY DEF PublicationInv, SetsAreOwn, Exists, DraftSets

LEMMA TasksThatWait ==
    \A s, p : /\ TaskOf(s, TRUE, p).set = s /\ ~PublishesAll(TaskOf(s, TRUE, p))
             /\ TaskOf(s, FALSE, FALSE).set = s /\ ~PublishesAll(TaskOf(s, FALSE, FALSE))
BY DEF TaskOf, PublishesAll

LEMMA RemoveIsAccounted ==
    ASSUME PublicationInv, NEW d \in Dataset, Remove(d) PROVE PublishedIsAccounted'
<1>1. Exists(d) /\ dataset[d].set \in Sets
  BY SetsAreSets DEF Remove, Found, PublicationInv
<1>2. BagToSet(tasks') = BagToSet(tasks) \cup TasksOfDelete(dataset[d])
  BY <1>1, TasksAreTasks, Made DEF Remove, PublicationInv
<1>3. \A e \in Dataset \ {d} : Keeps(e)
  <2> SUFFICES ASSUME NEW e \in Dataset \ {d} PROVE Keeps(e)
    OBVIOUS
  <2>1. dataset'[e] = dataset[e]
    BY TypeParts DEF Remove, PublicationInv, DatasetType
  <2>2. dataset[e].state = "published" => files'[dataset[e].set] = files[dataset[e].set]
    BY <1>1, GoneSets, SetsAreSets, TypeParts DEF Remove, PublicationInv, Exists, RestType
  <2> QED BY <2>1, <2>2, FilesStay
<1>4. Keeps(d)
  <2> SUFFICES ASSUME dataset[d].state = "published",
                      NEW f \in published', f \in files[dataset[d].set]
               PROVE  StaysAccounted(d, f)
    BY DEF Keeps
  <2>1. dataset'[d].state = "published" /\ dataset'[d].set = dataset[d].set
    BY TypeParts DEF Remove, PublicationInv, DatasetType, DatasetRow
  <2>2. f \in files'[dataset[d].set]
    BY <1>1, GoneSets DEF Remove
  <2>3. \E t \in BagToSet(tasks') : t.set = dataset'[d].set /\ ~PublishesAll(t)
    <3>1. TaskOf(dataset[d].set, TRUE, IsPublic(dataset[d])) \in BagToSet(tasks')
      BY <1>2 DEF TasksOfDelete
    <3> QED BY <2>1, <3>1, TasksThatWait, Zenon
  <2>4. IsAwaited(dataset[d].set)'
    BY <2>3 DEF IsAwaited, PublishesAll
  <2> QED BY <2>1, <2>2, <2>4 DEF StaysAccounted
<1> QED BY <1>2, <1>3, <1>4, RequestKeeps DEF Remove, PublicationInv, PublishedIsAccounted

LEMMA FlushIsAccounted ==
    ASSUME PublicationInv, NEW d \in Dataset, Flush(d) PROVE PublishedIsAccounted'
<1>1. Exists(d) /\ dataset[d].set \in Sets
  BY SetsAreSets DEF Flush, PublicationInv
<1>2. BagToSet(tasks) \subseteq BagToSet(tasks')
  BY <1>1, TasksAreTasks, Made DEF Flush, PublicationInv
<1>3. \A e \in Dataset \ {d} : Keeps(e)
  <2> SUFFICES ASSUME NEW e \in Dataset \ {d} PROVE Keeps(e)
    OBVIOUS
  <2>1. dataset'[e] = dataset[e]
    BY TypeParts DEF Flush, PublicationInv, DatasetType
  <2>2. dataset[e].state = "published" => files'[dataset[e].set] = files[dataset[e].set]
    BY <1>1, GoneSets, SetsAreSets, TypeParts DEF Flush, PublicationInv, Exists, RestType
  <2> QED BY <2>1, <2>2, FilesStay
<1>4. Keeps(d)
  BY DEF Keeps, StaysAccounted, Flush
<1> QED BY <1>2, <1>3, <1>4, RequestKeeps DEF Flush, PublicationInv, PublishedIsAccounted

LEMMA RestoreIsAccounted ==
    ASSUME PublicationInv, NEW d \in Dataset, Restore(d) PROVE PublishedIsAccounted'
<1>1. /\ dataset'[d].state = dataset[d].state /\ dataset'[d].set = dataset[d].set
      /\ \A e \in Dataset \ {d} : dataset'[e] = dataset[e]
  BY TypeParts DEF Restore, PublicationInv, DatasetType, DatasetRow
<1>2. BagToSet(tasks) \subseteq BagToSet(tasks')
  BY <1>1, SetsAreSets, TasksAreTasks, Made, Zenon DEF Restore, PublicationInv
<1>3. \A e \in Dataset \ {d} : Keeps(e)
  BY <1>1, FilesStay DEF Restore
<1>4. Keeps(d)
  BY <1>1 DEF Keeps, StaysAccounted, Restore, IsPublic
<1> QED BY <1>2, <1>3, <1>4, RequestKeeps DEF Restore, PublicationInv, PublishedIsAccounted

LEMMA DeleteFileIsAccounted ==
    ASSUME PublicationInv, NEW f \in File, DeleteFile(f) PROVE PublishedIsAccounted'
<1> DEFINE new == UNION {TasksOfSave(dataset'[d], FALSE, FALSE) : d \in Deprecates(f)}
<1>1. \A d \in Dataset :
          /\ dataset'[d].state = dataset[d].state /\ dataset'[d].set = dataset[d].set
          /\ d \in Deprecates(f) => dataset'[d].deprecated
          /\ d \notin Deprecates(f) => dataset'[d] = dataset[d]
  <2> SUFFICES ASSUME NEW d \in Dataset
               PROVE  /\ dataset'[d].state = dataset[d].state /\ dataset'[d].set = dataset[d].set
                      /\ d \in Deprecates(f) => dataset'[d].deprecated
                      /\ d \notin Deprecates(f) => dataset'[d] = dataset[d]
    OBVIOUS
  <2>1. dataset[d] \in DatasetRow
    BY TypeParts DEF PublicationInv, DatasetType
  <2>2. dataset'[d] = [dataset[d] EXCEPT
                           !.deprecated = dataset[d].deprecated \/ d \in Deprecates(f)]
    BY Zenon DEF DeleteFile
  <2>3. CASE d \in Deprecates(f)
    BY <2>1, <2>2, <2>3, Zenon DEF DatasetRow
  <2>4. CASE d \notin Deprecates(f)
    <3>1. dataset'[d] = [dataset[d] EXCEPT !.deprecated = dataset[d].deprecated]
      BY <2>1, <2>2, <2>4 DEF DatasetRow
    <3> QED BY <2>1, <2>4, <3>1 DEF DatasetRow
  <2> QED BY <2>3, <2>4
<1>2. new \subseteq Task
  <2>1. \A d \in Deprecates(f) : dataset'[d].set \in Sets
    BY <1>1, SetsAreSets DEF PublicationInv, Deprecates, Exists
  <2> QED BY <2>1, TasksAreTasks, Zenon
<1>3. BagToSet(tasks') = BagToSet(tasks) \cup new
  BY <1>2, Made, Zenon DEF DeleteFile, PublicationInv
<1>4. ASSUME NEW d \in Dataset PROVE Keeps(d)
  <2>1. CASE d \notin Deprecates(f)
    BY <1>1, <2>1, FilesStay, Zenon DEF DeleteFile
  <2>2. CASE d \in Deprecates(f)
    <3>1. dataset'[d].state = "published" /\ dataset'[d].set = dataset[d].set
      BY <1>1, <2>2 DEF Deprecates
    <3>2. TaskOf(dataset'[d].set, FALSE, FALSE) \in TasksOfSave(dataset'[d], FALSE, FALSE)
      BY <1>1, <2>2, <3>1, Zenon DEF TasksOfSave, IsPublic
    <3>3. \E t \in BagToSet(tasks') : t.set = dataset'[d].set /\ ~PublishesAll(t)
      BY <1>3, <2>2, <3>2, TasksThatWait, Zenon
    <3>4. IsAwaited(dataset[d].set)'
      BY <3>3 DEF IsAwaited, PublishesAll
    <3> QED BY <3>1, <3>4, Zenon DEF Keeps, StaysAccounted, DeleteFile
  <2> QED BY <2>1, <2>2
<1> QED BY <1>3, <1>4, RequestKeeps, Zenon DEF DeleteFile, PublicationInv, PublishedIsAccounted

-----------------------------------------------------------------------------
(* Workers. *)

\* What keeps a file published is a public dataset.
LEMMA CountedIsPublic == \A t : FilesOf(Counted(t)) \subseteq FilesOf(PublicSets)
BY DEF FilesOf, Counted

LEMMA TakeTaskIsAccounted ==
    ASSUME PublicationInv, NEW w \in TaskWorker, TakeTask(w) PROVE PublishedIsAccounted'
<1>1. PICK t \in BagToSet(tasks) :
          /\ pc[w] = "idle"
          /\ tasks' = tasks (-) SetToBag({t})
          /\ taken' = [taken EXCEPT ![w] = t]
          /\ pc' = [pc EXCEPT ![w] = IF PublishesAll(t) THEN "publish" ELSE "unpublish"]
          /\ UNCHANGED << dataset, draft, files, stored, published, used, missed, leaked >>
  BY Zenon DEF TakeTask
<1>2. BagToSet(tasks) \ {t} \subseteq BagToSet(tasks')
  BY <1>1, Taken DEF PublicationInv, PublicationTypeOK
<1>3. /\ ~PublishesAll(t) => pc'[w] = "unpublish" /\ taken'[w].set = t.set
      /\ \A v \in TaskWorker \ {w} : pc'[v] = pc[v] /\ taken'[v] = taken[v]
  BY <1>1, TypeParts DEF PublicationInv, WorkType
<1>4. \A s : IsAwaited(s) => IsAwaited(s)'
  <2> SUFFICES ASSUME NEW s, IsAwaited(s) PROVE IsAwaited(s)'
    OBVIOUS
  <2>1. CASE \E u \in BagToSet(tasks) : u.set = s /\ ~PublishesAll(u)
    <3>1. PICK u \in BagToSet(tasks) : u.set = s /\ ~PublishesAll(u)
      BY <2>1
    <3>2. CASE u = t
      BY <1>3, <3>1, <3>2 DEF IsAwaited
    <3>3. CASE u # t
      BY <1>2, <3>1, <3>3 DEF IsAwaited, PublishesAll
    <3> QED BY <3>2, <3>3
  <2>2. CASE \E v \in TaskWorker : pc[v] = "unpublish" /\ taken[v].set = s
    BY <1>1, <1>3, <2>2 DEF IsAwaited
  <2> QED BY <2>1, <2>2 DEF IsAwaited
<1>5. \A d \in Dataset : Keeps(d)
  BY <1>1, FilesStay
<1> QED BY <1>1, <1>4, <1>5, AccountedStep DEF Keeps, PublicationInv, PublishedIsAccounted

\* What is unpublished is no longer waited for, and what stays is public.
LEMMA UnpublishIsAccounted ==
    ASSUME PublicationInv, NEW w \in TaskWorker, UnpublishFiles(w) PROVE PublishedIsAccounted'
<1>1. \A s : IsAwaited(s) => IsAwaited(s)' \/ s = taken[w].set
  BY TypeParts DEF IsAwaited, UnpublishFiles, PublicationInv, WorkType, PublishesAll
<1>2. UNCHANGED << dataset, files, stored, leaked >> /\ published' \subseteq published
  BY DEF UnpublishFiles
<1>3. \A f \in published' : f \in files[taken[w].set] => f \in FilesOf(PublicSets)
  BY CountedIsPublic DEF UnpublishFiles
<1>4. \A f : f \in FilesOf(PublicSets) <=> (f \in FilesOf(PublicSets))'
  BY <1>2, InPublicSet DEF IsPublic
<1>5. ASSUME NEW f \in published', f \notin FilesOf(PublicSets), f \notin leaked
      PROVE  IsWaitedFor(f)'
  <2>1. IsWaitedFor(f)
    BY <1>2, <1>5 DEF PublicationInv, PublishedIsAccounted
  <2>2. PICK d \in Dataset : /\ dataset[d].state = "published"
                             /\ f \in files[dataset[d].set]
                             /\ IsAwaited(dataset[d].set)
    BY <2>1 DEF IsWaitedFor
  <2>3. dataset[d].set # taken[w].set
    BY <1>3, <1>5, <2>2
  <2>4. PICK s : s = dataset[d].set
    OBVIOUS
  <2>5. IsAwaited(s)'
    BY <1>1, <2>2, <2>3, <2>4
  <2> QED BY <1>2, <2>2, <2>4, <2>5 DEF IsWaitedFor
<1> QED BY <1>2, <1>4, <1>5 DEF PublicationInv, PublishedIsAccounted

LEMMA PublishFilesIsAccounted ==
    ASSUME PublicationInv, NEW w \in TaskWorker, PublishFiles(w) PROVE PublishedIsAccounted'
<1> DEFINE new == FilesToPublish(taken[w])
<1>1. \A s : IsAwaited(s) => IsAwaited(s)'
  BY TypeParts DEF IsAwaited, PublishFiles, PublicationInv, WorkType, PublishesAll
<1>2. UNCHANGED << dataset, files, stored >> /\ leaked \subseteq leaked'
      /\ published' = published \cup new
  BY DEF PublishFiles
<1>3. \A f \in new : f \in stored /\ (f \in FilesOf(PublicSets) \/ f \in leaked')
  BY CountedIsPublic DEF PublishFiles, FilesToPublish
<1>4. \A f : f \in FilesOf(PublicSets) <=> (f \in FilesOf(PublicSets))'
  BY <1>2, InPublicSet DEF IsPublic
<1>5. ASSUME NEW f, IsWaitedFor(f) PROVE IsWaitedFor(f)'
  <2>1. PICK d \in Dataset : /\ dataset[d].state = "published"
                             /\ f \in files[dataset[d].set]
                             /\ IsAwaited(dataset[d].set)
    BY <1>5 DEF IsWaitedFor
  <2>2. PICK s : s = dataset[d].set
    OBVIOUS
  <2>3. IsAwaited(s)'
    BY <1>1, <2>1, <2>2
  <2> QED BY <1>2, <2>1, <2>2, <2>3 DEF IsWaitedFor
<1> HIDE DEF new
<1> QED BY <1>2, <1>3, <1>4, <1>5 DEF PublicationInv, PublishedIsAccounted

\* A task that was being done waits again from its beginning.
LEMMA CrashIsAccounted ==
    ASSUME PublicationInv, NEW w \in TaskWorker, Crash(w) PROVE PublishedIsAccounted'
<1>1. taken[w] \in Task /\ (pc[w] = "unpublish" => ~PublishesAll(taken[w]))
  BY DEF Crash, PublicationInv, TasksFit
<1>2. BagToSet(tasks') = BagToSet(tasks) \cup {taken[w]}
  BY <1>1, Made DEF Crash, PublicationInv
<1>3. \A v \in TaskWorker \ {w} : pc'[v] = pc[v] /\ taken'[v] = taken[v]
  BY TypeParts DEF Crash, PublicationInv, WorkType
<1>4. ASSUME NEW s, IsAwaited(s) PROVE IsAwaited(s)'
  <2>1. CASE \E u \in BagToSet(tasks) : u.set = s /\ ~PublishesAll(u)
    BY <1>2, <2>1 DEF IsAwaited, PublishesAll
  <2>2. CASE \E v \in TaskWorker : pc[v] = "unpublish" /\ taken[v].set = s
    <3>1. PICK v \in TaskWorker : pc[v] = "unpublish" /\ taken[v].set = s
      BY <2>2
    <3>2. CASE v = w
      BY <1>1, <1>2, <3>1, <3>2 DEF IsAwaited, PublishesAll
    <3>3. CASE v # w
      BY <1>3, <3>1, <3>3 DEF IsAwaited
    <3> QED BY <3>2, <3>3
  <2> QED BY <1>4, <2>1, <2>2 DEF IsAwaited
<1>5. \A d \in Dataset : Keeps(d)
  BY FilesStay DEF Crash
<1> QED BY <1>4, <1>5, AccountedStep DEF Crash, Keeps, PublicationInv, PublishedIsAccounted

-----------------------------------------------------------------------------
(* Theorems. *)

LEMMA PublicationNextKeeps == ASSUME PublicationInv, PublicationNext PROVE PublicationInv'
<1>1. PublicationTypeOK'
  BY CreateKeepsTypes, PublishKeepsTypes, AddFileKeepsTypes, CreateDraftKeepsTypes, MergeKeepsTypes,
     RemoveKeepsTypes, FlushKeepsTypes, RestoreKeepsTypes, DeleteFileKeepsTypes, WorkersKeepTypes
     DEF PublicationNext
<1>2. PublishedIsAccounted'
  BY CreateIsAccounted, PublishIsAccounted, AddFileIsAccounted, CreateDraftIsAccounted,
     MergeIsAccounted, RemoveIsAccounted, FlushIsAccounted, RestoreIsAccounted,
     DeleteFileIsAccounted, TakeTaskIsAccounted, UnpublishIsAccounted, PublishFilesIsAccounted,
     CrashIsAccounted DEF PublicationNext
<1> QED BY <1>1, <1>2, SetsStepOwn, TasksStayFit DEF PublicationInv

LEMMA PublicationStutterKeeps ==
    ASSUME PublicationInv, UNCHANGED publicationVars
    PROVE  PublicationInv'
<1>1. PublicationTypeOK'
  BY TypeParts
     DEF PublicationInv, publicationVars, DatasetType, RestType, CountType, WorkType, TasksType
<1>2. SetsAreOwn' /\ DraftsArePublished' /\ TasksFit'
  BY DEF PublicationInv, publicationVars, SetsAreOwn, DraftsArePublished, TasksFit, Exists,
         PublishesAll
<1>3. \A s : IsAwaited(s) => IsAwaited(s)'
  BY TasksWait DEF publicationVars
<1>4. \A d \in Dataset : Keeps(d)
  BY FilesStay DEF publicationVars
<1>5. PublishedIsAccounted'
  BY <1>3, <1>4, AccountedStep DEF publicationVars, Keeps, PublicationInv, PublishedIsAccounted
<1> QED BY <1>1, <1>2, <1>5 DEF PublicationInv

LEMMA PublicationInvariance == PublicationSpec => []PublicationInv
<1>1. PublicationInv /\ [PublicationNext]_publicationVars => PublicationInv'
  BY PublicationNextKeeps, PublicationStutterKeeps
<1> QED BY PublicationInitIsGood, <1>1, PTL DEF PublicationSpec

\* Whatever the datasets, the workers and the order of their tasks are, the
\* state stays of its type.
THEOREM PublicationTypeCorrect == PublicationSpec => []PublicationTypeOK
BY PublicationInvariance, PTL DEF PublicationInv

\* When all tasks are done only files of public datasets are published, however
\* many requests, tasks and crashes there were, except those that a flush or an
\* overtaken task left so.
THEOREM NothingElseCorrect == PublicationSpec => []NothingElseIsPublished
<1>1. PublicationInv => NothingElseIsPublished
  <2> SUFFICES ASSUME PublicationInv, Quiet, NEW f \in published, f \notin leaked
               PROVE  f \in PublicFiles
    BY DEF NothingElseIsPublished
  <2>1. BagToSet(tasks) = {}
    BY DEF Quiet, EmptyBag, SetToBag, BagToSet
  <2>2. \A s : ~IsAwaited(s)
    BY <2>1 DEF Quiet, IsAwaited
  <2> QED BY <2>2 DEF PublicationInv, PublishedIsAccounted, IsWaitedFor, PublicFiles
<1> QED BY <1>1, PublicationInvariance, PTL
=============================================================================
