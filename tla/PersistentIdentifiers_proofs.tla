--------------------- MODULE PersistentIdentifiers_proofs ---------------------
(* What identifiers promise, for any datasets, catalogs and requests at a     *)
(* time: whom an identifier is unique among, where a generated one leads to,  *)
(* that it stays, and that a DOI shows the metadata of its dataset.           *)
EXTENDS PersistentIdentifiers, TLAPS

-----------------------------------------------------------------------------
(* The invariant. *)

\* A generated identifier is one that the service made for the dataset, or came
\* with the migrated dataset.
IsOwn(d, x) ==
    x.generated =>
        /\ x.pid # None
        /\ x.pid.id \in 0..used.minted
        /\ service[x.pid.id] = None => d = Migrated
        /\ service[x.pid.id] # None => service[x.pid.id].dataset = d

\* The service shows this metadata.
IsShown(x) == service[x.pid.id] # None /\ service[x.pid.id].content = x.content

OriginalsAreSound ==
    \A d \in Dataset :
        LET o == row[Original(d)]
        IN o # None =>
               /\ IsOwn(d, o)
               /\ o.state = "draft" => ~o.generated
               /\ o.state = "published" => o.pid # None

\* A linked draft has the identifier of its original, as a placeholder, if that is
\* generated, and is not there without its original.
DraftsAreLinked ==
    \A d \in Dataset :
        LET o == row[Original(d)] l == row[Linked(d)]
        IN l # None =>
               /\ l.state = "draft" /\ ~l.removed
               /\ o # None /\ o.state = "published" /\ ~o.removed
               /\ l.generated = o.generated
               /\ l.generated => l.pid = [o.pid EXCEPT !.draft = TRUE]

\* A row that replaces another one keeps a generated identifier.
Replaces(new, old) ==
    /\ old # None
    /\ new.generated = old.generated
    /\ old.generated => new.pid = old.pid

Creates(j) ==
    /\ j.kind = "create"
    /\ j.target = Original(j.target[1])
    /\ row[j.target] = None
    /\ j.new.generated => j.new.state = "published"

Updates(j) ==
    /\ j.kind = "update"
    /\ j.locks = {j.target}
    /\ Replaces(j.new, row[j.target])
    /\ j.new.state = row[j.target].state
    /\ ~row[j.target].removed /\ ~j.new.removed

Publishes(j) ==
    /\ j.kind = "publish"
    /\ j.target = Original(j.target[1])
    /\ j.locks = {j.target}
    /\ row[j.target] # None /\ row[j.target].state = "draft"
    /\ j.new.state = "published"

CreatesDraft(j) ==
    /\ j.kind = "create_draft"
    /\ j.target = Linked(j.target[1])
    /\ j.locks = {Original(j.target[1])}
    /\ row[j.target] = None
    /\ j.new.state = "draft" /\ ~j.new.removed
    /\ LET o == row[Original(j.target[1])]
       IN /\ o # None /\ o.state = "published" /\ ~o.removed
          /\ j.new.generated = o.generated
          /\ j.new.generated => j.new.pid = [o.pid EXCEPT !.draft = TRUE]

Merges(j) ==
    /\ j.kind = "merge"
    /\ j.target = Original(j.target[1])
    /\ j.locks = {Linked(j.target[1])}
    /\ row[Linked(j.target[1])] # None
    /\ Replaces(j.new, row[j.target])
    /\ j.new.state = "published" /\ ~j.new.removed

Restores(j) ==
    /\ j.kind = "restore"
    /\ j.target = Original(j.target[1])
    /\ j.locks = {j.target}
    /\ row[j.target] # None /\ row[j.target].removed
    /\ j.new = [row[j.target] EXCEPT !.removed = FALSE]

\* What a request read is still so when it writes.
Fits(j) ==
    \/ Creates(j) \/ Updates(j) \/ Publishes(j) \/ CreatesDraft(j) \/ Merges(j) \/ Restores(j)

JobsFit == \A r \in Request : job[r] # None => Fits(job[r])

\* No two requests hold one lock or create one dataset.
JobsAreApart ==
    \A r, s \in Request :
        r # s /\ job[r] # None /\ job[s] # None =>
            /\ job[r].locks \cap job[s].locks = {}
            /\ job[r].kind = "create" => job[s].target # job[r].target

\* How far a request has come with the service.
StepFits(j) ==
    /\ j.step = "mint" => /\ j.kind \in {"create", "publish"} /\ j.new.state = "published"
                          /\ j.new.pid = None /\ j.new.wants # None /\ ~j.new.generated
    /\ j.step # "mint" /\ j.new.state = "published" => j.new.pid # None
    /\ j.step = "put" => MustDescribe(j)
    /\ j.step = "write" /\ MustDescribe(j) => IsShown(j.new)
    /\ j.kind \in {"create", "publish"} /\ j.new.generated =>
           IsOwn(j.target[1], j.new) /\ IsShown(j.new)
    /\ j.target[2] = "original" /\ j.new.pid # None => ~j.new.pid.draft

StepsFit == \A r \in Request : job[r] # None => StepFits(job[r])

Same(x, y) ==
    /\ x # None /\ y # None /\ x.pid # None /\ x.pid = y.pid
    /\ \/ x.catalog = y.catalog
       \/ x.catalog \notin External /\ y.catalog \notin External

\* Who has been checked shares an identifier only with what it does not see.
CheckedIsUnique ==
    \A r \in Request :
        job[r] # None /\ job[r].step \in {"put", "write"} =>
            \A k \in Others(job[r]) : Same(job[r].new, row[k]) => k[1] \in job[r].unseen

\* A request that has sent metadata and has not committed.
Sent(d) ==
    \E r \in Request :
        /\ job[r] # None
        /\ job[r].target = Original(d) /\ job[r].step = "write" /\ MustDescribe(job[r])

ShownUnlessSent ==
    \A d \in Dataset :
        LET o == row[Original(d)]
        IN o # None /\ o.state = "published" /\ o.generated /\ o.wants = "DOI"
              /\ d \notin undescribed /\ ~Sent(d)
           => IsShown(o)

IInv ==
    /\ TypeOK
    /\ OriginalsAreSound
    /\ DraftsAreLinked
    /\ JobsFit
    /\ JobsAreApart
    /\ StepsFit
    /\ CheckedIsUnique
    /\ UniqueUnlessOverlapped
    /\ ShownUnlessSent

-----------------------------------------------------------------------------
(* Rows, keys and jobs. *)

LEMMA Keys ==
    /\ \A d \in Dataset :
           /\ Original(d) \in Key /\ Linked(d) \in Key
           /\ Original(d)[1] = d /\ Linked(d)[1] = d
           /\ Original(d)[2] = "original" /\ Linked(d)[2] = "linked"
    /\ \A k \in Key : /\ k[1] \in Dataset
                      /\ \/ k = Original(k[1]) /\ k[2] = "original"
                         \/ k = Linked(k[1]) /\ k[2] = "linked"
BY DEF Key, Original, Linked

LEMMA KeysDiffer ==
    /\ \A d, e : Original(d) # Linked(e)
    /\ \A d, e : Original(d) = Original(e) => d = e
    /\ \A d, e : Linked(d) = Linked(e) => d = e
BY DEF Original, Linked

LEMMA RowTypes ==
    ASSUME TypeOK, NEW k \in Key, row[k] # None
    PROVE  /\ row[k] \in Row
           /\ row[k].catalog \in Catalog /\ row[k].state \in {"draft", "published"}
           /\ row[k].removed \in BOOLEAN /\ row[k].pid \in Pid \cup {None}
           /\ row[k].generated \in BOOLEAN /\ row[k].wants \in Wants
           /\ row[k].content \in 0..MaxRequests
           /\ row[k].pid # None /\ k[2] = "original" => ~row[k].pid.draft
<1>1. row[k] \in Row
  BY DEF TypeOK
<1>2. row[k].pid # None /\ k[2] = "original" => ~row[k].pid.draft
  BY DEF TypeOK
<1> QED BY <1>1, <1>2 DEF Row

LEMMA JobTypes ==
    ASSUME TypeOK, NEW r \in Request, job[r] # None
    PROVE  /\ job[r] \in Job
           /\ job[r].kind \in {"create", "update", "publish", "create_draft", "merge", "restore"}
           /\ job[r].target \in Key /\ job[r].target[1] \in Dataset
           /\ job[r].new \in Row /\ job[r].new # None
           /\ job[r].step \in {"mint", "check", "put", "write"}
           /\ job[r].locks \subseteq Key /\ job[r].unseen \subseteq Dataset
<1>1. job[r] \in Job
  BY DEF TypeOK
<1>2. job[r].new \in Row /\ job[r].target \in Key
  BY <1>1 DEF Job
<1>3. job[r].new # None
  BY <1>2, NoneIsNoRecord
<1> QED BY <1>1, <1>2, <1>3, Keys DEF Job

-----------------------------------------------------------------------------
(* Initially. *)

LEMMA InitRows ==
    ASSUME Init
    PROVE  \A k \in Key :
               row[k] # None =>
                   /\ row[k] \in Row /\ k[2] = "original"
                   /\ row[k].state = "published" /\ ~row[k].removed
                   /\ row[k].pid # None /\ ~row[k].pid.draft
                   /\ row[k].generated =>
                          row[k].pid.id = 0 /\ k[1] = Migrated /\ row[k].wants = "DOI"
<1>1. PICK c1 \in Catalog, c2 \in Catalog, i \in Name, g \in SUBSET Dataset :
          row = [k \in Key |-> IF k = Original(Migrated) THEN MigratedRow(c1)
                               ELSE IF k[2] = "original" /\ k[1] \in g THEN Given(c2, i)
                               ELSE None]
  BY PidAssumption DEF Init
<1>2. 0 \in Minted /\ 0 \in 0..MaxRequests
  BY PidAssumption DEF Minted
<1>3. ASSUME NEW c \in Catalog, NEW n \in Name \cup Minted
      PROVE  Given(c, n) \in Row /\ Given(c, n).pid # None
  <2>1. Plain(n) \in Pid
    BY DEF Plain, Pid
  <2> QED BY <1>2, <2>1, NoneIsNoRecord DEF Given, Row, Wants
<1>4. Given(c1, 0) \in Row /\ Given(c1, 0).pid # None
  BY <1>2, <1>3
<1>5. /\ MigratedRow(c1) \in Row
      /\ MigratedRow(c1).state = "published" /\ ~MigratedRow(c1).removed
      /\ MigratedRow(c1).pid = Plain(0)
      /\ MigratedRow(c1).wants = "DOI"
  BY <1>4, Zenon DEF MigratedRow, Given, Row, Wants
<1> SUFFICES ASSUME NEW k \in Key, row[k] # None
             PROVE  /\ row[k] \in Row /\ k[2] = "original"
                    /\ row[k].state = "published" /\ ~row[k].removed
                    /\ row[k].pid # None /\ ~row[k].pid.draft
                    /\ row[k].generated =>
                           row[k].pid.id = 0 /\ k[1] = Migrated /\ row[k].wants = "DOI"
  OBVIOUS
<1>6. CASE k = Original(Migrated)
  <2>1. k[2] = "original" /\ k[1] = Migrated
    BY <1>6 DEF Original
  <2>2. row[k] = MigratedRow(c1)
    BY <1>1, <1>6
  <2>3. MigratedRow(c1).pid # None
    BY <1>4 DEF MigratedRow, Given
  <2> QED BY <1>5, <2>1, <2>2, <2>3 DEF Plain
<1>7. CASE k # Original(Migrated)
  <2>1. row[k] = Given(c2, i) /\ k[2] = "original"
    BY <1>1, <1>7
  <2> QED BY <1>3, <2>1 DEF Given, Plain
<1> QED BY <1>6, <1>7

LEMMA InitIsGood == Init => IInv
<1> SUFFICES ASSUME Init PROVE IInv OBVIOUS
<1>1. /\ service = [n \in Minted |-> None] /\ job = [r \in Request |-> None]
      /\ used = [requests |-> 0, minted |-> 0] /\ overlapped = {}
      /\ undescribed = {Migrated} \cap Dataset
  BY DEF Init
<1>2. 0 \in Minted /\ 0 \in 0..MaxRequests /\ 0 \in 0..used.minted
  BY <1>1, PidAssumption DEF Minted
<1>3. TypeOK
  <2>1. row \in [Key -> Row \cup {None}]
    BY InitRows, Zenon DEF Init
  <2> QED BY <1>1, <1>2, <2>1, InitRows DEF TypeOK
<1>4. OriginalsAreSound
  BY <1>1, <1>2, InitRows, Keys DEF OriginalsAreSound, IsOwn
<1>5. DraftsAreLinked
  BY InitRows, Keys DEF DraftsAreLinked
<1>6. JobsFit /\ JobsAreApart /\ StepsFit /\ CheckedIsUnique
  BY <1>1 DEF JobsFit, JobsAreApart, StepsFit, CheckedIsUnique
<1>7. UniqueUnlessOverlapped
  <2> SUFFICES ASSUME NEW k \in Key, NEW l \in Key, k # l, Clash(k, l) PROVE FALSE
    BY DEF UniqueUnlessOverlapped
  <2>1. PICK c1 \in {c \in Catalog : "DOI" \in Managed[c]}, c2 \in TakesPids, i \in Name,
             g \in SUBSET (Dataset \ {Migrated}) :
           /\ \A d, e \in g : d = e
           /\ row = [m \in Key |-> IF m = Original(Migrated) THEN MigratedRow(c1)
                                   ELSE IF m[2] = "original" /\ m[1] \in g THEN Given(c2, i)
                                   ELSE None]
    BY Zenon DEF Init
  <2>2. /\ k[1] = Migrated \/ k[1] \in g
        /\ l[1] = Migrated \/ l[1] \in g
        /\ k = Original(k[1]) /\ l = Original(l[1])
    BY <2>1, InitRows, Keys DEF Clash, Original
  <2>3. k[1] # l[1]
    BY <2>2
  <2>4. PICK a \in Dataset, b \in Dataset :
            /\ a = Migrated /\ b \in g
            /\ row[Original(a)].pid = row[Original(b)].pid
    BY <2>1, <2>2, <2>3, Keys DEF Clash
  <2>5. b # Migrated
    BY <2>1, <2>4
  <2>6. Original(b) # Original(Migrated) /\ Original(b)[2] = "original" /\ Original(b)[1] = b
    BY <2>5, KeysDiffer DEF Original
  <2>7. row[Original(a)] = MigratedRow(c1) /\ row[Original(b)] = Given(c2, i)
    BY <2>1, <2>4, <2>6, Keys
  <2>8. MigratedRow(c1).pid = Plain(0) /\ Given(c2, i).pid = Plain(i)
    BY DEF MigratedRow, Given
  <2>9. i = 0
    BY <2>4, <2>7, <2>8 DEF Plain
  <2> QED BY <1>2, <2>9, PidAssumption DEF Minted
<1>8. ShownUnlessSent
  BY <1>1, InitRows, Keys DEF ShownUnlessSent
<1> QED BY <1>3, <1>4, <1>5, <1>6, <1>7, <1>8 DEF IInv

-----------------------------------------------------------------------------
(* A request begins. *)

Kinds == {"create", "update", "publish", "create_draft", "merge", "restore"}

FirstStepOf(kind, new) ==
    IF kind \in {"create", "publish"} /\ new.state = "published" /\ new.pid = None
    THEN "mint" ELSE "check"

\* What is true of a request that has just begun.
IsBegun(r, j) ==
    /\ job[r] = None
    /\ used.requests < MaxRequests
    /\ used' = [used EXCEPT !.requests = @ + 1]
    /\ job' = [job EXCEPT ![r] = j]
    /\ \A k \in j.locks : ~Locked(k)
    /\ row' = row /\ service' = service /\ overlapped' = overlapped /\ undescribed' = undescribed
    /\ j \in Job
    /\ Fits(j) /\ StepFits(j) /\ j.step \in {"mint", "check"}
    /\ j.kind = "create" => \A s \in Request : job[s] # None => job[s].target # j.target
    /\ j.kind # "create" => row[Original(j.target[1])] # None

LEMMA Begins ==
    ASSUME TypeOK, NEW r \in Request, NEW kind \in Kinds, NEW target \in Key, NEW new \in Row,
           NEW locks \in SUBSET Key, BeginRequest(r, kind, target, new, locks),
           \A j \in Job :
               /\ j.kind = kind /\ j.target = target /\ j.new = new /\ j.locks = locks
               /\ j.step = FirstStepOf(kind, new)
               => /\ Fits(j) /\ StepFits(j)
                  /\ j.kind = "create" =>
                         \A s \in Request : job[s] # None => job[s].target # j.target
                  /\ j.kind # "create" => row[Original(j.target[1])] # None
    PROVE  \E j \in Job : IsBegun(r, j)
<1> DEFINE j == [kind |-> kind, target |-> target, new |-> new, locks |-> locks, unseen |-> {},
                 step |-> FirstStepOf(kind, new)]
<1>1. j \in Job
  BY DEF Job, Kinds, FirstStepOf
<1>2. job' = [job EXCEPT ![r] = j]
  BY DEF BeginRequest, FirstStepOf
<1>3. j.step \in {"mint", "check"}
  BY DEF FirstStepOf
<1>4. /\ Fits(j) /\ StepFits(j)
      /\ j.kind = "create" => \A s \in Request : job[s] # None => job[s].target # j.target
      /\ j.kind # "create" => row[Original(j.target[1])] # None
  BY <1>1
<1>5. \A k \in j.locks : ~Locked(k)
  BY DEF BeginRequest
<1> HIDE DEF j
<1>6. IsBegun(r, j)
  BY <1>1, <1>2, <1>3, <1>4, <1>5, Zenon DEF IsBegun, BeginRequest
<1> QED BY <1>1, <1>6

LEMMA ContentIsNumber ==
    ASSUME TypeOK, used.requests < MaxRequests
    PROVE  used.requests + 1 \in 0..MaxRequests
BY PidAssumption DEF TypeOK

LEMMA UserPids ==
    ASSUME TypeOK, NEW pid \in UserPid
    PROVE  pid \in Pid \cup {None} /\ (pid # None => ~pid.draft)
<1>1. CASE pid = None
  BY <1>1
<1>2. CASE pid # None
  <2>1. PICK i \in Name \cup 0..used.minted : pid = Plain(i)
    BY <1>2 DEF UserPid
  <2>2. i \in Name \cup Minted
    BY <2>1, PidAssumption DEF Minted, TypeOK
  <2> QED BY <2>1, <2>2 DEF Plain, Pid
<1> QED BY <1>1, <1>2

LEMMA CreateBegins ==
    ASSUME IInv, NEW r \in Request, NEW d \in Dataset, NEW c \in Catalog, NEW pid \in UserPid,
           NEW w \in Wants, NEW state \in {"draft", "published"}, Create(r, d, c, pid, w, state)
    PROVE  \E j \in Job : IsBegun(r, j)
<1> DEFINE new == [catalog |-> c, state |-> state, removed |-> FALSE, pid |-> pid,
                   generated |-> FALSE, wants |-> w, content |-> used.requests + 1]
<1>1. /\ BeginRequest(r, "create", Original(d), new, {}) /\ IsNew(d)
      /\ state = "published" /\ pid = None => w # None
  BY DEF Create
<1>2. new \in Row
  <2>1. used.requests + 1 \in 0..MaxRequests
    BY <1>1, ContentIsNumber DEF BeginRequest, IInv
  <2> QED BY <2>1, UserPids DEF Row, IInv
<1>3. /\ ~new.generated /\ (new.pid # None => ~new.pid.draft)
      /\ new.state = "published" /\ new.pid = None => new.wants # None
  BY <1>1, UserPids DEF IInv
<1> HIDE DEF new
<1>4. ASSUME NEW j \in Job, j.kind = "create", j.target = Original(d), j.new = new, j.locks = {},
             j.step = FirstStepOf("create", new)
      PROVE  /\ Fits(j) /\ StepFits(j)
             /\ \A s \in Request : job[s] # None => job[s].target # j.target
  <2>1. Creates(j)
    BY <1>1, <1>3, <1>4, Keys DEF Creates, IsNew
  <2>2. j.step = IF new.state = "published" /\ new.pid = None THEN "mint" ELSE "check"
    BY <1>4 DEF FirstStepOf
  <2>3. StepFits(j)
    BY <1>3, <1>4, <2>2 DEF StepFits
  <2> QED BY <1>1, <1>4, <2>1, <2>3 DEF Fits, IsNew
<1>5. "create" \in Kinds /\ Original(d) \in Key
  BY Keys DEF Kinds
<1> QED BY <1>1, <1>2, <1>4, <1>5, Begins DEF IInv

LEMMA NewVersionBegins ==
    ASSUME IInv, NEW r \in Request, NEW d \in Dataset, NEW e \in Dataset, NewVersion(r, d, e)
    PROVE  \E j \in Job : IsBegun(r, j)
<1> DEFINE new == VersionOf(row[Original(d)])
<1>1. /\ BeginRequest(r, "create", Original(e), new, {Original(d)}) /\ IsNew(e)
      /\ row[Original(d)] # None
  BY DEF NewVersion, Found
<1>2. row[Original(d)] \in Row
  BY <1>1, Keys, RowTypes DEF IInv
<1>3. new \in Row /\ new.state = "draft" /\ ~new.generated /\ new.pid = None
  BY <1>2, Zenon DEF Row, VersionOf
<1> HIDE DEF new
<1>4. ASSUME NEW j \in Job, j.kind = "create", j.target = Original(e), j.new = new,
             j.step = FirstStepOf("create", new)
      PROVE  /\ Fits(j) /\ StepFits(j)
             /\ \A s \in Request : job[s] # None => job[s].target # j.target
  <2>1. Creates(j)
    BY <1>1, <1>3, <1>4, Keys DEF Creates, IsNew
  <2>2. j.step = "check"
    BY <1>3, <1>4 DEF FirstStepOf
  <2>3. StepFits(j)
    BY <1>3, <1>4, <2>2 DEF StepFits
  <2> QED BY <1>1, <1>4, <2>1, <2>3 DEF Fits, IsNew
<1>5. "create" \in Kinds /\ Original(e) \in Key /\ {Original(d)} \in SUBSET Key
  BY Keys DEF Kinds
<1> QED BY <1>1, <1>3, <1>4, <1>5, Begins DEF IInv

LEMMA UpdateBegins ==
    ASSUME IInv, NEW r \in Request, NEW k \in Key, row[k] # None, NEW w \in Wants,
           NEW pid \in UserPid \cup {row[k].pid}, Update(r, k, pid, w)
    PROVE  \E j \in Job : IsBegun(r, j)
<1> DEFINE new == [row[k] EXCEPT !.pid = pid, !.wants = w, !.content = used.requests + 1]
<1>1. /\ BeginRequest(r, "update", k, new, {k}) /\ IsValid(new)
      /\ ~row[k].removed /\ MaySetPid(row[k], pid)
  BY DEF Update, Found
<1>2. /\ row[k] \in Row
      /\ row[k].pid \in Pid \cup {None}
      /\ row[k].generated \in BOOLEAN
      /\ row[k].pid # None /\ k[2] = "original" => ~row[k].pid.draft
  BY RowTypes DEF IInv
<1>3. pid \in Pid \cup {None} /\ (pid # None /\ k[2] = "original" => ~pid.draft)
  BY <1>2, UserPids DEF IInv
<1>4. used.requests + 1 \in 0..MaxRequests
  BY <1>1, ContentIsNumber DEF BeginRequest, IInv
<1>5. /\ new \in Row /\ new.pid = pid /\ new.wants = w
      /\ new.generated = row[k].generated /\ new.state = row[k].state
      /\ new.removed = row[k].removed
  BY <1>2, <1>3, <1>4, Zenon DEF Row
<1>6. row[k].generated => pid = row[k].pid
  BY <1>1 DEF MaySetPid
<1> HIDE DEF new
<1>7. row[Original(k[1])] # None
  <2>1. CASE k = Original(k[1])
    BY <2>1
  <2>2. CASE k = Linked(k[1])
    <3>1. k[1] \in Dataset /\ row[Linked(k[1])] # None
      BY <2>2, Keys
    <3> QED BY <3>1, Zenon DEF IInv, DraftsAreLinked
  <2> QED BY <2>1, <2>2, Keys
<1>8. ASSUME NEW j \in Job, j.kind = "update", j.target = k, j.new = new, j.locks = {k},
             j.step = FirstStepOf("update", new)
      PROVE  Fits(j) /\ StepFits(j) /\ row[Original(j.target[1])] # None
  <2>1. Updates(j)
    BY <1>1, <1>5, <1>6, <1>8 DEF Updates, Replaces
  <2>2. j.step = "check"
    BY <1>8 DEF FirstStepOf
  <2>3. StepFits(j)
    BY <1>1, <1>3, <1>5, <1>8, <2>2 DEF StepFits, IsValid
  <2> QED BY <1>7, <1>8, <2>1, <2>3 DEF Fits
<1>9. "update" \in Kinds
  BY DEF Kinds
<1> QED BY <1>1, <1>5, <1>8, <1>9, Begins DEF IInv

LEMMA PublishBegins ==
    ASSUME IInv, NEW r \in Request, NEW d \in Dataset, Publish(r, d)
    PROVE  \E j \in Job : IsBegun(r, j)
<1> DEFINE o == row[Original(d)]
           new == [o EXCEPT !.state = "published"]
<1>1. /\ BeginRequest(r, "publish", Original(d), new, {Original(d)})
      /\ o # None /\ o.state = "draft" /\ (new.pid = None => new.wants # None)
  BY DEF Publish, Found
<1>2. Original(d) \in Key /\ Original(d)[1] = d /\ Original(d)[2] = "original"
  BY Keys
<1>3. /\ o \in Row
      /\ o.pid # None => ~o.pid.draft
  BY <1>1, <1>2, RowTypes DEF IInv
<1>4. ~o.generated
  BY <1>1 DEF IInv, OriginalsAreSound
<1>5. new \in Row /\ new.state = "published" /\ new.pid = o.pid /\ ~new.generated
  BY <1>3, <1>4 DEF Row
<1>6. o # None /\ o.state = "draft" /\ (new.pid = None => new.wants # None)
      /\ (new.pid # None => ~new.pid.draft)
  BY <1>1, <1>3, <1>5
<1>7. new \in Row /\ new.state = "published" /\ ~new.generated
  BY <1>5
<1> HIDE DEF new
<1>8. ASSUME NEW j \in Job, j.kind = "publish", j.target = Original(d), j.new = new,
             j.locks = {Original(d)}, j.step = FirstStepOf("publish", new)
      PROVE  Fits(j) /\ StepFits(j) /\ row[Original(j.target[1])] # None
  <2>1. Publishes(j)
    BY <1>2, <1>6, <1>7, <1>8 DEF Publishes
  <2>2. j.step = IF new.pid = None THEN "mint" ELSE "check"
    BY <1>7, <1>8 DEF FirstStepOf
  <2>3. StepFits(j)
    BY <1>6, <1>7, <1>8, <2>2 DEF StepFits
  <2> QED BY <1>2, <1>6, <1>8, <2>1, <2>3 DEF Fits
<1>9. "publish" \in Kinds
  BY DEF Kinds
<1> QED BY <1>1, <1>2, <1>7, <1>8, <1>9, Begins DEF IInv

LEMMA CreateDraftBegins ==
    ASSUME IInv, NEW r \in Request, NEW d \in Dataset, CreateDraft(r, d)
    PROVE  \E j \in Job : IsBegun(r, j)
<1> DEFINE o == row[Original(d)]
           new == [o EXCEPT !.state = "draft", !.pid.draft = TRUE]
<1>1. /\ BeginRequest(r, "create_draft", Linked(d), new, {Original(d)})
      /\ o # None /\ ~o.removed /\ o.state = "published" /\ row[Linked(d)] = None
  BY DEF CreateDraft, Found
<1>2. /\ Original(d) \in Key /\ Linked(d) \in Key
      /\ Linked(d)[1] = d /\ Linked(d)[2] = "linked"
  BY Keys
<1>3. o \in Row /\ o.pid # None
  BY <1>1, <1>2, RowTypes DEF IInv, OriginalsAreSound
<1>4. o.pid \in Pid /\ o.removed \in BOOLEAN /\ o.generated \in BOOLEAN
  BY <1>3 DEF Row
<1>5. [o.pid EXCEPT !.draft = TRUE] \in Pid
  BY <1>4, Zenon DEF Pid
<1>6. /\ new \in Row /\ new.state = "draft" /\ new.removed = o.removed
      /\ new.pid = [o.pid EXCEPT !.draft = TRUE] /\ new.generated = o.generated
  BY <1>3, <1>5, Zenon DEF Row
<1> HIDE DEF new
<1>7. ASSUME NEW j \in Job, j.kind = "create_draft", j.target = Linked(d), j.new = new,
             j.locks = {Original(d)}, j.step = FirstStepOf("create_draft", new)
      PROVE  Fits(j) /\ StepFits(j) /\ row[Original(j.target[1])] # None
  <2>1. CreatesDraft(j)
    BY <1>1, <1>2, <1>6, <1>7, ZenonT(60) DEF CreatesDraft
  <2>2. j.step = "check"
    BY <1>7 DEF FirstStepOf
  <2>3. StepFits(j)
    BY <1>2, <1>6, <1>7, <2>2 DEF StepFits
  <2> QED BY <1>1, <1>2, <1>7, <2>1, <2>3 DEF Fits
<1>8. "create_draft" \in Kinds
  BY DEF Kinds
<1> QED BY <1>1, <1>2, <1>6, <1>7, <1>8, Begins DEF IInv

LEMMA MergeBegins ==
    ASSUME IInv, NEW r \in Request, NEW d \in Dataset, Merge(r, d)
    PROVE  \E j \in Job : IsBegun(r, j)
<1> DEFINE o == row[Original(d)]
           l == row[Linked(d)]
           new == [o EXCEPT !.pid = MergedPid(o, l), !.generated = l.generated,
                            !.wants = l.wants, !.content = l.content]
<1>1. /\ BeginRequest(r, "merge", Original(d), new, {Linked(d)}) /\ IsValid(new)
      /\ l # None
  BY DEF Merge, Found
<1>2. /\ Original(d) \in Key /\ Linked(d) \in Key
      /\ Original(d)[1] = d /\ Original(d)[2] = "original"
  BY Keys
<1>3. /\ o # None /\ o.state = "published" /\ ~o.removed
      /\ l.generated = o.generated
      /\ l.generated => l.pid = [o.pid EXCEPT !.draft = TRUE]
  BY <1>1 DEF IInv, DraftsAreLinked
<1>4. /\ o \in Row /\ o.pid \in Pid /\ ~o.pid.draft
      /\ l \in Row /\ l.pid \in Pid \cup {None} /\ l.generated \in BOOLEAN
      /\ l.wants \in Wants /\ l.content \in 0..MaxRequests
  BY <1>1, <1>2, <1>3, RowTypes DEF IInv, OriginalsAreSound
<1>5. MergedPid(o, l) \in Pid \cup {None} /\ (MergedPid(o, l) # None => ~MergedPid(o, l).draft)
  BY <1>4 DEF MergedPid, Pid
<1>6. l.generated => MergedPid(o, l) = o.pid
  <2>1. l.generated => l.pid # None /\ l.pid.draft
    <3>1. [o.pid EXCEPT !.draft = TRUE] \in Pid /\ [o.pid EXCEPT !.draft = TRUE].draft
      BY <1>4, Zenon DEF Pid
    <3> QED BY <1>3, <3>1, NoneIsNoRecord, Zenon
  <2> QED BY <2>1 DEF MergedPid
<1>7. /\ new \in Row /\ new.state = o.state /\ new.removed = o.removed
      /\ new.generated = l.generated /\ new.pid = MergedPid(o, l)
  BY <1>4, <1>5, Zenon DEF Row
<1> HIDE DEF new
<1>8. ASSUME NEW j \in Job, j.kind = "merge", j.target = Original(d), j.new = new,
             j.locks = {Linked(d)}, j.step = FirstStepOf("merge", new)
      PROVE  Fits(j) /\ StepFits(j) /\ row[Original(j.target[1])] # None
  <2>1. Merges(j)
    BY <1>1, <1>2, <1>3, <1>6, <1>7, <1>8 DEF Merges, Replaces
  <2>2. j.step = "check"
    BY <1>8 DEF FirstStepOf
  <2>3. StepFits(j)
    BY <1>1, <1>5, <1>7, <1>8, <2>2 DEF StepFits, IsValid
  <2> QED BY <1>2, <1>3, <1>8, <2>1, <2>3 DEF Fits
<1>9. "merge" \in Kinds
  BY DEF Kinds
<1> QED BY <1>1, <1>2, <1>7, <1>8, <1>9, Begins DEF IInv

LEMMA RestoreBegins ==
    ASSUME IInv, NEW r \in Request, NEW d \in Dataset, Restore(r, d)
    PROVE  \E j \in Job : IsBegun(r, j)
<1> DEFINE o == row[Original(d)]
           new == [o EXCEPT !.removed = FALSE]
<1>1. /\ BeginRequest(r, "restore", Original(d), new, {Original(d)})
      /\ o # None /\ o.removed
  BY DEF Restore
<1>2. Original(d) \in Key /\ Original(d)[1] = d /\ Original(d)[2] = "original"
  BY Keys
<1>3. /\ o \in Row /\ (o.pid # None => ~o.pid.draft)
      /\ o.state = "published" => o.pid # None
  BY <1>1, <1>2, RowTypes DEF IInv, OriginalsAreSound
<1>4. new \in Row /\ new.pid = o.pid /\ new.state = o.state
  BY <1>3, Zenon DEF Row
<1>5. ASSUME NEW j \in Job, j.kind = "restore", j.target = Original(d), j.new = new,
             j.locks = {Original(d)}, j.step = FirstStepOf("restore", new)
      PROVE  Fits(j) /\ StepFits(j) /\ row[Original(j.target[1])] # None
  <2>1. Restores(j)
    BY <1>1, <1>2, <1>5 DEF Restores
  <2>2. j.step = "check"
    BY <1>5 DEF FirstStepOf
  <2>3. StepFits(j)
    BY <1>3, <1>4, <1>5, <2>2 DEF StepFits
  <2> QED BY <1>1, <1>2, <1>5, <2>1, <2>3 DEF Fits
<1>6. "restore" \in Kinds
  BY DEF Kinds
<1> HIDE DEF new
<1> QED BY <1>1, <1>2, <1>4, <1>5, <1>6, Begins DEF IInv

LEMMA Begun ==
    ASSUME IInv, NEW r \in Request, Begin(r)
    PROVE  \E j \in Job : IsBegun(r, j)
BY CreateBegins, NewVersionBegins, UpdateBegins, PublishBegins, CreateDraftBegins, MergeBegins,
   RestoreBegins DEF Begin

-----------------------------------------------------------------------------
(* What the steps of a request do. *)

\* The same request, one step further.
IsSame(i, j) ==
    /\ i \in Job
    /\ i.kind = j.kind /\ i.target = j.target /\ i.new = j.new /\ i.locks = j.locks

LEMMA GoesOn ==
    ASSUME TypeOK, NEW r \in Request, job[r] # None,
           NEW step \in {"put", "write"}, Goes(r, step)
    PROVE  \E i : /\ IsSame(i, job[r]) /\ i.unseen = job[r].unseen /\ i.step = step
                  /\ job' = [job EXCEPT ![r] = i]
<1>1. job[r] \in Job
  BY JobTypes
<1> DEFINE i == [job[r] EXCEPT !.step = step]
<1>2. /\ i \in Job /\ i.step = step /\ i.unseen = job[r].unseen
      /\ i.kind = job[r].kind /\ i.target = job[r].target /\ i.new = job[r].new
      /\ i.locks = job[r].locks
  BY <1>1 DEF Job
<1>3. job' = [job EXCEPT ![r] = i]
  BY DEF Goes
<1> QED BY <1>2, <1>3, Zenon DEF IsSame

LEMMA Minting ==
    ASSUME IInv, NEW r \in Request, Mint(r)
    PROVE  /\ job[r] # None /\ job[r].kind \in {"create", "publish"} /\ ~job[r].new.generated
           /\ job[r].new.state = "published"
           /\ job[r].target = Original(job[r].target[1]) /\ job[r].new.wants \in {"URN", "DOI"}
           /\ used.minted + 1 \in Minted
           /\ used' = [used EXCEPT !.minted = @ + 1]
           /\ service' = [service EXCEPT ![used.minted + 1] =
                  [dataset |-> job[r].target[1], kind |-> job[r].new.wants,
                   content |-> job[r].new.content]]
           /\ row' = row /\ overlapped' = overlapped /\ undescribed' = undescribed
           /\ \E i \in Job :
                  /\ job' = [job EXCEPT ![r] = i]
                  /\ i.kind = job[r].kind /\ i.target = job[r].target /\ i.locks = job[r].locks
                  /\ i.step = "check"
                  /\ i.new.pid = Plain(used.minted + 1) /\ i.new.generated
                  /\ i.new.content = job[r].new.content /\ i.new.state = job[r].new.state
<1> DEFINE j == job[r]
           n == used.minted + 1
<1>1. j # None /\ j.step = "mint" /\ used.minted < MaxMinted
  BY DEF Mint
<1>2. /\ j \in Job /\ j.new \in Row /\ j.target \in Key
  BY <1>1, JobTypes DEF IInv
<1>3. /\ j.kind \in {"create", "publish"} /\ ~j.new.generated /\ j.new.wants # None
      /\ j.new.state = "published" /\ j.target = Original(j.target[1])
  BY <1>1, Zenon DEF IInv, JobsFit, StepsFit, StepFits, Fits, Creates, Updates, Publishes,
     CreatesDraft, Merges, Restores
<1>4. n \in Minted /\ used' = [used EXCEPT !.minted = @ + 1] /\ used'.minted = n
  BY <1>1, PidAssumption DEF IInv, TypeOK, Minted, Mint
<1>5. service' = [service EXCEPT ![n] =
           [dataset |-> j.target[1], kind |-> j.new.wants, content |-> j.new.content]]
  BY <1>4 DEF Mint
<1> DEFINE new == [j.new EXCEPT !.pid = Plain(n), !.generated = TRUE]
           i == [j EXCEPT !.new = new, !.step = "check"]
<1>6. job' = [job EXCEPT ![r] = i]
  <2>1. job' = [job EXCEPT ![r].new.pid = Plain(n), ![r].new.generated = TRUE,
                           ![r].step = "check"]
    BY <1>4 DEF Mint
  <2>2. job \in [Request -> Job \cup {None}]
    BY DEF IInv, TypeOK
  <2> QED BY <1>2, <2>1, <2>2, Zenon DEF Job, Row
<1>7. Plain(n) \in Pid
  BY <1>4 DEF Plain, Pid
<1>8. /\ new \in Row /\ new.pid = Plain(n) /\ new.generated
      /\ new.content = j.new.content /\ new.state = j.new.state
  BY <1>2, <1>7, Zenon DEF Row
<1>9. /\ i \in Job /\ i.new = new /\ i.step = "check" /\ i.kind = j.kind
      /\ i.target = j.target /\ i.locks = j.locks
  <2> HIDE DEF new
  <2> QED BY <1>2, <1>8, Zenon DEF Job
<1>10. row' = row /\ overlapped' = overlapped /\ undescribed' = undescribed
  BY DEF Mint
<1>11. j.new.wants \in {"URN", "DOI"}
  BY <1>2, <1>3 DEF Row, Wants
<1> QED BY <1>1, <1>3, <1>4, <1>5, <1>6, <1>8, <1>9, <1>10, <1>11, Zenon

LEMMA Describing ==
    ASSUME IInv, NEW r \in Request, job[r] # None, MustDescribe(job[r])
    PROVE  /\ job[r].target = Original(job[r].target[1])
           /\ Original(job[r].target[1]) \in job[r].locks
           /\ Updates(job[r])
           /\ row[job[r].target] # None
           /\ row[job[r].target].state = "published" /\ row[job[r].target].generated
           /\ row[job[r].target].pid = job[r].new.pid
           /\ job[r].new.pid.id \in 0..used.minted /\ job[r].new.pid.id \in Minted
<1>1. Updates(job[r])
  BY Zenon DEF MustDescribe, IInv, JobsFit, Fits, Creates, Publishes, CreatesDraft, Merges, Restores
<1>2. /\ row[job[r].target] # None
      /\ row[job[r].target].state = "published" /\ row[job[r].target].generated
      /\ row[job[r].target].pid = job[r].new.pid /\ job[r].target \in job[r].locks
  BY <1>1 DEF Updates, Replaces, MustDescribe
<1>3. job[r].target \in Key /\ job[r].target[1] \in Dataset
  BY JobTypes DEF IInv
<1>4. job[r].target # Linked(job[r].target[1])
  <2> SUFFICES ASSUME job[r].target = Linked(job[r].target[1]) PROVE FALSE OBVIOUS
  <2>1. row[Linked(job[r].target[1])] # None
    BY <1>2
  <2>2. row[Linked(job[r].target[1])].state = "draft"
    BY <1>3, <2>1, Zenon DEF IInv, DraftsAreLinked
  <2> QED BY <1>2, <2>2
<1>5. job[r].target = Original(job[r].target[1])
  BY <1>3, <1>4, Keys
<1>6. IsOwn(job[r].target[1], row[job[r].target])
  BY <1>2, <1>3, <1>5 DEF IInv, OriginalsAreSound
<1>7. job[r].new.pid.id \in 0..used.minted
  BY <1>2, <1>6 DEF IsOwn
<1>8. 0..used.minted \subseteq Minted
  BY PidAssumption DEF IInv, TypeOK, Minted
<1> QED BY <1>1, <1>2, <1>5, <1>7, <1>8

LEMMA Merging ==
    ASSUME IInv, NEW r \in Request, job[r] # None, job[r].kind = "merge"
    PROVE  job[r].target = Original(job[r].target[1])
BY Zenon DEF IInv, JobsFit, Fits, Creates, Updates, Publishes, CreatesDraft, Merges, Restores

\* The row that a commit writes, and the draft that a merge deletes.
LEMMA CommitRows ==
    ASSUME IInv, NEW r \in Request, Commit(r)
    PROVE  /\ job[r] # None /\ job[r].step = "write"
           /\ job[r].kind = "merge" => ~Locked(job[r].target)
           /\ row'[job[r].target] = job[r].new
           /\ job[r].kind = "merge" => row'[Linked(job[r].target[1])] = None
           /\ \A k \in Key \ {job[r].target} :
                  (job[r].kind = "merge" => k # Linked(job[r].target[1])) => row'[k] = row[k]
           /\ overlapped' = overlapped \cup {{job[r].target[1], e} : e \in job[r].unseen}
           /\ service' = service /\ used' = used
<1> DEFINE j == job[r]
           d == j.target[1]
<1>1. /\ j # None /\ j.step = "write" /\ (j.kind = "merge" => ~Locked(j.target))
      /\ row' = [row EXCEPT ![j.target] = j.new,
                            ![Linked(d)] = IF j.kind = "merge" THEN None
                                           ELSE IF j.target = Linked(d) THEN j.new ELSE @]
      /\ overlapped' = overlapped \cup {{d, e} : e \in j.unseen}
      /\ service' = service /\ used' = used
  BY DEF Commit
<1>2. j.target \in Key /\ d \in Dataset /\ Linked(d) \in Key
  BY <1>1, JobTypes, Keys DEF IInv
<1>3. j.kind = "merge" => j.target # Linked(d)
  BY <1>1, Merging, KeysDiffer
<1>4. row \in [Key -> Row \cup {None}]
  BY DEF IInv, TypeOK
<1> HIDE DEF j, d
<1>5. row'[j.target] = j.new
  BY <1>1, <1>2, <1>3, <1>4
<1>6. j.kind = "merge" => row'[Linked(d)] = None
  BY <1>1, <1>2, <1>4
<1>7. \A k \in Key \ {j.target} : (j.kind = "merge" => k # Linked(d)) => row'[k] = row[k]
  BY <1>1, <1>2, <1>4
<1> USE DEF j, d
<1> QED BY <1>1, <1>5, <1>6, <1>7, Zenon

\* The other requests have not seen it, if they are past their check.
LEMMA CommitJobs ==
    ASSUME IInv, NEW r \in Request, Commit(r)
    PROVE  /\ job' \in [Request -> Job \cup {None}]
           /\ job'[r] = None
           /\ \A s \in Request \ {r} :
                  /\ job[s] = None => job'[s] = None
                  /\ job[s] # None =>
                         /\ job'[s] # None
                         /\ IsSame(job'[s], job[s]) /\ job'[s].step = job[s].step
                         /\ job[s].unseen \subseteq job'[s].unseen
                         /\ job[s].step \in {"put", "write"} =>
                                job[r].target[1] \in job'[s].unseen
<1> DEFINE d == job[r].target[1]
           Later(s) == [job[s] EXCEPT !.unseen = @ \cup {d}]
<1>1. job' = [s \in Request |->
                 IF s = r THEN None
                 ELSE IF job[s] # None /\ job[s].step \in {"put", "write"} THEN Later(s)
                      ELSE job[s]]
  BY DEF Commit
<1>2. d \in Dataset
  BY JobTypes DEF IInv, Commit
<1>3. ASSUME NEW s \in Request, job[s] # None
      PROVE  /\ Later(s) \in Job /\ IsSame(Later(s), job[s]) /\ Later(s).step = job[s].step
             /\ job[s].unseen \subseteq Later(s).unseen /\ d \in Later(s).unseen
             /\ IsSame(job[s], job[s]) /\ job[s] \in Job
  <2>1. job[s] \in Job
    BY <1>3, JobTypes DEF IInv
  <2> QED BY <1>2, <2>1 DEF Job, IsSame
<1>4. ASSUME NEW s \in Request, job[s] # None PROVE Later(s) # None
  BY <1>3, <1>4, NoneIsNoRecord
<1> HIDE DEF Later, d
<1>5. job' \in [Request -> Job \cup {None}]
  BY <1>1, <1>3
<1>6. job'[r] = None
  BY <1>1
<1>7. ASSUME NEW s \in Request \ {r}, job[s] # None
      PROVE  /\ job'[s] # None
             /\ IsSame(job'[s], job[s]) /\ job'[s].step = job[s].step
             /\ job[s].unseen \subseteq job'[s].unseen
             /\ job[s].step \in {"put", "write"} => d \in job'[s].unseen
  <2>1. CASE job[s].step \in {"put", "write"}
    BY <1>1, <1>3, <1>4, <1>7, <2>1
  <2>2. CASE job[s].step \notin {"put", "write"}
    <3>1. job'[s] = job[s]
      BY <1>1, <2>2
    <3> QED BY <1>3, <1>7, <2>2, <3>1
  <2> QED BY <2>1, <2>2
<1>8. ASSUME NEW s \in Request \ {r}, job[s] = None PROVE job'[s] = None
  BY <1>1, <1>8
<1> USE DEF d
<1> QED BY <1>5, <1>6, <1>7, <1>8

-----------------------------------------------------------------------------
(* Types. *)

LEMMA TypeStep == IInv /\ [Next]_vars => TypeOK'
<1> SUFFICES ASSUME IInv, [Next]_vars PROVE TypeOK' OBVIOUS
<1>0. /\ row \in [Key -> Row \cup {None}] /\ service \in [Minted -> Known \cup {None}]
      /\ job \in [Request -> Job \cup {None}]
      /\ used \in [requests : 0..MaxRequests, minted : Minted]
      /\ overlapped \subseteq SUBSET Dataset /\ undescribed \subseteq Dataset
      /\ \A k \in Key : row[k] # None /\ row[k].pid # None /\ row[k].pid.draft => k[2] = "linked"
  BY DEF IInv, TypeOK
<1>1. ASSUME NEW r \in Request, Begin(r) PROVE TypeOK'
  <2>1. PICK j \in Job : IsBegun(r, j)
    BY <1>1, Begun, Zenon
  <2>2. used' \in [requests : 0..MaxRequests, minted : Minted]
    BY <1>0, <2>1, PidAssumption DEF IsBegun
  <2>3. job' \in [Request -> Job \cup {None}]
    BY <1>0, <2>1 DEF IsBegun
  <2> QED BY <1>0, <2>1, <2>2, <2>3 DEF IsBegun, TypeOK
<1>2. ASSUME NEW r \in Request, Mint(r) PROVE TypeOK'
  <2>1. used' \in [requests : 0..MaxRequests, minted : Minted]
    BY <1>0, <1>2, Minting, ZenonT(60)
  <2>2. job' \in [Request -> Job \cup {None}]
    <3>1. PICK i \in Job : job' = [job EXCEPT ![r] = i]
      BY <1>2, Minting, ZenonT(60)
    <3> QED BY <1>0, <3>1
  <2>3. [dataset |-> job[r].target[1], kind |-> job[r].new.wants,
         content |-> job[r].new.content] \in Known
    <3>1. job[r].target[1] \in Dataset /\ job[r].new \in Row
      BY <1>2, Minting, JobTypes, Zenon DEF IInv
    <3> QED BY <1>2, <3>1, Minting, Zenon DEF Known, Row
  <2>4. service' \in [Minted -> Known \cup {None}]
    <3>1. PICK x \in Known : service' = [service EXCEPT ![used.minted + 1] = x]
      BY <1>2, <2>3, Minting
    <3> QED BY <1>0, <3>1, Zenon
  <2>5. row' = row /\ overlapped' = overlapped /\ undescribed' = undescribed
    BY <1>2, Minting, Zenon
  <2> QED BY <1>0, <2>1, <2>2, <2>4, <2>5 DEF TypeOK
<1>3. ASSUME NEW r \in Request, Check(r) PROVE TypeOK'
  <2>1. job' \in [Request -> Job \cup {None}]
    BY <1>0, <1>3, GoesOn DEF Check, IsSame, IInv
  <2> QED BY <1>0, <1>3, <2>1 DEF Check, TypeOK
<1>4. ASSUME NEW r \in Request, InsertDoi(r) PROVE TypeOK'
  <2>1. job[r].target[1] \in Dataset
    BY <1>4, JobTypes DEF InsertDoi, IInv
  <2>2. [dataset |-> job[r].target[1], kind |-> "DOI", content |-> None] \in Known
    BY <2>1 DEF Known
  <2>3. service' \in [Minted -> Known \cup {None}]
    BY <1>0, <1>4, <2>2, Zenon DEF InsertDoi
  <2> QED BY <1>0, <1>4, <2>3 DEF InsertDoi, TypeOK
<1>5. ASSUME NEW r \in Request, PutDoi(r) PROVE TypeOK'
  <2>1. job' \in [Request -> Job \cup {None}]
    BY <1>0, <1>5, GoesOn DEF PutDoi, IsSame, IInv
  <2>2. job[r].new.content \in 0..MaxRequests
    BY <1>5, JobTypes, SMTT(30) DEF PutDoi, IInv, Row
  <2>3. job[r].new.pid.id \in Minted
    BY <1>5, Describing DEF PutDoi, IInv, StepsFit, StepFits
  <2>4. [service[job[r].new.pid.id] EXCEPT !.content = job[r].new.content] \in Known
    <3>1. service[job[r].new.pid.id] \in Known
      BY <1>0, <1>5, <2>3 DEF PutDoi
    <3> QED BY <2>2, <3>1 DEF Known
  <2>5. service' \in [Minted -> Known \cup {None}]
    BY <1>0, <1>5, <2>4, Zenon DEF PutDoi
  <2> QED BY <1>0, <1>5, <2>1, <2>5, Zenon DEF PutDoi, TypeOK
<1>6. ASSUME NEW r \in Request, Commit(r) PROVE TypeOK'
  <2>1. /\ job[r].new \in Row /\ job[r].target[1] \in Dataset /\ job[r].unseen \subseteq Dataset
        /\ job[r].target \in Key /\ Linked(job[r].target[1]) \in Key
    BY <1>6, CommitRows, JobTypes, Keys DEF IInv
  <2>2. row' \in [Key -> Row \cup {None}]
    BY <1>0, <1>6, <2>1 DEF Commit
  <2>3. undescribed' \subseteq Dataset
    <3>1. \/ undescribed' \subseteq undescribed
          \/ undescribed' \subseteq undescribed \cup {job[r].target[1]}
      BY <1>6 DEF Commit
    <3> QED BY <1>0, <2>1, <3>1
  <2>4. overlapped' \subseteq SUBSET Dataset
    BY <1>0, <1>6, <2>1, CommitRows
  <2>5. job[r].target[2] = "original" /\ job[r].new.pid # None => ~job[r].new.pid.draft
    BY <1>6, CommitRows DEF IInv, StepsFit, StepFits
  <2>6. ASSUME NEW k \in Key, row'[k] # None, row'[k].pid # None, row'[k].pid.draft
        PROVE  k[2] = "linked"
    <3>1. CASE k = job[r].target
      BY <1>6, <2>5, <2>6, <3>1, CommitRows, Keys
    <3>2. CASE k # job[r].target
      BY <1>0, <1>6, <2>6, <3>2, CommitRows
    <3> QED BY <3>1, <3>2
  <2> QED BY <1>0, <1>6, <2>2, <2>3, <2>4, <2>6, CommitRows, CommitJobs DEF TypeOK
<1>7. ASSUME NEW r \in Request, Fail(r) PROVE TypeOK'
  <2>1. job[r].target[1] \in Dataset
    BY <1>7, JobTypes DEF Fail, IInv
  <2>2. undescribed' \subseteq Dataset
    BY <1>0, <1>7, <2>1 DEF Fail
  <2>3. job' \in [Request -> Job \cup {None}]
    BY <1>0, <1>7 DEF Fail
  <2> QED BY <1>0, <1>7, <2>2, <2>3 DEF Fail, TypeOK
<1>8. ASSUME NEW d \in Dataset, NEW flush \in BOOLEAN, Remove(d, flush) PROVE TypeOK'
  <2>1. row[Original(d)] # None /\ Original(d) \in Key /\ Original(d) # Linked(d)
    BY <1>8, Keys, KeysDiffer DEF Remove, Found
  <2> DEFINE gone == [row[Original(d)] EXCEPT !.removed = TRUE]
  <2>2. gone \in Row /\ gone.pid = row[Original(d)].pid
    BY <2>1, RowTypes, Zenon DEF IInv, Row
  <2>3. \A k \in Key : \/ row'[k] = row[k] \/ row'[k] = None
                       \/ k = Original(d) /\ row'[k] = gone
    BY <1>0, <1>8, <2>1, Zenon DEF Remove
  <2>4. row' \in [Key -> Row \cup {None}]
    <3>1. DOMAIN row' = Key /\ row' = [k \in Key |-> row'[k]]
      BY <1>0, <1>8, Zenon DEF Remove
    <3> QED BY <1>0, <2>2, <2>3, <3>1, Zenon
  <2>5. \A k \in Key : row'[k] # None /\ row'[k].pid # None /\ row'[k].pid.draft => k[2] = "linked"
    <3> HIDE DEF gone
    <3> QED BY <1>0, <2>1, <2>2, <2>3
  <2>6. used' \in [requests : 0..MaxRequests, minted : Minted]
    BY <1>0, <1>8, PidAssumption DEF Remove
  <2> QED BY <1>0, <1>8, <2>4, <2>5, <2>6, Zenon DEF Remove, TypeOK
<1>9. CASE UNCHANGED vars
  BY <1>9, SMTT(30) DEF vars, IInv, TypeOK
<1> QED BY <1>1, <1>2, <1>3, <1>4, <1>5, <1>6, <1>7, <1>8, <1>9 DEF Next

-----------------------------------------------------------------------------
(* Requests are apart, and what they read stays. *)

LEMMA FitsKinds ==
    ASSUME IInv, NEW r \in Request, job[r] # None
    PROVE  /\ \/ Creates(job[r]) \/ Updates(job[r]) \/ Publishes(job[r])
              \/ CreatesDraft(job[r]) \/ Merges(job[r]) \/ Restores(job[r])
           /\ job[r].kind = "create" => Creates(job[r])
           /\ job[r].kind = "update" => Updates(job[r])
           /\ job[r].kind = "publish" => Publishes(job[r])
           /\ job[r].kind = "create_draft" => CreatesDraft(job[r])
           /\ job[r].kind = "merge" => Merges(job[r])
           /\ job[r].kind = "restore" => Restores(job[r])
BY DEF IInv, JobsFit, Fits, Creates, Updates, Publishes, CreatesDraft, Merges, Restores

\* Most steps change no more than what one request is about to write.
LEMMA ApartStays ==
    ASSUME IInv,
           \A s \in Request :
               job'[s] # None =>
                   /\ job[s] # None
                   /\ job'[s].kind = job[s].kind /\ job'[s].target = job[s].target
                   /\ job'[s].locks = job[s].locks
    PROVE  JobsAreApart'
BY DEF IInv, JobsAreApart

LEMMA ApartStep == IInv /\ [Next]_vars => JobsAreApart'
<1> SUFFICES ASSUME IInv, [Next]_vars PROVE JobsAreApart' OBVIOUS
<1>0. job \in [Request -> Job \cup {None}] /\ TypeOK
  BY DEF IInv, TypeOK
<1>1. ASSUME NEW r \in Request, Begin(r) PROVE JobsAreApart'
  <2>1. PICK j \in Job : IsBegun(r, j)
    BY <1>1, Begun, Zenon
  <2>2. /\ job[r] = None /\ job' = [job EXCEPT ![r] = j] /\ \A k \in j.locks : ~Locked(k)
        /\ j.kind = "create" => \A s \in Request : job[s] # None => job[s].target # j.target
        /\ j.kind # "create" => row[Original(j.target[1])] # None
    BY <2>1 DEF IsBegun
  <2>3. ASSUME NEW s \in Request, s # r, job[s] # None
        PROVE  /\ job[s].locks \cap j.locks = {}
               /\ j.kind = "create" => job[s].target # j.target
               /\ job[s].kind = "create" => j.target # job[s].target
    <3>1. job[s].locks \cap j.locks = {}
      BY <2>2, <2>3 DEF Locked
    <3>2. ASSUME job[s].kind = "create", j.kind # "create" PROVE j.target # job[s].target
      <4>1. Creates(job[s])
        BY <2>3, <3>2, FitsKinds
      <4> QED BY <2>2, <3>2, <4>1 DEF Creates
    <3> QED BY <2>2, <2>3, <3>1, <3>2
  <2>4. \A s \in Request : job'[s] = IF s = r THEN j ELSE job[s]
    BY <1>0, <2>2
  <2> QED BY <2>3, <2>4 DEF IInv, JobsAreApart
<1>2. ASSUME NEW r \in Request, Mint(r) PROVE JobsAreApart'
  <2>1. PICK i \in Job :
            /\ job' = [job EXCEPT ![r] = i]
            /\ i.kind = job[r].kind /\ i.target = job[r].target /\ i.locks = job[r].locks
            /\ i.step = "check"
            /\ i.new.pid = Plain(used.minted + 1) /\ i.new.generated
            /\ i.new.content = job[r].new.content /\ i.new.state = job[r].new.state
    BY <1>2, Minting, Zenon
  <2>2. job[r] # None
    BY <1>2, Minting, Zenon
  <2> QED BY <1>0, <2>1, <2>2, ApartStays
<1>3. ASSUME NEW r \in Request, Check(r) \/ PutDoi(r) PROVE JobsAreApart'
  <2>1. PICK i : job' = [job EXCEPT ![r] = i] /\ IsSame(i, job[r])
    BY <1>0, <1>3, GoesOn DEF Check, PutDoi
  <2>2. job[r] # None
    BY <1>3 DEF Check, PutDoi
  <2> QED BY <1>0, <2>1, <2>2, ApartStays DEF IsSame
<1>4. ASSUME NEW r \in Request, Commit(r) PROVE JobsAreApart'
  BY <1>4, CommitJobs, ApartStays DEF IsSame
<1>5. ASSUME NEW r \in Request, Fail(r) PROVE JobsAreApart'
  <2>1. job' = [job EXCEPT ![r] = None]
    BY <1>5 DEF Fail
  <2> QED BY <1>0, <2>1, ApartStays
<1>6. CASE job' = job
  BY <1>6, ApartStays
<1> QED BY <1>1, <1>2, <1>3, <1>4, <1>5, <1>6, Zenon DEF Next, InsertDoi, Remove, vars

\* Who holds the lock of a row that is there keeps it from others.
LEMMA LockedRowStays ==
    ASSUME IInv, NEW r \in Request, Commit(r), NEW s \in Request, s # r, job[s] # None,
           NEW k \in job[s].locks, row[k] # None
    PROVE  row'[k] = row[k]
<1> SUFFICES ASSUME row'[k] # row[k] PROVE FALSE OBVIOUS
<1>1. job[r] # None /\ k \in Key
  BY CommitRows, JobTypes DEF IInv
<1>2. job[r].locks \cap job[s].locks = {}
  BY <1>1 DEF IInv, JobsAreApart
<1>3. k \notin job[r].locks
  BY <1>2
<1>4. CASE k = job[r].target
  <2>1. Merges(job[r])
    BY <1>1, <1>3, <1>4, FitsKinds, Zenon DEF Creates, Updates, Publishes, CreatesDraft, Restores
  <2>2. ~Locked(k)
    BY <1>4, <2>1, CommitRows DEF Merges
  <2> QED BY <2>2 DEF Locked
<1>5. CASE k # job[r].target
  <2>1. job[r].kind = "merge" /\ k = Linked(job[r].target[1])
    BY <1>1, <1>5, CommitRows
  <2>2. k \in job[r].locks
    BY <1>1, <2>1, FitsKinds DEF Merges
  <2> QED BY <1>3, <2>2
<1> QED BY <1>4, <1>5

LEMMA FitStays ==
    ASSUME IInv, NEW s \in Request, job[s] # None, IsSame(job[s]', job[s]),
           row'[Original(job[s].target[1])] = row[Original(job[s].target[1])],
           row'[Linked(job[s].target[1])] = row[Linked(job[s].target[1])]
    PROVE  Fits(job[s])'
<1>1. job[s].target = Original(job[s].target[1]) \/ job[s].target = Linked(job[s].target[1])
  BY JobTypes, Keys DEF IInv
<1>2. row'[job[s].target] = row[job[s].target]
  BY <1>1
<1>3. /\ job[s]'.kind = job[s].kind /\ job[s]'.target = job[s].target
      /\ job[s]'.new = job[s].new /\ job[s]'.locks = job[s].locks
  BY DEF IsSame
<1>4. CASE Creates(job[s])
  BY <1>2, <1>3, <1>4 DEF Fits, Creates
<1>5. CASE Updates(job[s])
  BY <1>2, <1>3, <1>5 DEF Fits, Updates, Replaces
<1>6. CASE Publishes(job[s])
  BY <1>2, <1>3, <1>6 DEF Fits, Publishes
<1>7. CASE CreatesDraft(job[s])
  <2>1. CreatesDraft(job[s])'
    <3> DEFINE o == row[Original(job[s].target[1])]
    <3>1. o' = o
      BY <1>3
    <3>2. /\ o # None /\ o.state = "published" /\ ~o.removed
          /\ job[s].new.generated = o.generated
          /\ job[s].new.generated => job[s].new.pid = [o.pid EXCEPT !.draft = TRUE]
      BY <1>7 DEF CreatesDraft
    <3>3. /\ job[s].kind = "create_draft"
          /\ job[s].target = Linked(job[s].target[1])
          /\ job[s].locks = {Original(job[s].target[1])}
          /\ row[job[s].target] = None
          /\ job[s].new.state = "draft" /\ ~job[s].new.removed
      BY <1>7 DEF CreatesDraft
    <3> HIDE DEF o
    <3>4. /\ o' # None /\ o'.state = "published" /\ ~o'.removed
          /\ job[s]'.new.generated = o'.generated
          /\ job[s]'.new.generated => job[s]'.new.pid = [o'.pid EXCEPT !.draft = TRUE]
      BY <1>3, <3>1, <3>2
    <3>5. /\ job[s]'.kind = "create_draft"
          /\ job[s]'.target = Linked(job[s]'.target[1])
          /\ job[s]'.locks = {Original(job[s]'.target[1])}
          /\ row'[job[s]'.target] = None
          /\ job[s]'.new.state = "draft" /\ ~job[s]'.new.removed
      BY <1>2, <1>3, <3>3
    <3> QED BY <3>4, <3>5 DEF o, CreatesDraft
  <2> QED BY <2>1 DEF Fits
<1>8. CASE Merges(job[s])
  BY <1>2, <1>3, <1>8 DEF Fits, Merges, Replaces
<1>9. CASE Restores(job[s])
  BY <1>2, <1>3, <1>9, ZenonT(60) DEF Fits, Restores
<1> QED BY <1>4, <1>5, <1>6, <1>7, <1>8, <1>9, FitsKinds

LEMMA CommitFits ==
    ASSUME IInv, NEW r \in Request, Commit(r), NEW s \in Request, s # r, job[s] # None
    PROVE  Fits(job[s])'
<1> DEFINE d == job[s].target[1]
<1>1. /\ job[r] # None
      /\ job[r].target \in Key /\ job[r].target[1] \in Dataset
      /\ job[s].target \in Key /\ d \in Dataset
  BY CommitRows, JobTypes DEF IInv
<1>2. /\ job[s]'.kind = job[s].kind /\ job[s]'.target = job[s].target
      /\ job[s]'.new = job[s].new /\ job[s]'.locks = job[s].locks
  BY CommitJobs DEF IsSame
<1>3. /\ Original(d) \in Key /\ Linked(d) \in Key /\ Original(d)[1] = d /\ Linked(d)[1] = d
      /\ Original(d) # Linked(job[r].target[1])
      /\ Linked(d) = Linked(job[r].target[1]) => d = job[r].target[1]
  BY <1>1, Keys, KeysDiffer
<1>4. job[r].locks \cap job[s].locks = {}
  BY <1>1 DEF IInv, JobsAreApart
<1>5. CASE Creates(job[s])
  <2>1. job[s].target = Original(d) /\ job[s].target # job[r].target
    BY <1>1, <1>5 DEF Creates, IInv, JobsAreApart
  <2>2. row'[job[s].target] = row[job[s].target]
    BY <1>1, <1>3, <2>1, CommitRows
  <2> QED BY <1>2, <1>5, <2>2 DEF Fits, Creates
<1>6. CASE Updates(job[s])
  <2>1. row'[job[s].target] = row[job[s].target]
    BY <1>6, LockedRowStays DEF Updates, Replaces
  <2> QED BY <1>2, <1>6, <2>1 DEF Fits, Updates, Replaces
<1>7. CASE Publishes(job[s])
  <2>1. row'[job[s].target] = row[job[s].target]
    BY <1>7, LockedRowStays DEF Publishes
  <2> QED BY <1>2, <1>7, <2>1 DEF Fits, Publishes
<1>8. CASE Restores(job[s])
  <2>1. row'[job[s].target] = row[job[s].target]
    BY <1>8, LockedRowStays DEF Restores
  <2> QED BY <1>2, <1>8, <2>1 DEF Fits, Restores
<1>9. CASE CreatesDraft(job[s])
  <2>1. row'[Original(d)] = row[Original(d)]
    BY <1>9, LockedRowStays DEF CreatesDraft
  <2>2. row'[Linked(d)] = None
    <3>1. CASE job[r].target = Linked(d)
      <4>1. ~Creates(job[r]) /\ ~Publishes(job[r]) /\ ~Merges(job[r]) /\ ~Restores(job[r])
        BY <3>1, <1>3, KeysDiffer DEF Creates, Publishes, Merges, Restores
      <4>2. ~Updates(job[r])
        BY <3>1, <1>9 DEF CreatesDraft, Updates, Replaces
      <4>3. ~CreatesDraft(job[r])
        BY <3>1, <1>3, <1>4, <1>9 DEF CreatesDraft
      <4> QED BY <1>1, <4>1, <4>2, <4>3, FitsKinds
    <3>2. CASE job[r].target # Linked(d)
      BY <1>1, <1>3, <1>9, <3>2, CommitRows DEF CreatesDraft
    <3> QED BY <3>1, <3>2
  <2> QED BY <1>2, <1>9, <2>1, <2>2 DEF Fits, CreatesDraft
<1>10. CASE Merges(job[s])
  <2>1. /\ row[Linked(d)] # None /\ job[s].target = Original(d)
        /\ Linked(d) \in job[s].locks
    BY <1>10 DEF Merges
  <2>2. row'[Linked(d)] = row[Linked(d)]
    BY <2>1, LockedRowStays
  <2>3. row[Original(d)] # None /\ row[Original(d)].state = "published" /\ ~row[Original(d)].removed
    BY <1>1, <2>1, Zenon DEF IInv, DraftsAreLinked
  <2>4. Replaces(job[s].new, row[Original(d)])
    BY <1>10, <2>1 DEF Merges
  <2>5. Replaces(job[s].new, row'[Original(d)])
    <3>1. CASE job[r].target # Original(d)
      <4>1. row'[Original(d)] = row[Original(d)]
        BY <1>3, <3>1, CommitRows
      <4> QED BY <2>4, <4>1
    <3>2. CASE job[r].target = Original(d)
      <4>1. ~Creates(job[r]) /\ ~CreatesDraft(job[r]) /\ ~Publishes(job[r]) /\ ~Restores(job[r])
        BY <2>3, <3>2, Zenon DEF Creates, CreatesDraft, Publishes, Restores
      <4>2. ~Merges(job[r])
        BY <1>3, <1>4, <2>1, <3>2 DEF Merges
      <4>3. Updates(job[r])
        BY <1>1, <4>1, <4>2, FitsKinds
      <4>4. row'[Original(d)] = job[r].new /\ job[r].new # None
        BY <1>1, <3>2, CommitRows, JobTypes DEF IInv
      <4> QED BY <2>4, <3>2, <4>3, <4>4, SMTT(30) DEF Updates, Replaces
    <3> QED BY <3>1, <3>2
  <2> QED BY <1>2, <1>10, <2>1, <2>2, <2>5 DEF Fits, Merges, Replaces
<1> QED BY <1>1, <1>5, <1>6, <1>7, <1>8, <1>9, <1>10, FitsKinds

LEMMA RemoveRows ==
    ASSUME IInv, NEW d \in Dataset, NEW flush \in BOOLEAN, Remove(d, flush)
    PROVE  /\ row[Original(d)] # None /\ ~Locked(Original(d)) /\ ~Locked(Linked(d))
           /\ row'[Linked(d)] = None
           /\ \/ row'[Original(d)] = None
              \/ row'[Original(d)] = [row[Original(d)] EXCEPT !.removed = TRUE]
           /\ \A k \in Key \ {Original(d), Linked(d)} : row'[k] = row[k]
           /\ service' = service /\ job' = job /\ used'.minted = used.minted
           /\ overlapped' = overlapped /\ undescribed' = undescribed
<1>1. /\ row[Original(d)] # None /\ ~Locked(Original(d)) /\ ~Locked(Linked(d))
      /\ service' = service /\ job' = job
      /\ overlapped' = overlapped /\ undescribed' = undescribed
      /\ used' = [used EXCEPT !.requests = @ + 1]
  BY DEF Remove, Found
<1>2. used'.minted = used.minted
  BY <1>1 DEF IInv, TypeOK
<1>3. Original(d) \in Key /\ Linked(d) \in Key /\ Original(d) # Linked(d)
  BY Keys, KeysDiffer
<1>4. row \in [Key -> Row \cup {None}]
  BY DEF IInv, TypeOK
<1>5. /\ row'[Linked(d)] = None
      /\ \/ row'[Original(d)] = None
         \/ row'[Original(d)] = [row[Original(d)] EXCEPT !.removed = TRUE]
      /\ \A k \in Key \ {Original(d), Linked(d)} : row'[k] = row[k]
  BY <1>3, <1>4, Zenon DEF Remove
<1> QED BY <1>1, <1>2, <1>5

LEMMA RemoveFits ==
    ASSUME IInv, NEW d \in Dataset, NEW flush \in BOOLEAN, Remove(d, flush),
           NEW s \in Request, job[s] # None
    PROVE  Fits(job[s])'
<1> DEFINE e == job[s].target[1]
<1>1. /\ e \in Dataset /\ job[s].target \in Key
      /\ Original(e) \in Key /\ Linked(e) \in Key /\ Original(e)[1] = e
  BY JobTypes, Keys DEF IInv
<1>2. job[s]' = job[s] /\ job[s] \in Job /\ IsSame(job[s]', job[s])
  BY RemoveRows, JobTypes, Zenon DEF IInv, IsSame
<1>3. \A k \in job[s].locks : k # Original(d) /\ k # Linked(d)
  BY RemoveRows, Zenon DEF Locked
<1>4. CASE e # d
  <2>1. Original(e) # Original(d) /\ Linked(e) # Linked(d)
        /\ Original(e) # Linked(d) /\ Linked(e) # Original(d)
    BY <1>4, KeysDiffer
  <2>2. row'[Original(e)] = row[Original(e)] /\ row'[Linked(e)] = row[Linked(e)]
    BY <1>1, <2>1, RemoveRows, Zenon
  <2> QED BY <1>2, <2>2, FitStays
<1>5. CASE e = d
  <2>1. ~Creates(job[s])
    BY <1>5, RemoveRows, Zenon DEF Creates
  <2>2. ~Publishes(job[s]) /\ ~CreatesDraft(job[s]) /\ ~Merges(job[s]) /\ ~Restores(job[s])
    BY <1>3, <1>5 DEF Publishes, CreatesDraft, Merges, Restores
  <2>3. ~Updates(job[s])
    BY <1>1, <1>3, <1>5, Keys DEF Updates
  <2> QED BY <2>1, <2>2, <2>3, FitsKinds
<1> QED BY <1>4, <1>5

LEMMA FitStep == IInv /\ [Next]_vars => JobsFit'
<1> SUFFICES ASSUME IInv, [Next]_vars, NEW s \in Request, job'[s] # None PROVE Fits(job[s])'
  BY DEF JobsFit
<1>0. job \in [Request -> Job \cup {None}] /\ TypeOK
  BY DEF IInv, TypeOK
<1>1. ASSUME job'[s] = job[s], row' = row PROVE Fits(job[s])'
  <2>1. job[s] # None /\ IsSame(job[s]', job[s])
    BY <1>0, <1>1 DEF IsSame
  <2> QED BY <1>1, <2>1, FitStays
<1>2. ASSUME NEW r \in Request, Begin(r) PROVE Fits(job[s])'
  <2>1. PICK j \in Job : IsBegun(r, j)
    BY <1>2, Begun, Zenon
  <2>2. row' = row /\ job' = [job EXCEPT ![r] = j] /\ Fits(j)
    BY <2>1 DEF IsBegun
  <2>3. CASE s = r
    <3>1. job'[s] = j
      BY <1>0, <2>2, <2>3
    <3> QED BY <2>2, <3>1, ZenonT(60) DEF Fits, Creates, Updates, Publishes, CreatesDraft, Merges,
               Restores,
                              Replaces
  <2>4. CASE s # r
    BY <1>0, <1>1, <2>2, <2>4
  <2> QED BY <2>3, <2>4
<1>3. ASSUME NEW r \in Request, Mint(r) PROVE Fits(job[s])'
  <2>1. PICK i \in Job :
            /\ job' = [job EXCEPT ![r] = i]
            /\ i.kind = job[r].kind /\ i.target = job[r].target /\ i.locks = job[r].locks
            /\ i.step = "check"
            /\ i.new.pid = Plain(used.minted + 1) /\ i.new.generated
            /\ i.new.content = job[r].new.content /\ i.new.state = job[r].new.state
    BY <1>3, Minting, Zenon
  <2>2. /\ row' = row /\ job[r].new.state = "published"
        /\ Creates(job[r]) \/ Publishes(job[r])
    BY <1>3, Minting, FitsKinds, Zenon
  <2>3. CASE s = r
    <3>1. job'[s] = i
      BY <1>0, <2>1, <2>3
    <3> QED BY <2>1, <2>2, <3>1 DEF Fits, Creates, Publishes
  <2>4. CASE s # r
    BY <1>0, <1>1, <2>1, <2>2, <2>4
  <2> QED BY <2>3, <2>4
<1>4. ASSUME NEW r \in Request, Check(r) \/ PutDoi(r) PROVE Fits(job[s])'
  <2>1. PICK i : job' = [job EXCEPT ![r] = i] /\ IsSame(i, job[r])
    BY <1>0, <1>4, GoesOn DEF Check, PutDoi
  <2>2. row' = row /\ job[r] # None
    BY <1>4 DEF Check, PutDoi
  <2>3. CASE s = r
    <3>1. IsSame(job[s]', job[s])
      BY <1>0, <2>1, <2>3
    <3> QED BY <2>2, <2>3, <3>1, FitStays
  <2>4. CASE s # r
    BY <1>0, <1>1, <2>1, <2>2, <2>4
  <2> QED BY <2>3, <2>4
<1>5. ASSUME NEW r \in Request, Commit(r) PROVE Fits(job[s])'
  <2>1. s # r /\ job[s] # None
    BY <1>5, CommitJobs
  <2> QED BY <1>5, <2>1, CommitFits
<1>6. ASSUME NEW r \in Request, Fail(r) PROVE Fits(job[s])'
  <2>1. job' = [job EXCEPT ![r] = None] /\ row' = row
    BY <1>6 DEF Fail
  <2> QED BY <1>0, <1>1, <2>1
<1>7. ASSUME NEW d \in Dataset, NEW flush \in BOOLEAN, Remove(d, flush) PROVE Fits(job[s])'
  <2>1. job[s] # None
    BY <1>7, RemoveRows, Zenon
  <2> QED BY <1>7, <2>1, RemoveFits
<1>8. CASE job' = job /\ row' = row
  BY <1>1, <1>8
<1> QED BY <1>2, <1>3, <1>4, <1>5, <1>6, <1>7, <1>8, Zenon DEF Next, InsertDoi, vars

-----------------------------------------------------------------------------
(* The service. *)

LEMMA IsKnown ==
    ASSUME TypeOK, NEW d \in Dataset, NEW kind \in {"URN", "DOI"},
           NEW content \in (0..MaxRequests) \cup {None}
    PROVE  [dataset |-> d, kind |-> kind, content |-> content] # None
BY NoneIsNoRecord DEF Known

\* What the service does to identifiers that it has made already.
LEMMA ServiceStep ==
    ASSUME IInv, [Next]_vars, NEW n \in 0..used.minted
    PROVE  /\ n \in 0..used'.minted
           /\ service[n] # None => service'[n] # None /\ service'[n].dataset = service[n].dataset
           /\ service[n] = None /\ service'[n] # None => service'[n].dataset = Migrated
           /\ service[n] # None /\ service'[n] # service[n] =>
                  \E r \in Request : PutDoi(r) /\ job[r].target[1] = service[n].dataset
<1>0. /\ n \in Minted /\ used.minted \in Nat /\ service \in [Minted -> Known \cup {None}]
      /\ used \in [requests : 0..MaxRequests, minted : Minted] /\ TypeOK
  BY PidAssumption DEF IInv, TypeOK, Minted
<1>1. CASE service' = service /\ used'.minted = used.minted
  BY <1>1
<1>2. ASSUME NEW r \in Request, Begin(r)
      PROVE  service' = service /\ used'.minted = used.minted
  <2>1. PICK j \in Job : IsBegun(r, j)
    BY <1>2, Begun, Zenon
  <2> QED BY <1>0, <2>1 DEF IsBegun
<1>3. ASSUME NEW r \in Request, Mint(r) PROVE service'[n] = service[n] /\ n \in 0..used'.minted
  <2>1. PICK x : service' = [service EXCEPT ![used.minted + 1] = x]
    BY <1>3, Minting, Zenon
  <2>2. used'.minted = used.minted + 1
    BY <1>0, <1>3, Minting, ZenonT(60)
  <2> QED BY <1>0, <2>1, <2>2
<1>4. ASSUME NEW r \in Request, InsertDoi(r)
      PROVE  /\ service'[n] = service[n] \/ (service[n] = None /\ service'[n].dataset = Migrated)
             /\ used' = used
  <2> DEFINE m == job[r].new.pid.id
             x == [dataset |-> job[r].target[1], kind |-> "DOI", content |-> None]
  <2>1. /\ job[r] # None /\ job[r].step = "put" /\ service[m] = None
        /\ service' = [service EXCEPT ![m] = x] /\ used' = used
    BY <1>4 DEF InsertDoi
  <2>2. MustDescribe(job[r])
    BY <2>1 DEF IInv, StepsFit, StepFits
  <2>3. /\ job[r].target = Original(job[r].target[1])
        /\ row[job[r].target] # None /\ row[job[r].target].generated
        /\ row[job[r].target].pid.id = m
    BY <2>1, <2>2, Describing
  <2>4. job[r].target[1] \in Dataset
    BY <2>1, JobTypes DEF IInv
  <2>5. IsOwn(job[r].target[1], row[job[r].target])
    BY <2>3, <2>4 DEF IInv, OriginalsAreSound
  <2>6. job[r].target[1] = Migrated
    BY <2>1, <2>3, <2>5 DEF IsOwn
  <2>7. x.dataset = Migrated
    BY <2>6
  <2> HIDE DEF x, m
  <2> QED BY <1>0, <2>1, <2>7
<1>5. ASSUME NEW r \in Request, PutDoi(r)
      PROVE  /\ used' = used
             /\ service[n] = None => service'[n] = None
             /\ service[n] # None => service'[n] # None /\ service'[n].dataset = service[n].dataset
             /\ service'[n] # service[n] => job[r].target[1] = service[n].dataset
  <2> DEFINE m == job[r].new.pid.id
             x == [service[m] EXCEPT !.content = job[r].new.content]
  <2>1. /\ job[r] # None /\ job[r].step = "put"
        /\ service[m] # None /\ service[m].dataset = job[r].target[1]
        /\ service' = [service EXCEPT ![m] = x] /\ used' = used
    BY <1>5 DEF PutDoi
  <2>2. MustDescribe(job[r])
    BY <2>1 DEF IInv, StepsFit, StepFits
  <2>3. m \in Minted
    BY <2>1, <2>2, Describing
  <2>4. service[m] \in Known /\ job[r].new.content \in 0..MaxRequests
    BY <1>0, <2>1, <2>3, JobTypes DEF Row
  <2>5. x \in Known /\ x.dataset = service[m].dataset
    BY <2>4 DEF Known
  <2>6. x # None
    BY <2>5, NoneIsNoRecord
  <2> HIDE DEF x, m
  <2> QED BY <1>0, <2>1, <2>3, <2>5, <2>6
<1>6. ASSUME NEW r \in Request, Check(r) \/ Commit(r) \/ Fail(r)
      PROVE  service' = service /\ used' = used
  BY <1>6 DEF Check, Commit, Fail
<1>7. ASSUME NEW d \in Dataset, NEW flush \in BOOLEAN, Remove(d, flush)
      PROVE  service' = service /\ used'.minted = used.minted
  BY <1>7, RemoveRows, Zenon
<1>8. CASE UNCHANGED vars
  BY <1>1, <1>8 DEF vars
<1> QED
  BY <1>1, <1>2, <1>3, <1>4, <1>5, <1>6, <1>7, <1>8 DEF Next

-----------------------------------------------------------------------------
(* Rows. *)

LEMMA WrittenIsSound ==
    ASSUME IInv, NEW r \in Request, job[r] # None, job[r].step = "write",
           job[r].target = Original(job[r].target[1])
    PROVE  /\ IsOwn(job[r].target[1], job[r].new)
           /\ job[r].new.state = "draft" => ~job[r].new.generated
           /\ job[r].new.state = "published" => job[r].new.pid # None
<1> DEFINE d == job[r].target[1]
           o == row[Original(d)]
<1>1. d \in Dataset /\ job[r].new \in Row
  BY JobTypes DEF IInv
<1>2. StepFits(job[r])
  BY DEF IInv, StepsFit
<1>3. job[r].new.state = "published" => job[r].new.pid # None
  BY <1>2 DEF StepFits
<1>4. o # None => /\ IsOwn(d, o)
                  /\ o.state = "draft" => ~o.generated
  BY <1>1 DEF IInv, OriginalsAreSound
<1>5. CASE Creates(job[r])
  BY <1>2, <1>3, <1>5 DEF Creates, StepFits, IsOwn
<1>6. CASE Publishes(job[r])
  BY <1>2, <1>3, <1>6 DEF Publishes, StepFits, IsOwn
<1>7. CASE Updates(job[r])
  <2>1. /\ o # None /\ job[r].new.generated = o.generated
        /\ o.generated => job[r].new.pid = o.pid
        /\ job[r].new.state = o.state
    BY <1>7 DEF Updates, Replaces
  <2> QED BY <1>3, <1>4, <2>1 DEF IsOwn
<1>8. CASE Merges(job[r])
  <2>1. /\ o # None /\ job[r].new.generated = o.generated
        /\ o.generated => job[r].new.pid = o.pid
        /\ job[r].new.state = "published"
    BY <1>8, SMTT(30) DEF Merges, Replaces
  <2> QED BY <1>3, <1>4, <2>1 DEF IsOwn
<1>9. CASE Restores(job[r])
  <2>1. o # None /\ job[r].new = [o EXCEPT !.removed = FALSE]
    BY <1>9, Zenon DEF Restores
  <2>2. o \in Row
    BY <1>1, <2>1, Keys, RowTypes DEF IInv
  <2>3. job[r].new.generated = o.generated /\ job[r].new.pid = o.pid /\ job[r].new.state = o.state
    BY <2>1, <2>2 DEF Row
  <2> QED BY <1>3, <1>4, <2>1, <2>3 DEF IsOwn
<1>10. ~CreatesDraft(job[r])
  BY KeysDiffer DEF CreatesDraft
<1> QED BY <1>5, <1>6, <1>7, <1>8, <1>9, <1>10, FitsKinds

LEMMA OriginalsStep == IInv /\ [Next]_vars => OriginalsAreSound'
<1> SUFFICES ASSUME IInv, [Next]_vars, NEW d \in Dataset, row'[Original(d)] # None
             PROVE  /\ IsOwn(d, row[Original(d)])'
                    /\ row'[Original(d)].state = "draft" => ~row'[Original(d)].generated
                    /\ row'[Original(d)].state = "published" => row'[Original(d)].pid # None
  BY DEF OriginalsAreSound
<1> DEFINE o == row[Original(d)]
           Sound(x) == /\ IsOwn(d, x)
                       /\ x.state = "draft" => ~x.generated
                       /\ x.state = "published" => x.pid # None
<1>0. Original(d) \in Key /\ Original(d)[1] = d
  BY Keys
<1>1. o # None => Sound(o)
  BY DEF IInv, OriginalsAreSound
<1>2. ASSUME NEW x, Sound(x), o' = x
      PROVE  /\ IsOwn(d, o)'
             /\ o'.state = "draft" => ~o'.generated
             /\ o'.state = "published" => o'.pid # None
  <2>1. x.generated => x.pid # None /\ x.pid.id \in 0..used.minted
    BY <1>2 DEF IsOwn
  <2>2. x.generated => /\ x.pid.id \in 0..used'.minted
                       /\ service'[x.pid.id] = None => d = Migrated
                       /\ service'[x.pid.id] # None => service'[x.pid.id].dataset = d
    BY <1>2, <2>1, ServiceStep DEF IsOwn
  <2> QED BY <1>2, <2>1, <2>2 DEF IsOwn
<1>3. CASE o' = o
  BY <1>1, <1>2, <1>3
<1>4. ASSUME NEW r \in Request, Commit(r), o' # o
      PROVE  \E x : Sound(x) /\ o' = x
  <2>1. job[r] # None /\ job[r].step = "write"
    BY <1>4, CommitRows
  <2>2. job[r].target[1] \in Dataset
    BY <2>1, JobTypes DEF IInv
  <2>3. job[r].target = Original(d)
    <3>1. Original(d) # Linked(job[r].target[1])
      BY KeysDiffer
    <3> QED BY <1>0, <1>4, <3>1, CommitRows
  <2>4. o' = job[r].new /\ job[r].target[1] = d
    BY <1>0, <1>4, <2>3, CommitRows
  <2>5. Sound(job[r].new)
    BY <2>1, <2>3, <2>4, WrittenIsSound
  <2> QED BY <2>4, <2>5
<1>5. ASSUME NEW e \in Dataset, NEW flush \in BOOLEAN, Remove(e, flush)
      PROVE  \E x : Sound(x) /\ o' = x
  <2>1. Original(d) # Linked(e) /\ (Original(d) = Original(e) => d = e)
    BY KeysDiffer
  <2>2. CASE d # e
    <3>1. o' = o
      BY <1>0, <1>5, <2>1, <2>2, RemoveRows, Zenon
    <3> QED BY <1>1, <3>1
  <2>3. CASE d = e
    <3>1. o # None /\ o' = [o EXCEPT !.removed = TRUE]
      BY <1>5, <2>3, RemoveRows
    <3>2. o \in Row
      BY <1>0, <3>1, RowTypes DEF IInv
    <3> DEFINE x == [o EXCEPT !.removed = TRUE]
    <3>3. x.generated = o.generated /\ x.pid = o.pid /\ x.state = o.state
      BY <3>2 DEF Row
    <3> HIDE DEF x
    <3>4. Sound(x)
      BY <1>1, <3>1, <3>3 DEF IsOwn
    <3> QED BY <3>1, <3>4, Zenon DEF x
  <2> QED BY <2>2, <2>3
<1>6. ASSUME NEW r \in Request, Begin(r) PROVE o' = o
  <2>1. PICK j \in Job : IsBegun(r, j)
    BY <1>6, Begun, Zenon
  <2> QED BY <2>1 DEF IsBegun
<1>7. ASSUME NEW r \in Request, Mint(r) \/ Check(r) \/ InsertDoi(r) \/ PutDoi(r) \/ Fail(r)
      PROVE  o' = o
  BY <1>7, Zenon DEF Mint, Check, InsertDoi, PutDoi, Fail
<1>8. CASE UNCHANGED vars
  BY <1>3, <1>8 DEF vars
<1> HIDE DEF Sound
<1> QED BY <1>2, <1>3, <1>4, <1>5, <1>6, <1>7, <1>8 DEF Next

LEMMA DraftsStep == IInv /\ [Next]_vars => DraftsAreLinked'
<1> SUFFICES ASSUME IInv, [Next]_vars, NEW d \in Dataset, row'[Linked(d)] # None
             PROVE  LET o == row'[Original(d)] l == row'[Linked(d)]
                    IN /\ l.state = "draft" /\ ~l.removed
                       /\ o # None /\ o.state = "published" /\ ~o.removed
                       /\ l.generated = o.generated
                       /\ l.generated => l.pid = [o.pid EXCEPT !.draft = TRUE]
  BY DEF DraftsAreLinked
<1> DEFINE o == row[Original(d)]
           l == row[Linked(d)]
           Fit(m, p) == /\ m.state = "draft" /\ ~m.removed
                        /\ p # None /\ p.state = "published" /\ ~p.removed
                        /\ m.generated = p.generated
                        /\ m.generated => m.pid = [p.pid EXCEPT !.draft = TRUE]
<1>0. /\ Original(d) \in Key /\ Linked(d) \in Key /\ Original(d)[1] = d /\ Linked(d)[1] = d
      /\ Original(d) # Linked(d)
  BY Keys, KeysDiffer
<1>1. l # None => Fit(l, o)
  BY DEF IInv, DraftsAreLinked
<1>2. CASE o' = o /\ l' = l
  BY <1>1, <1>2
<1>3. ASSUME NEW r \in Request, Commit(r) PROVE Fit(l', o')
  <2>1. job[r] # None /\ job[r].target \in Key /\ job[r].new # None
    BY <1>3, CommitRows, JobTypes DEF IInv
  <2>2. CASE job[r].target # Original(d) /\ job[r].target # Linked(d)
    <3>1. o' = o
      <4>1. Original(d) # Linked(job[r].target[1])
        BY KeysDiffer
      <4> QED BY <1>0, <1>3, <2>2, <4>1, CommitRows
    <3>2. l' = l
      BY <1>0, <1>3, <2>2, CommitRows
    <3> QED BY <1>1, <3>1, <3>2
  <2>3. CASE job[r].target = Linked(d)
    <3>1. l' = job[r].new
      BY <1>3, <2>3, CommitRows
    <3>2. ~Creates(job[r]) /\ ~Publishes(job[r]) /\ ~Merges(job[r]) /\ ~Restores(job[r])
      BY <2>3, KeysDiffer DEF Creates, Publishes, Merges, Restores
    <3>3. o' = o
      BY <1>0, <1>3, <2>1, <2>3, <3>2, CommitRows, FitsKinds
    <3>4. CASE Updates(job[r])
      BY <1>1, <2>3, <3>1, <3>3, <3>4 DEF Updates, Replaces
    <3>5. CASE CreatesDraft(job[r])
      BY <1>0, <2>3, <3>1, <3>3, <3>5, ZenonT(60) DEF CreatesDraft
    <3> QED BY <2>1, <3>2, <3>4, <3>5, FitsKinds
  <2>4. CASE job[r].target = Original(d)
    <3>1. o' = job[r].new
      BY <1>3, <2>4, CommitRows
    <3>2. job[r].kind # "merge"
      BY <1>0, <1>3, <2>4, CommitRows
    <3>3. l' = l
      BY <1>0, <1>3, <2>4, <3>2, CommitRows
    <3>4. Fit(l, o)
      BY <1>1, <3>3
    <3>5. ~Creates(job[r]) /\ ~CreatesDraft(job[r]) /\ ~Publishes(job[r]) /\ ~Restores(job[r])
      BY <2>4, <3>4 DEF Creates, CreatesDraft, Publishes, Restores
    <3>6. Updates(job[r])
      BY <2>1, <3>2, <3>5, FitsKinds DEF Merges
    <3>7. /\ o'.generated = o.generated
          /\ o.generated => o'.pid = o.pid
          /\ o'.state = o.state /\ ~o'.removed /\ o' # None
      BY <2>1, <2>4, <3>1, <3>6 DEF Updates, Replaces
    <3> HIDE DEF o, l
    <3> QED BY <3>3, <3>4, <3>7, Zenon
  <2> QED BY <2>2, <2>3, <2>4
<1>4. ASSUME NEW e \in Dataset, NEW flush \in BOOLEAN, Remove(e, flush) PROVE o' = o /\ l' = l
  <2>1. d # e
    BY <1>4, RemoveRows, Zenon
  <2>2. /\ Original(d) # Linked(e) /\ Original(d) # Original(e)
        /\ Linked(d) # Linked(e) /\ Linked(d) # Original(e)
    BY <2>1, KeysDiffer
  <2> QED BY <1>0, <1>4, <2>2, RemoveRows, Zenon
<1>5. ASSUME NEW r \in Request, Begin(r) PROVE o' = o /\ l' = l
  <2>1. PICK j \in Job : IsBegun(r, j)
    BY <1>5, Begun, Zenon
  <2>2. row' = row
    BY <2>1, Zenon DEF IsBegun
  <2> QED BY <2>2
<1>6. ASSUME NEW r \in Request, Mint(r) \/ Check(r) \/ InsertDoi(r) \/ PutDoi(r) \/ Fail(r)
      PROVE  o' = o /\ l' = l
  BY <1>6, Zenon DEF Mint, Check, InsertDoi, PutDoi, Fail
<1>7. CASE UNCHANGED vars
  BY <1>2, <1>7 DEF vars
<1> QED BY <1>2, <1>3, <1>4, <1>5, <1>6, <1>7, Zenon DEF Next

-----------------------------------------------------------------------------
(* How far the requests are. *)

\* What is shown of a dataset that a request creates or holds the lock of is changed
\* by nobody else.
LEMMA StepFitsStays ==
    ASSUME IInv, [Next]_vars, NEW s \in Request, job[s] # None,
           IsSame(job[s]', job[s]), job[s]'.step = job[s].step
    PROVE  StepFits(job[s])'
<1> DEFINE j == job[s]
           d == j.target[1]
           id == j.new.pid.id
<1>1. /\ j'.kind = j.kind /\ j'.target = j.target /\ j'.new = j.new /\ j'.step = j.step
  BY DEF IsSame
<1>2. StepFits(j)
  BY DEF IInv, StepsFit
<1>3. MustDescribe(j)' = MustDescribe(j)
  BY <1>1 DEF MustDescribe
<1>4. d \in Dataset
  BY JobTypes DEF IInv
<1>5. ASSUME j.new.generated, IsOwn(d, j.new), IsShown(j.new),
             Original(d) \in j.locks \/ row[Original(d)] = None,
             ~(j.step = "put" /\ MustDescribe(j))
      PROVE  IsOwn(d, j.new)' /\ IsShown(j.new)'
  <2>1. id \in 0..used.minted /\ service[id] # None /\ service[id].dataset = d
    BY <1>5 DEF IsOwn, IsShown
  <2>2. service'[id] = service[id]
    <3> SUFFICES ASSUME service'[id] # service[id] PROVE FALSE OBVIOUS
    <3>1. PICK r \in Request : PutDoi(r) /\ job[r].target[1] = d
      BY <2>1, ServiceStep
    <3>2. job[r] # None /\ job[r].step = "put"
      BY <3>1 DEF PutDoi
    <3>3. MustDescribe(job[r])
      BY <3>2 DEF IInv, StepsFit, StepFits
    <3>4. Original(d) \in job[r].locks /\ row[Original(d)] # None
      BY <3>1, <3>2, <3>3, Describing
    <3>5. r # s
      BY <1>5, <3>2, <3>3
    <3>6. job[r].locks \cap job[s].locks = {}
      BY <3>2, <3>5 DEF IInv, JobsAreApart
    <3> QED BY <1>5, <3>4, <3>6
  <2>3. id \in 0..used'.minted
    BY <2>1, ServiceStep
  <2> QED BY <1>1, <1>5, <2>1, <2>2, <2>3 DEF IsOwn, IsShown
<1>6. ASSUME j.step = "write", MustDescribe(j) PROVE IsShown(j.new)'
  <2>1. /\ j.new.generated /\ IsShown(j.new)
        /\ Original(d) \in j.locks
        /\ row[j.target] # None /\ j.target = Original(d)
        /\ row[j.target].pid = j.new.pid /\ row[j.target].generated
    BY <1>2, <1>6, Describing DEF StepFits, MustDescribe
  <2>2. IsOwn(d, row[j.target])
    BY <1>4, <2>1 DEF IInv, OriginalsAreSound
  <2>3. IsOwn(d, j.new)
    BY <2>1, <2>2 DEF IsOwn
  <2> QED BY <1>5, <1>6, <2>1, <2>3
<1>7. ASSUME j.kind \in {"create", "publish"}, j.new.generated
      PROVE  IsOwn(d, j.new)' /\ IsShown(j.new)'
  <2>1. IsOwn(d, j.new) /\ IsShown(j.new)
    BY <1>2, <1>7 DEF StepFits
  <2>2. Creates(j) \/ Publishes(j)
    BY <1>7, FitsKinds
  <2>3. Original(d) \in j.locks \/ row[Original(d)] = None
    BY <2>2 DEF Creates, Publishes
  <2>4. ~MustDescribe(j)
    BY <1>7 DEF MustDescribe
  <2> QED BY <1>5, <1>7, <2>1, <2>3, <2>4
<1>8. /\ j'.kind \in {"create", "publish"} /\ j'.new.generated =>
             IsOwn(d, j.new)' /\ IsShown(j.new)'
      /\ j'.step = "write" /\ MustDescribe(j)' => IsShown(j.new)'
  BY <1>1, <1>3, <1>6, <1>7
<1>9. d' = d
  BY <1>1
<1> QED BY <1>1, <1>2, <1>3, <1>8, <1>9 DEF StepFits

LEMMA StepsFitStep == IInv /\ [Next]_vars => StepsFit'
<1> SUFFICES ASSUME IInv, [Next]_vars, NEW s \in Request, job'[s] # None
             PROVE  StepFits(job[s])'
  BY DEF StepsFit
<1>0. job \in [Request -> Job \cup {None}] /\ TypeOK /\ TypeOK'
  BY TypeStep DEF IInv, TypeOK
<1>1. CASE job'[s] = job[s]
  <2>1. job[s] # None /\ IsSame(job[s]', job[s])
    BY <1>0, <1>1 DEF IsSame
  <2> QED BY <1>1, <2>1, StepFitsStays
<1>2. ASSUME NEW r \in Request, Begin(r) PROVE StepFits(job[s])'
  <2>1. PICK j \in Job : IsBegun(r, j)
    BY <1>2, Begun, Zenon
  <2>2. /\ service' = service /\ job' = [job EXCEPT ![r] = j] /\ StepFits(j)
        /\ used'.minted = used.minted
    BY <1>0, <2>1 DEF IsBegun, TypeOK
  <2>3. CASE s = r
    <3>1. job'[s] = j
      BY <1>0, <2>2, <2>3
    <3> QED BY <2>2, <3>1 DEF StepFits, MustDescribe, IsShown, IsOwn
  <2>4. CASE s # r
    BY <1>0, <1>1, <2>2, <2>4
  <2> QED BY <2>3, <2>4
<1>3. ASSUME NEW r \in Request, Mint(r) PROVE StepFits(job[s])'
  <2> DEFINE n == used.minted + 1
             d == job[r].target[1]
             x == [dataset |-> d, kind |-> job[r].new.wants, content |-> job[r].new.content]
  <2>1. PICK i \in Job :
            /\ job' = [job EXCEPT ![r] = i]
            /\ i.kind = job[r].kind /\ i.target = job[r].target /\ i.locks = job[r].locks
            /\ i.step = "check"
            /\ i.new.pid = Plain(used.minted + 1) /\ i.new.generated
            /\ i.new.content = job[r].new.content /\ i.new.state = job[r].new.state
    BY <1>3, Minting, Zenon
  <2>2. /\ job[r] # None /\ n \in Minted /\ used' = [used EXCEPT !.minted = @ + 1]
        /\ service' = [service EXCEPT ![n] = x] /\ job[r].new.wants \in {"URN", "DOI"}
    BY <1>3, Minting
  <2>3. CASE s = r
    <3>1. job'[s] = i
      BY <1>0, <2>1, <2>3
    <3>2. d \in Dataset /\ job[r].new \in Row
      BY <2>2, JobTypes DEF IInv
    <3>3. job[r].new.content \in (0..MaxRequests) \cup {None}
      BY <3>2 DEF Row
    <3>4. x # None
      BY <1>0, <2>2, <3>2, <3>3, IsKnown
    <3>5. x.dataset = d /\ x.content = i.new.content
      BY <2>1
    <3> HIDE DEF x
    <3>6. service'[n] = x
      BY <1>0, <2>2 DEF TypeOK
    <3>7. used'.minted = n /\ n \in 0..n
      BY <1>0, <2>2, PidAssumption DEF TypeOK, Minted
    <3>8. Plain(n) # None /\ Plain(n).id = n /\ ~Plain(n).draft
      <4>1. Plain(n) \in Pid
        BY <2>2 DEF Plain, Pid
      <4>2. Plain(n) # None
        BY <4>1, NoneIsNoRecord
      <4> QED BY <4>2 DEF Plain
    <3>9. i.new.pid # None /\ i.new.pid.id = n /\ ~i.new.pid.draft
      BY <2>1, <3>8
    <3>10. i.target[1] = d
      BY <2>1
    <3>11. d' = d
      BY <2>3, <3>1, <3>10
    <3>12. job[s]'.new.generated /\ job[s]'.new = i.new
      BY <2>1, <3>1
    <3> HIDE DEF d, n
    <3>13. IsOwn(d, job[s].new)' /\ IsShown(job[s].new)'
      BY <3>4, <3>5, <3>6, <3>7, <3>9, <3>11, <3>12 DEF IsOwn, IsShown
    <3>14. /\ job[s]'.kind \in {"create", "publish"} /\ job[s]'.step = "check"
           /\ job[s]'.target[1] = d
           /\ job[s]'.new.pid # None /\ ~job[s]'.new.pid.draft
      BY <1>3, <2>1, <3>1, <3>9, <3>10, Minting
    <3> QED BY <3>13, <3>14, <3>11 DEF StepFits, IsOwn
  <2>4. CASE s # r
    BY <1>0, <1>1, <2>1, <2>4
  <2> QED BY <2>3, <2>4
<1>4. ASSUME NEW r \in Request, Check(r) PROVE StepFits(job[s])'
  <2>1. PICK i : /\ IsSame(i, job[r]) /\ job' = [job EXCEPT ![r] = i]
                 /\ i.step = IF MustDescribe(job[r]) THEN "put" ELSE "write"
    BY <1>0, <1>4, GoesOn DEF Check
  <2>2. /\ job[r] # None /\ service' = service /\ used' = used /\ job[r].step = "check"
        /\ StepFits(job[r])
    BY <1>4 DEF Check, IInv, StepsFit
  <2>3. CASE s = r
    <3>1. job'[s] = i
      BY <1>0, <2>1, <2>3
    <3>2. /\ job[s]'.kind = job[r].kind /\ job[s]'.target = job[r].target
          /\ job[s]'.new = job[r].new
          /\ job[s]'.step = IF MustDescribe(job[r]) THEN "put" ELSE "write"
      BY <2>1, <3>1 DEF IsSame
    <3>3. MustDescribe(job[s])' = MustDescribe(job[r])
      BY <3>2 DEF MustDescribe
    <3> QED BY <2>2, <3>2, <3>3 DEF StepFits, IsShown, IsOwn
  <2>4. CASE s # r
    BY <1>0, <1>1, <2>1, <2>4
  <2> QED BY <2>3, <2>4
<1>5. ASSUME NEW r \in Request, PutDoi(r) PROVE StepFits(job[s])'
  <2> DEFINE id == job[r].new.pid.id
  <2>1. PICK i : /\ IsSame(i, job[r]) /\ job' = [job EXCEPT ![r] = i] /\ i.step = "write"
    BY <1>0, <1>5, GoesOn DEF PutDoi
  <2>2. /\ job[r] # None /\ service[id] # None
        /\ service' = [service EXCEPT ![id].content = job[r].new.content]
        /\ StepFits(job[r]) /\ job[r].step = "put"
    BY <1>5 DEF PutDoi, IInv, StepsFit
  <2>3. MustDescribe(job[r])
    BY <2>2 DEF StepFits
  <2>4. CASE s = r
    <3>1. job'[s] = i
      BY <1>0, <2>1, <2>4
    <3>2. /\ job[s]'.kind = job[r].kind /\ job[s]'.target = job[r].target
          /\ job[s]'.new = job[r].new /\ job[s]'.step = "write"
      BY <2>1, <3>1 DEF IsSame
    <3>3. job[r].kind = "update"
      BY <2>3 DEF MustDescribe
    <3>4. id \in Minted /\ id \in 0..used.minted
      BY <2>2, <2>3, Describing
    <3>5. service[id] \in Known
      BY <1>0, <2>2, <3>4, SMTT(30) DEF TypeOK
    <3>6. service'[id].content = job[r].new.content
      BY <1>0, <2>2, <3>4, <3>5, SMTT(30) DEF TypeOK, Known
    <3>7. service'[id] # None
      BY <2>2, <3>4, ServiceStep, Zenon
    <3>8. IsShown(job[s].new)'
      BY <3>2, <3>6, <3>7 DEF IsShown
    <3> QED BY <2>2, <3>2, <3>3, <3>8 DEF StepFits
  <2>5. CASE s # r
    BY <1>0, <1>1, <2>1, <2>5
  <2> QED BY <2>4, <2>5
<1>6. ASSUME NEW r \in Request, Commit(r) PROVE StepFits(job[s])'
  <2>1. s # r /\ job[s] # None
    BY <1>6, CommitJobs
  <2> QED BY <1>6, <2>1, CommitJobs, StepFitsStays
<1>7. ASSUME NEW r \in Request, Fail(r) PROVE StepFits(job[s])'
  <2>1. job' = [job EXCEPT ![r] = None]
    BY <1>7 DEF Fail
  <2> QED BY <1>0, <1>1, <2>1
<1>8. CASE job' = job
  BY <1>1, <1>8
<1> QED BY <1>2, <1>3, <1>4, <1>5, <1>6, <1>7, <1>8, Zenon DEF Next, InsertDoi, Remove, vars

-----------------------------------------------------------------------------
(* Uniqueness. *)

\* A row that is there has the identifier it had before, except the one written by
\* a commit.
LEMMA PidsStay ==
    ASSUME IInv, [Next]_vars, NEW k \in Key, row'[k] # None,
           \A r \in Request : Commit(r) => k # job[r].target
    PROVE  row[k] # None /\ row'[k].pid = row[k].pid /\ row'[k].catalog = row[k].catalog
<1>1. CASE row'[k] = row[k]
  BY <1>1
<1>2. ASSUME NEW r \in Request, Begin(r) PROVE row' = row
  <2>1. PICK j \in Job : IsBegun(r, j)
    BY <1>2, Begun, Zenon
  <2> QED BY <2>1 DEF IsBegun
<1>3. ASSUME NEW r \in Request, Commit(r) PROVE row'[k] = row[k]
  BY <1>3, CommitRows
<1>4. ASSUME NEW d \in Dataset, NEW flush \in BOOLEAN, Remove(d, flush)
      PROVE  row[k] # None /\ row'[k].pid = row[k].pid /\ row'[k].catalog = row[k].catalog
  <2>1. k # Linked(d)
    BY <1>4, RemoveRows, Zenon
  <2>2. CASE k = Original(d)
    <3>1. row[k] # None /\ row'[k] = [row[k] EXCEPT !.removed = TRUE]
      BY <1>4, <2>2, RemoveRows
    <3>2. row[k] \in Row
      BY <3>1, RowTypes DEF IInv
    <3> QED BY <3>1, <3>2 DEF Row
  <2>3. CASE k # Original(d)
    BY <1>1, <1>4, <2>1, <2>3, RemoveRows, Zenon
  <2> QED BY <2>2, <2>3
<1>5. ASSUME NEW r \in Request, Mint(r) \/ Check(r) \/ InsertDoi(r) \/ PutDoi(r) \/ Fail(r)
      PROVE  row' = row
  BY <1>5, Zenon DEF Mint, Check, InsertDoi, PutDoi, Fail
<1>6. CASE UNCHANGED vars
  BY <1>1, <1>6 DEF vars
<1> QED BY <1>1, <1>2, <1>3, <1>4, <1>5, <1>6 DEF Next

\* A request past its check learns of no row but by a commit, which it notes.
LEMMA CheckedStays ==
    ASSUME IInv, [Next]_vars, NEW s \in Request, job[s] # None, job[s].step \in {"put", "write"},
           IsSame(job[s]', job[s]), job[s].unseen \subseteq job'[s].unseen,
           \A r \in Request : Commit(r) => job[r].target[1] \in job'[s].unseen
    PROVE  \A k \in Others(job[s])' : Same(job[s].new, row[k])' => k[1] \in job'[s].unseen
<1> DEFINE j == job[s]
<1>1. j'.target = j.target /\ j'.kind = j.kind /\ j'.new = j.new
  BY DEF IsSame
<1> SUFFICES ASSUME NEW k \in Others(job[s])', Same(job[s].new, row[k])'
             PROVE  k[1] \in job'[s].unseen
  OBVIOUS
<1>2. /\ k \in Key \ {j.target} /\ row'[k] # None
      /\ j.kind = "merge" => k # Linked(j.target[1])
  BY <1>1 DEF Others
<1>3. CASE \A r \in Request : Commit(r) => k # job[r].target
  <2>1. row[k] # None /\ row'[k].pid = row[k].pid /\ row'[k].catalog = row[k].catalog
    BY <1>2, <1>3, PidsStay
  <2>2. k \in Others(j)
    BY <1>2, <2>1 DEF Others
  <2>3. Same(j.new, row[k])
    BY <1>1, <2>1 DEF Same
  <2>4. k[1] \in j.unseen
    BY <2>2, <2>3 DEF IInv, CheckedIsUnique
  <2> QED BY <2>4
<1>4. CASE ~(\A r \in Request : Commit(r) => k # job[r].target)
  BY <1>4
<1> QED BY <1>3, <1>4

LEMMA CheckedStep == IInv /\ [Next]_vars => CheckedIsUnique'
<1> SUFFICES ASSUME IInv, [Next]_vars, NEW s \in Request,
                    job'[s] # None, job'[s].step \in {"put", "write"}
             PROVE  \A k \in Others(job[s])' : Same(job[s].new, row[k])' => k[1] \in job'[s].unseen
  BY DEF CheckedIsUnique
<1>0. job \in [Request -> Job \cup {None}] /\ TypeOK
  BY DEF IInv, TypeOK
<1> DEFINE Goal == \A k \in Others(job[s])' : Same(job[s].new, row[k])' => k[1] \in job'[s].unseen
<1>1. ASSUME job'[s] = job[s], \A r \in Request : ~Commit(r) PROVE Goal
  <2>1. /\ job[s] # None /\ job[s].step \in {"put", "write"}
        /\ IsSame(job[s]', job[s]) /\ job[s].unseen \subseteq job'[s].unseen
    BY <1>0, <1>1 DEF IsSame
  <2>2. \A r \in Request : Commit(r) => job[r].target[1] \in job'[s].unseen
    BY <1>1
  <2> QED BY <2>1, <2>2, CheckedStays
<1>2. ASSUME NEW r \in Request, Commit(r) PROVE Goal
  <2>1. s # r /\ job[s] # None
    BY <1>2, CommitJobs
  <2>2. /\ IsSame(job[s]', job[s]) /\ job'[s].step = job[s].step
        /\ job[s].unseen \subseteq job'[s].unseen
        /\ job[r].target[1] \in job'[s].unseen
    BY <1>2, <2>1, CommitJobs
  <2>3. ASSUME NEW q \in Request, Commit(q) PROVE job[q].target[1] \in job'[s].unseen
    <3>1. q # s
      BY <2>3, CommitJobs
    <3> QED BY <2>1, <2>2, <2>3, <3>1, CommitJobs
  <2> QED BY <2>1, <2>2, <2>3, CheckedStays
<1>3. ASSUME \A r \in Request : ~Commit(r) PROVE Goal
  <2>1. ASSUME NEW r \in Request, Begin(r) PROVE Goal
    <3>1. PICK j \in Job : IsBegun(r, j)
      BY <2>1, Begun, Zenon
    <3>2. job' = [job EXCEPT ![r] = j] /\ j.step \in {"mint", "check"}
      BY <3>1 DEF IsBegun
    <3>3. job'[s] = job[s]
      BY <1>0, <3>2
    <3> QED BY <1>1, <1>3, <3>3
  <2>2. ASSUME NEW r \in Request, Mint(r) PROVE Goal
    <3>1. PICK i \in Job :
            /\ job' = [job EXCEPT ![r] = i]
            /\ i.kind = job[r].kind /\ i.target = job[r].target /\ i.locks = job[r].locks
            /\ i.step = "check"
            /\ i.new.pid = Plain(used.minted + 1) /\ i.new.generated
            /\ i.new.content = job[r].new.content /\ i.new.state = job[r].new.state
      BY <2>2, Minting, Zenon
    <3>2. job'[s] = job[s]
      BY <1>0, <3>1
    <3> QED BY <1>1, <1>3, <3>2
  <2>3. ASSUME NEW r \in Request, Check(r) PROVE Goal
    <3>1. PICK i : IsSame(i, job[r]) /\ job' = [job EXCEPT ![r] = i]
      BY <1>0, <2>3, GoesOn DEF Check
    <3>2. IsUnique(job[r]) /\ row' = row /\ job[r] # None
      BY <2>3 DEF Check
    <3>3. CASE s = r
      <4>1. job'[s] = i
        BY <1>0, <3>1, <3>3
      <4>2. /\ job[s]'.kind = job[r].kind /\ job[s]'.target = job[r].target
            /\ job[s]'.new = job[r].new
        BY <3>1, <4>1 DEF IsSame
      <4>3. Others(job[s])' = Others(job[r])
        BY <3>2, <4>2 DEF Others
      <4>4. \A k \in Others(job[r]) : ~Same(job[r].new, row[k])
        BY <3>2 DEF IsUnique, Same
      <4>5. ASSUME NEW k \in Others(job[s])', Same(job[s].new, row[k])' PROVE FALSE
        <5>1. Same(job[r].new, row[k])
          BY <3>2, <4>2, <4>5 DEF Same
        <5> QED BY <4>3, <4>4, <4>5, <5>1
      <4> QED BY <4>5
    <3>4. CASE s # r
      <4>1. job'[s] = job[s]
        BY <1>0, <3>1, <3>4
      <4> QED BY <1>1, <1>3, <4>1
    <3> QED BY <3>3, <3>4
  <2>4. ASSUME NEW r \in Request, PutDoi(r) PROVE Goal
    <3>1. PICK i : IsSame(i, job[r]) /\ i.unseen = job[r].unseen /\ job' = [job EXCEPT ![r] = i]
      BY <1>0, <2>4, GoesOn DEF PutDoi
    <3>2. job[r] # None /\ job[r].step = "put"
      BY <2>4 DEF PutDoi
    <3>3. CASE s = r
      <4>1. /\ IsSame(job[s]', job[s]) /\ job[s].unseen \subseteq job'[s].unseen
            /\ job[s] # None /\ job[s].step \in {"put", "write"}
        <5>1. job'[s] = i
          BY <1>0, <3>1, <3>3
        <5>2. IsSame(job[s]', job[s])
          BY <3>1, <3>3, <5>1 DEF IsSame
        <5>3. job[s].unseen \subseteq job'[s].unseen
          BY <3>1, <3>3, <5>1
        <5> QED BY <3>2, <3>3, <5>2, <5>3
      <4> QED BY <1>3, <4>1, CheckedStays
    <3>4. CASE s # r
      <4>1. job'[s] = job[s]
        BY <1>0, <3>1, <3>4
      <4> QED BY <1>1, <1>3, <4>1
    <3> QED BY <3>3, <3>4
  <2>5. ASSUME NEW r \in Request, Fail(r) PROVE Goal
    <3>1. job' = [job EXCEPT ![r] = None]
      BY <2>5 DEF Fail
    <3>2. job'[s] = job[s]
      BY <1>0, <3>1
    <3> QED BY <1>1, <1>3, <3>2
  <2>6. ASSUME job' = job PROVE Goal
    BY <1>1, <1>3, <2>6
  <2> HIDE DEF Goal
  <2>7. ASSUME NEW r \in Request, InsertDoi(r) PROVE Goal
    BY <2>6, <2>7 DEF InsertDoi
  <2>8. ASSUME NEW d \in Dataset, NEW flush \in BOOLEAN, Remove(d, flush) PROVE Goal
    BY <2>6, <2>8 DEF Remove
  <2>9. CASE UNCHANGED vars
    BY <2>6, <2>9 DEF vars
  <2> QED BY <1>3, <2>1, <2>2, <2>3, <2>4, <2>5, <2>7, <2>8, <2>9 DEF Next
<1> QED BY <1>2, <1>3

LEMMA UniqueStep == IInv /\ [Next]_vars => UniqueUnlessOverlapped'
<1> SUFFICES ASSUME IInv, [Next]_vars, NEW k \in Key, NEW l \in Key, k # l, Clash(k, l)'
             PROVE  {k[1], l[1]} \in overlapped'
  BY DEF UniqueUnlessOverlapped
<1>0. row'[k] # None /\ row'[l] # None /\ row'[k].pid # None /\ row'[k].pid = row'[l].pid
  BY DEF Clash
<1>1. overlapped \subseteq overlapped'
  <2>1. ASSUME NEW r \in Request, Begin(r) PROVE overlapped' = overlapped
    <3>1. PICK j \in Job : IsBegun(r, j)
      BY <2>1, Begun, Zenon
    <3> QED BY <3>1 DEF IsBegun
  <2>2. ASSUME NEW r \in Request, Commit(r) PROVE overlapped \subseteq overlapped'
    BY <2>2, CommitRows, SMTT(30)
  <2>3. ASSUME NEW r \in Request, Mint(r) \/ Check(r) \/ InsertDoi(r) \/ PutDoi(r) \/ Fail(r)
        PROVE  overlapped' = overlapped
    BY <2>3, Zenon DEF Mint, Check, InsertDoi, PutDoi, Fail
  <2> QED BY <2>1, <2>2, <2>3 DEF Next, Remove, vars
\* The two rows were there before.
<1>2. CASE \A r \in Request : Commit(r) => k # job[r].target /\ l # job[r].target
  <2>1. /\ row[k] # None /\ row'[k].pid = row[k].pid /\ row'[k].catalog = row[k].catalog
        /\ row[l] # None /\ row'[l].pid = row[l].pid /\ row'[l].catalog = row[l].catalog
    BY <1>0, <1>2, PidsStay
  <2>2. Clash(k, l)
    BY <2>1, Zenon DEF Clash
  <2> QED BY <1>1, <2>2 DEF IInv, UniqueUnlessOverlapped
\* One of them has been written by the request r.
<1>3. ASSUME NEW r \in Request, Commit(r), NEW m \in Key, NEW n \in Key, m # n,
             m = job[r].target, row'[n] # None, Same(row'[m], row'[n])
      PROVE  {m[1], n[1]} \in overlapped'
  <2>1. /\ job[r] # None /\ job[r].step = "write" /\ row'[m] = job[r].new
        /\ job[r].kind = "merge" => n # Linked(job[r].target[1])
    BY <1>3, CommitRows
  <2>2. row'[n] = row[n]
    BY <1>3, <2>1, CommitRows
  <2>3. n \in Others(job[r])
    BY <1>3, <2>1, <2>2 DEF Others
  <2>4. n[1] \in job[r].unseen
    BY <1>3, <2>1, <2>2, <2>3 DEF IInv, CheckedIsUnique
  <2> QED BY <1>3, <2>4, CommitRows
<1>4. Same(row'[k], row'[l]) /\ Same(row'[l], row'[k])
  BY DEF Clash, Same
<1>5. CASE \E r \in Request : Commit(r) /\ (k = job[r].target \/ l = job[r].target)
  <2>1. {k[1], l[1]} \in overlapped' \/ {l[1], k[1]} \in overlapped'
    BY <1>0, <1>3, <1>4, <1>5
  <2>2. {k[1], l[1]} = {l[1], k[1]}
    OBVIOUS
  <2> QED BY <2>1, <2>2
<1> QED BY <1>2, <1>5

-----------------------------------------------------------------------------
(* What the service shows. *)

\* The invariant for one dataset, from what a step leaves of it.
LEMMA ShownStays ==
    ASSUME IInv, [Next]_vars, NEW d \in Dataset, row[Original(d)] # None,
           row'[Original(d)].pid = row[Original(d)].pid,
           row'[Original(d)].content = row[Original(d)].content,
           row'[Original(d)].generated = row[Original(d)].generated,
           row'[Original(d)].state = row[Original(d)].state,
           row'[Original(d)].wants = row[Original(d)].wants,
           d \notin undescribed, ~Sent(d),
           row'[Original(d)].state = "published", row'[Original(d)].generated,
           row'[Original(d)].wants = "DOI",
           \A r \in Request : PutDoi(r) => job[r].target[1] # d
    PROVE  IsShown(row[Original(d)])'
<1> DEFINE o == row[Original(d)]
           id == o.pid.id
<1>1. IsShown(o)
  BY Zenon DEF IInv, ShownUnlessSent
<1>2. IsOwn(d, o)
  BY DEF IInv, OriginalsAreSound
<1>3. id \in 0..used.minted /\ service[id] # None /\ service[id].dataset = d
  BY <1>1, <1>2 DEF IsOwn, IsShown
<1>4. service'[id] = service[id]
  BY <1>3, ServiceStep
<1> QED BY <1>1, <1>4 DEF IsShown

\* Who has sent metadata has still sent it, unless it ends.
LEMMA SentStays ==
    ASSUME NEW d \in Dataset, Sent(d),
           \A s \in Request :
               job[s] # None /\ job[s].step = "write" /\ MustDescribe(job[s])
                   /\ job[s].target = Original(d) =>
                   job'[s] # None /\ IsSame(job[s]', job[s]) /\ job'[s].step = job[s].step
    PROVE  Sent(d)'
<1>1. PICK s \in Request :
          /\ job[s] # None /\ job[s].target = Original(d) /\ job[s].step = "write"
          /\ MustDescribe(job[s])
  BY DEF Sent
<1>2. job'[s] # None /\ IsSame(job[s]', job[s]) /\ job'[s].step = "write"
  BY <1>1
<1>3. MustDescribe(job[s])' /\ job'[s].target = Original(d)
  BY <1>1, <1>2 DEF IsSame, MustDescribe
<1> QED BY <1>2, <1>3 DEF Sent

LEMMA SameIsSame == ASSUME TypeOK, NEW s \in Request, job[s] # None, job'[s] = job[s]
                    PROVE  IsSame(job[s]', job[s])
BY JobTypes DEF IsSame

LEMMA ShownStep == IInv /\ [Next]_vars => ShownUnlessSent'
<1> SUFFICES ASSUME IInv, [Next]_vars, NEW d \in Dataset, row'[Original(d)] # None,
                    row'[Original(d)].state = "published", row'[Original(d)].generated,
                    row'[Original(d)].wants = "DOI", d \notin undescribed', ~Sent(d)'
             PROVE  IsShown(row[Original(d)])'
  BY DEF ShownUnlessSent
<1> DEFINE o == row[Original(d)]
           \* What has been sent stays so, or the dataset is marked.
           SentMeans == Sent(d) => Sent(d)' \/ d \in undescribed'
<1>0. /\ job \in [Request -> Job \cup {None}] /\ TypeOK
      /\ Original(d) \in Key /\ Original(d)[1] = d /\ Original(d) # Linked(d)
  BY Keys, KeysDiffer DEF IInv, TypeOK
<1>1. ASSUME o' = o, d \notin undescribed, Sent(d) => Sent(d)',
             \A r \in Request : PutDoi(r) => job[r].target[1] # d
      PROVE  IsShown(row[Original(d)])'
  BY <1>1, ShownStays
<1>2. ASSUME NEW r \in Request, Commit(r) PROVE IsShown(row[Original(d)])'
  <2> DEFINE j == job[r]
             e == j.target[1]
  <2>1. /\ j # None /\ j.step = "write" /\ j.target \in Key /\ e \in Dataset
        /\ j.new \in Row /\ service' = service
    BY <1>2, CommitRows, JobTypes DEF IInv
  <2>2. \A q \in Request : ~PutDoi(q) \/ service' = service
    BY <2>1
  <2>3. ASSUME NEW q \in Request, q # r, job[q] # None
        PROVE  job'[q] # None /\ IsSame(job[q]', job[q]) /\ job'[q].step = job[q].step
    BY <1>2, <2>3, CommitJobs
  <2>4. undescribed' =
          IF j.target # Original(e) THEN undescribed
          ELSE IF MustDescribe(j) \/ j.kind \in {"create", "publish"} THEN undescribed \ {e}
          ELSE IF j.kind = "merge" \/ (j.kind = "update" /\ j.new.wants # "DOI")
               THEN undescribed \cup {e} ELSE undescribed
    BY <1>2 DEF Commit
  <2>5. ASSUME o # None, o.state = "published", o.generated, o.wants = "DOI",
               d \notin undescribed, ~Sent(d)
        PROVE  IsShown(o)
    BY <2>5 DEF IInv, ShownUnlessSent
  <2>6. CASE j.target # Original(d)
    <3>1. o' = o
      <4>1. Original(d) # Linked(e)
        BY KeysDiffer
      <4> QED BY <1>0, <1>2, <2>6, <4>1, CommitRows
    <3>2. d \notin undescribed
      <4>1. j.target = Original(e) => d # e
        BY <2>6
      <4> QED BY <2>4, <4>1
    <3>3. Sent(d) => Sent(d)'
      <4>1. \A q \in Request : job[q] # None /\ job[q].target = Original(d) => q # r
        BY <2>6
      <4> QED BY <2>3, <4>1, SentStays
    <3>4. IsShown(o)
      BY <2>5, <3>1, <3>2, <3>3
    <3> QED BY <2>1, <3>1, <3>4 DEF IsShown
  <2>7. CASE j.target = Original(d)
    <3>1. o' = j.new /\ e = d
      BY <1>0, <1>2, <2>7, CommitRows
    <3>2. StepFits(j)
      BY <2>1 DEF IInv, StepsFit
    <3>3. CASE Creates(j) \/ Publishes(j)
      <4>1. IsShown(j.new)
        BY <3>1, <3>2, <3>3 DEF Creates, Publishes, StepFits
      <4> QED BY <2>1, <3>1, <4>1 DEF IsShown
    <3>4. CASE Updates(j)
      <4>1. MustDescribe(j)
        BY <3>1, <3>4 DEF Updates, MustDescribe
      <4>2. IsShown(j.new)
        BY <2>1, <3>2, <4>1 DEF StepFits
      <4> QED BY <2>1, <3>1, <4>2 DEF IsShown
    <3>5. CASE CreatesDraft(j)
      BY <2>7, <3>5, KeysDiffer DEF CreatesDraft
    <3>6. CASE Merges(j)
      <4>1. j.kind = "merge" /\ ~MustDescribe(j) /\ j.target = Original(e)
        BY <3>6 DEF Merges, MustDescribe
      <4>2. d \in undescribed'
        BY <2>4, <3>1, <4>1
      <4> QED BY <4>2
    <3>7. CASE Restores(j)
      <4>1. /\ j.kind = "restore" /\ ~MustDescribe(j) /\ j.locks = {Original(d)}
            /\ o # None /\ j.new = [o EXCEPT !.removed = FALSE]
        BY <2>7, <3>7 DEF Restores, MustDescribe
      <4>2. d \notin undescribed
        BY <2>4, <4>1
      <4>3. o \in Row
        BY <1>0, <4>1, RowTypes
      <4>4. /\ o'.pid = o.pid /\ o'.content = o.content /\ o'.generated = o.generated
            /\ o'.state = o.state /\ o'.wants = o.wants
        <5>1. o' = [o EXCEPT !.removed = FALSE]
          BY <3>1, <4>1
        <5> HIDE DEF o
        <5> QED BY <4>3, <5>1 DEF Row
      <4>5. ~Sent(d)
        <5> SUFFICES ASSUME NEW q \in Request, job[q] # None, job[q].target = Original(d),
                            MustDescribe(job[q])
                     PROVE  FALSE
          BY DEF Sent
        <5>1. q # r
          BY <4>1
        <5>2. Original(d) \in job[q].locks
          BY Describing, <1>0
        <5>3. job[q].locks \cap job[r].locks = {}
          BY <2>1, <5>1 DEF IInv, JobsAreApart
        <5> QED BY <4>1, <5>2, <5>3
      <4>6. IsShown(o)
        BY <2>5, <4>1, <4>2, <4>4, <4>5
      <4> QED BY <2>1, <4>4, <4>6 DEF IsShown
    <3> QED BY <2>1, <3>3, <3>4, <3>5, <3>6, <3>7, FitsKinds
  <2> QED BY <2>6, <2>7
<1>3. ASSUME NEW r \in Request, Begin(r) PROVE IsShown(row[Original(d)])'
  <2>1. PICK j \in Job : IsBegun(r, j)
    BY <1>3, Begun, Zenon
  <2>2. /\ job[r] = None /\ job' = [job EXCEPT ![r] = j] /\ row' = row
        /\ undescribed' = undescribed /\ service' = service
    BY <2>1 DEF IsBegun
  <2>3. \A s \in Request : job[s] # None => job'[s] = job[s]
    BY <1>0, <2>2
  <2>4. Sent(d) => Sent(d)'
    BY <1>0, <2>3, SentStays, SameIsSame
  <2>5. IsShown(o)
    BY <2>2, <2>4 DEF IInv, ShownUnlessSent
  <2> QED BY <2>2, <2>5 DEF IsShown
<1>4. ASSUME NEW r \in Request, Mint(r) PROVE IsShown(row[Original(d)])'
  <2>1. PICK i \in Job :
            /\ job' = [job EXCEPT ![r] = i]
            /\ i.kind = job[r].kind /\ i.target = job[r].target /\ i.locks = job[r].locks
            /\ i.step = "check"
            /\ i.new.pid = Plain(used.minted + 1) /\ i.new.generated
            /\ i.new.content = job[r].new.content /\ i.new.state = job[r].new.state
    BY <1>4, Minting, Zenon
  <2>2. row' = row /\ undescribed' = undescribed /\ job[r].kind \in {"create", "publish"}
    BY <1>4, Minting, Zenon
  <2>3. ~MustDescribe(job[r])
    BY <2>2 DEF MustDescribe
  <2>4. \A s \in Request : s # r => job'[s] = job[s]
    BY <1>0, <2>1
  <2>5. Sent(d) => Sent(d)'
    BY <1>0, <2>3, <2>4, SentStays, SameIsSame
  <2>6. row[Original(d)] # None /\ d \notin undescribed /\ ~Sent(d)
    BY <2>2, <2>5
  <2>7. ASSUME NEW q \in Request, PutDoi(q) PROVE FALSE
    <3>1. used' = used
      BY <2>7 DEF PutDoi
    <3>2. used \in [requests : 0..MaxRequests, minted : Minted] /\ Minted \subseteq Nat
      BY <1>0, PidAssumption DEF TypeOK, Minted
    <3>3. used' = [used EXCEPT !.minted = @ + 1]
      BY <1>4 DEF Mint
    <3>4. used'.minted = used.minted + 1 /\ used.minted \in Nat
      BY <3>2, <3>3
    <3> QED BY <3>1, <3>4
  <2> QED BY <2>2, <2>6, <2>7, ShownStays
<1>5. ASSUME NEW r \in Request, Check(r) PROVE IsShown(row[Original(d)])'
  <2>1. PICK i : IsSame(i, job[r]) /\ job' = [job EXCEPT ![r] = i]
    BY <1>0, <1>5, GoesOn DEF Check
  <2>2. /\ row' = row /\ undescribed' = undescribed /\ service' = service
        /\ job[r].step = "check"
    BY <1>5 DEF Check
  <2>3. \A s \in Request : job[s] # None /\ job[s].step = "write" => job'[s] = job[s]
    BY <1>0, <2>1, <2>2
  <2>4. Sent(d) => Sent(d)'
    BY <1>0, <2>3, SentStays, SameIsSame
  <2>5. IsShown(o)
    BY <2>2, <2>4 DEF IInv, ShownUnlessSent
  <2> QED BY <2>2, <2>5 DEF IsShown
<1>6. ASSUME NEW r \in Request, InsertDoi(r) PROVE IsShown(row[Original(d)])'
  <2>1. row' = row /\ undescribed' = undescribed /\ job' = job
    BY <1>6 DEF InsertDoi
  <2>2. Sent(d) => Sent(d)'
    BY <1>0, <2>1, SentStays, SameIsSame
  <2>3. row[Original(d)] # None /\ d \notin undescribed /\ ~Sent(d)
    BY <2>1, <2>2
  <2>4. ASSUME NEW q \in Request, PutDoi(q) PROVE FALSE
    <3>1. job[q] # None /\ job[q].step = "put" /\ job' = [job EXCEPT ![q].step = "write"]
      BY <2>4 DEF PutDoi, Goes
    <3>2. job'[q].step = "write"
      BY <1>0, <3>1, SMTT(30) DEF Job
    <3> QED BY <2>1, <3>1, <3>2
  <2> QED BY <2>1, <2>3, <2>4, ShownStays
<1>7. ASSUME NEW r \in Request, PutDoi(r) PROVE IsShown(row[Original(d)])'
  <2>1. PICK i : IsSame(i, job[r]) /\ job' = [job EXCEPT ![r] = i] /\ i.step = "write"
    BY <1>0, <1>7, GoesOn DEF PutDoi
  <2>2. /\ row' = row /\ undescribed' = undescribed /\ job[r] # None /\ job[r].step = "put"
        /\ service[job[r].new.pid.id] # None
        /\ service' = [service EXCEPT ![job[r].new.pid.id].content = job[r].new.content]
        /\ service[job[r].new.pid.id].dataset = job[r].target[1]
    BY <1>7 DEF PutDoi
  <2>3. MustDescribe(job[r])
    BY <2>2 DEF IInv, StepsFit, StepFits
  <2>4. job[r].target = Original(job[r].target[1])
    BY <2>2, <2>3, Describing
  <2>5. job'[r] = i /\ i # None
    BY <1>0, <2>1, NoneIsNoRecord DEF IsSame
  <2>6. job[r].target[1] # d
    <3> SUFFICES ASSUME job[r].target = Original(d) PROVE Sent(d)'
      BY <2>4
    <3>1. MustDescribe(job[r])'
      BY <2>1, <2>3, <2>5 DEF MustDescribe, IsSame
    <3> QED BY <2>1, <2>5, <3>1 DEF Sent, IsSame
  <2>7. \A s \in Request : job[s] # None /\ job[s].step = "write" => job'[s] = job[s]
    BY <1>0, <2>1, <2>2
  <2>8. Sent(d) => Sent(d)'
    BY <1>0, <2>7, SentStays, SameIsSame
  <2>9. IsShown(o)
    BY <2>2, <2>8 DEF IInv, ShownUnlessSent
  <2>10. IsOwn(d, o)
    BY <2>2 DEF IInv, OriginalsAreSound
  <2>11. /\ o.pid.id \in Minted /\ o.pid.id # job[r].new.pid.id
    <3>1. o.pid.id \in 0..used.minted /\ service[o.pid.id] # None
          /\ service[o.pid.id].dataset = d
      BY <2>2, <2>9, <2>10 DEF IsOwn, IsShown
    <3>2. 0..used.minted \subseteq Minted
      BY <1>0, PidAssumption DEF TypeOK, Minted
    <3> QED BY <2>2, <2>6, <3>1, <3>2
  <2>12. service'[o.pid.id] = service[o.pid.id]
    BY <1>0, <2>2, <2>11 DEF TypeOK
  <2> QED BY <2>2, <2>9, <2>12, Zenon DEF IsShown
<1>8. ASSUME NEW r \in Request, Fail(r) PROVE IsShown(row[Original(d)])'
  <2>1. /\ job' = [job EXCEPT ![r] = None] /\ row' = row /\ service' = service /\ job[r] # None
        /\ undescribed' = IF job[r].step = "write" /\ MustDescribe(job[r])
                          THEN undescribed \cup {job[r].target[1]} ELSE undescribed
    BY <1>8 DEF Fail
  <2>2. d \notin undescribed
    BY <2>1
  <2>3. ~(job[r].step = "write" /\ MustDescribe(job[r]) /\ job[r].target = Original(d))
    BY <1>0, <2>1
  <2>4. \A s \in Request : s # r => job'[s] = job[s]
    BY <1>0, <2>1
  <2>5. Sent(d) => Sent(d)'
    BY <1>0, <2>3, <2>4, SentStays, SameIsSame
  <2>6. IsShown(o)
    BY <2>1, <2>2, <2>5 DEF IInv, ShownUnlessSent
  <2> QED BY <2>1, <2>6 DEF IsShown
<1>9. ASSUME NEW e \in Dataset, NEW flush \in BOOLEAN, Remove(e, flush)
      PROVE  IsShown(row[Original(d)])'
  <2>1. service' = service /\ job' = job /\ undescribed' = undescribed
    BY <1>9, RemoveRows, Zenon
  <2>2. Sent(d) => Sent(d)'
    BY <1>0, <2>1, SentStays, SameIsSame
  <2>3. /\ o # None
        /\ o'.pid = o.pid /\ o'.content = o.content /\ o'.generated = o.generated
        /\ o'.state = o.state /\ o'.wants = o.wants
    <3>1. Original(d) # Linked(e) /\ (Original(d) = Original(e) => d = e)
      BY KeysDiffer
    <3>2. CASE d # e
      BY <1>0, <1>9, <3>1, <3>2, RemoveRows, ZenonT(60)
    <3>3. CASE d = e
      <4>1. o # None /\ o' = [o EXCEPT !.removed = TRUE]
        BY <1>9, <3>3, RemoveRows
      <4>2. o \in Row
        BY <1>0, <4>1, RowTypes
      <4> QED BY <4>1, <4>2, Zenon DEF Row
    <3> QED BY <3>2, <3>3, Zenon
  <2>4. IsShown(o)
    BY <2>1, <2>2, <2>3 DEF IInv, ShownUnlessSent
  <2> QED BY <2>1, <2>3, <2>4 DEF IsShown
<1>10. CASE UNCHANGED vars
  <2>1. row' = row /\ service' = service /\ job' = job /\ undescribed' = undescribed
    BY <1>10 DEF vars
  <2>2. Sent(d) => Sent(d)'
    BY <1>0, <2>1, SentStays, SameIsSame
  <2>3. IsShown(o)
    BY <2>1, <2>2 DEF IInv, ShownUnlessSent
  <2> QED BY <2>1, <2>3 DEF IsShown
<1> QED BY <1>2, <1>3, <1>4, <1>5, <1>6, <1>7, <1>8, <1>9, <1>10 DEF Next

-----------------------------------------------------------------------------

LEMMA Invariance == Spec => []IInv
<1>1. IInv /\ [Next]_vars => IInv'
  BY TypeStep, OriginalsStep, DraftsStep, FitStep, ApartStep, StepsFitStep, CheckedStep,
     UniqueStep, ShownStep DEF IInv
<1> QED BY InitIsGood, <1>1, PTL DEF Spec

\* Any number of datasets, catalogs and overlapping requests, whatever fails: two
\* rows share an identifier only if their requests did not see each other.
THEOREM UniqueCorrect == Spec => []UniqueUnlessOverlapped
<1>1. IInv => UniqueUnlessOverlapped
  BY DEF IInv
<1> QED BY <1>1, Invariance, PTL

\* A generated identifier leads to the dataset that has it, whatever requests were
\* repeated, overlapped or failed after the service had made it.
THEOREM GeneratedPidCorrect == Spec => []GeneratedPidIsOfItsDataset
<1>1. ASSUME IInv, NEW d \in Dataset, row[Original(d)] # None, row[Original(d)].generated
      PROVE  /\ row[Original(d)].pid # None
             /\ IF service[row[Original(d)].pid.id] = None THEN d = Migrated
                ELSE service[row[Original(d)].pid.id].dataset = d
  BY <1>1 DEF IInv, OriginalsAreSound, IsOwn
<1>2. IInv => GeneratedPidIsOfItsDataset
  BY <1>1 DEF GeneratedPidIsOfItsDataset
<1> QED BY <1>2, Invariance, PTL

\* A DOI shows the metadata of its dataset once no request holds the dataset, with
\* the exceptions that undescribed records.
THEOREM DoiIsDescribedCorrect == Spec => []DoiIsDescribed
<1>1. ASSUME IInv, NEW d \in Dataset, row[Original(d)] # None,
             row[Original(d)].state = "published", row[Original(d)].generated,
             row[Original(d)].wants = "DOI", d \notin undescribed, ~Locked(Original(d))
      PROVE  IsShown(row[Original(d)])
  <2>1. ~Sent(d)
    <3> SUFFICES ASSUME NEW r \in Request, job[r] # None, job[r].target = Original(d),
                        MustDescribe(job[r])
                 PROVE  FALSE
      BY DEF Sent
    <3>1. Original(job[r].target[1]) \in job[r].locks /\ job[r].target = Original(job[r].target[1])
      BY <1>1, Describing
    <3>2. Original(d) \in job[r].locks
      BY <3>1
    <3> QED BY <1>1, <3>2 DEF Locked
  <2> QED BY <1>1, <2>1 DEF IInv, ShownUnlessSent
<1>2. IInv => DoiIsDescribed
  BY <1>1 DEF DoiIsDescribed, IsShown
<1> QED BY <1>2, Invariance, PTL

\* No update of a dataset or its draft, merge or overlap of them replaces a generated
\* identifier.
THEOREM GeneratedPidIsKeptCorrect == Spec => GeneratedPidIsKept
<1> DEFINE Kept == \A d \in Dataset :
                       LET old == row[Original(d)] new == row'[Original(d)]
                       IN old # None /\ new # None /\ old.generated =>
                              new.pid = old.pid /\ new.generated
<1>1. ASSUME IInv, [Next]_vars PROVE Kept
  <2> SUFFICES ASSUME NEW d \in Dataset, row[Original(d)] # None, row'[Original(d)] # None,
                      row[Original(d)].generated
               PROVE  row'[Original(d)].pid = row[Original(d)].pid /\ row'[Original(d)].generated
    OBVIOUS
  <2> DEFINE o == row[Original(d)]
  <2>0. Original(d) \in Key /\ Original(d)[1] = d /\ IsOwn(d, o)
        /\ (o.state = "draft" => ~o.generated)
    BY <1>1, Keys DEF IInv, OriginalsAreSound
  <2>1. ASSUME NEW r \in Request, Commit(r) PROVE o'.pid = o.pid /\ o'.generated
    <3>1. job[r] # None
      BY <1>1, <2>1, CommitRows
    <3>2. CASE job[r].target # Original(d)
      <4>1. Original(d) # Linked(job[r].target[1])
        BY KeysDiffer
      <4>2. o' = o
        BY <1>1, <2>0, <2>1, <3>2, <4>1, CommitRows
      <4> QED BY <4>2
    <3>3. CASE job[r].target = Original(d)
      <4>1. o' = job[r].new
        BY <1>1, <2>1, <3>3, CommitRows
      <4>2. ~Creates(job[r]) /\ ~Publishes(job[r]) /\ ~CreatesDraft(job[r])
        BY <2>0, <3>3, KeysDiffer DEF Creates, Publishes, CreatesDraft
      <4>3. CASE Updates(job[r]) \/ Merges(job[r])
        BY <3>3, <4>1, <4>3 DEF Updates, Merges, Replaces
      <4>4. CASE Restores(job[r])
        <5>1. o \in Row
          BY <1>1, <2>0, RowTypes DEF IInv
        <5>2. o' = [o EXCEPT !.removed = FALSE]
          BY <3>3, <4>1, <4>4 DEF Restores
        <5> QED BY <5>1, <5>2 DEF Row
      <4> QED BY <1>1, <3>1, <4>2, <4>3, <4>4, FitsKinds
    <3> QED BY <3>2, <3>3
  <2>2. ASSUME NEW e \in Dataset, NEW flush \in BOOLEAN, Remove(e, flush)
        PROVE  o'.pid = o.pid /\ o'.generated
    <3>1. Original(d) # Linked(e) /\ (Original(d) = Original(e) => d = e)
      BY KeysDiffer
    <3>2. CASE d # e
      BY <1>1, <2>0, <2>2, <3>1, <3>2, RemoveRows, Zenon
    <3>3. CASE d = e
      <4>1. o' = [o EXCEPT !.removed = TRUE]
        BY <1>1, <2>2, <3>3, RemoveRows
      <4>2. o \in Row
        BY <1>1, <2>0, RowTypes DEF IInv
      <4> QED BY <4>1, <4>2 DEF Row
    <3> QED BY <3>2, <3>3
  <2>3. ASSUME NEW r \in Request, Begin(r) PROVE o' = o
    <3>1. PICK j \in Job : IsBegun(r, j)
      BY <1>1, <2>3, Begun, Zenon
    <3> QED BY <3>1 DEF IsBegun
  <2>4. ASSUME NEW r \in Request, Mint(r) \/ Check(r) \/ InsertDoi(r) \/ PutDoi(r) \/ Fail(r)
        PROVE  o' = o
    BY <2>4, Zenon DEF Mint, Check, InsertDoi, PutDoi, Fail
  <2> QED BY <1>1, <2>1, <2>2, <2>3, <2>4 DEF Next, vars
<1>2. IInv /\ [Next]_vars =>
      [\A d \in Dataset :
           LET old == row[Original(d)] new == row'[Original(d)]
           IN old # None /\ new # None /\ old.generated =>
                  new.pid = old.pid /\ new.generated]_vars
  BY <1>1
<1> QED BY <1>2, Invariance, PTL DEF Spec, GeneratedPidIsKept
=============================================================================
