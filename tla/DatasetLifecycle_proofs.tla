------------------------ MODULE DatasetLifecycle_proofs ------------------------
(* What is proved of DatasetLifecycle for any set of datasets and files. *)
EXTENDS DatasetLifecycle, FiniteSetTheorems, TLAPS

\* A version set is named by a dataset that has been used, rows are created one
\* after another, and only published rows are removed.
RowsAreCreatedInTurn ==
    /\ \A d \in Rows :
           /\ versions[d] \in Dataset
           /\ state[versions[d]] # "unused"
           /\ created[d] <= clock
    /\ \A d, e \in Rows : created[d] = created[e] => d = e
    /\ \A d \in Dataset : removed[d] => state[d] \in {"published", "flushed"}

\* LinkedDraftsHaveTheirOriginal row by row.
LinkedDrafts ==
    /\ \A d \in Rows : draftOf[d] # None =>
           /\ state[d] = "draft"
           /\ state[draftOf[d]] = "published"
           /\ ~removed[draftOf[d]]
           /\ versions[draftOf[d]] = versions[d]
    /\ \A d, e \in Rows : draftOf[d] # None /\ draftOf[d] = draftOf[e] => d = e

-----------------------------------------------------------------------------
(* Types. *)

\* The numbers update_dataset_order computes are natural numbers: the rows a
\* row is numbered by are datasets, of which there are finitely many.
LEMMA OrdersAreNumbers == \A d \in Dataset : VersionOrder(d)' \in Nat
<1> TAKE d \in Dataset
<1>1. OlderVersions(d)' \subseteq Dataset
  BY DEF OlderVersions, IndependentVersions, Rows
<1>2. Cardinality(OlderVersions(d)') \in Nat
  BY <1>1, DatasetsAreFinite, FS_Subset, FS_CardinalityType
<1> QED BY <1>2 DEF VersionOrder

\* Whatever the step does, renumbering a version set keeps order a function to Nat.
LEMMA RenumberingKeepsType ==
    ASSUME NEW v, order \in [Dataset -> Nat], UpdateDatasetOrder(v)
    PROVE  order' \in [Dataset -> Nat]
BY OrdersAreNumbers DEF UpdateDatasetOrder

LEMMA AddRowKeepsType ==
    ASSUME TypeOK,
           NEW d \in Dataset, NEW st \in {"draft", "published"},
           NEW original \in Dataset \cup {None}, NEW v \in Dataset \cup {None},
           NEW c \in CumulativeState, NEW fs \in SUBSET File,
           AddRow(d, st, original, v, c, fs), order' \in [Dataset -> Nat]
    PROVE  TypeOK'
<1>1. /\ state' \in [Dataset -> DatasetState]
      /\ draftOf' \in [Dataset -> Dataset \cup {None}]
      /\ versions' \in [Dataset -> Dataset \cup {None}]
  BY DEF TypeOK, AddRow, DatasetState
<1>2. created' \in [Dataset -> Nat] /\ clock' \in Nat
  BY DEF TypeOK, AddRow
<1>3. cumulative' \in [Dataset -> CumulativeState] /\ files' \in [Dataset -> SUBSET File]
  BY DEF TypeOK, AddRow
<1>4. UNCHANGED << removed, deprecated, fileState >>
  BY DEF AddRow
<1> QED BY <1>1, <1>2, <1>3, <1>4 DEF TypeOK

LEMMA DeleteRowsKeepsType ==
    ASSUME TypeOK, NEW ds, DeleteRows(ds)
    PROVE  /\ state' \in [Dataset -> DatasetState]
           /\ draftOf' \in [Dataset -> Dataset \cup {None}]
           /\ versions' \in [Dataset -> Dataset \cup {None}]
           /\ files' \in [Dataset -> SUBSET File]
BY DEF TypeOK, DeleteRows, DatasetState

LEMMA CopyIsCumulativeState ==
    ASSUME TypeOK, NEW p \in Dataset
    PROVE  CumulativeOfCopy(p) \in CumulativeState
BY DEF TypeOK, CumulativeOfCopy, CumulativeState

LEMMA TypeOKStep == TypeOK /\ [Next]_vars => TypeOK'
<1> SUFFICES ASSUME TypeOK, [Next]_vars PROVE TypeOK' OBVIOUS
<1>1. ASSUME NEW d \in Dataset, NEW st \in {"draft", "published"},
             NEW c \in CumulativeState, NEW fs \in SUBSET File,
             CreateDataset(d, st, c, fs)
      PROVE  TypeOK'
  <2>1. order' \in [Dataset -> Nat]
    BY <1>1 DEF CreateDataset, TypeOK
  <2> QED BY <1>1, <2>1, AddRowKeepsType DEF CreateDataset
<1>2. ASSUME NEW d \in Dataset, NEW added \in SUBSET File, NEW dropped \in SUBSET File,
             NEW c \in CumulativeState, UpdateDataset(d, added, dropped, c)
      PROVE  TypeOK'
  BY <1>2 DEF UpdateDataset, TypeOK
<1>3. ASSUME NEW d \in Dataset, PublishDataset(d) PROVE TypeOK'
  BY <1>3 DEF PublishDataset, TypeOK, DatasetState
<1>4. ASSUME NEW d \in Dataset, MergeDraft(d) PROVE TypeOK'
  BY <1>4 DEF MergeDraft, TypeOK, DatasetState
<1>5. ASSUME NEW p \in Dataset, NEW d \in Dataset, CreateNewVersion(p, d) PROVE TypeOK'
  <2>1. order' \in [Dataset -> Nat]
    BY <1>5, RenumberingKeepsType DEF CreateNewVersion, TypeOK
  <2>2. versions[p] \in Dataset \cup {None} /\ AvailableFiles(p) \in SUBSET File
    BY DEF TypeOK, AvailableFiles
  <2> QED
    BY <1>5, <2>1, <2>2, AddRowKeepsType, CopyIsCumulativeState DEF CreateNewVersion
<1>6. ASSUME NEW p \in Dataset, NEW d \in Dataset, CreateNewDraft(p, d) PROVE TypeOK'
  <2>1. order' \in [Dataset -> Nat]
    BY <1>6, RenumberingKeepsType DEF CreateNewDraft, TypeOK
  <2>2. versions[p] \in Dataset \cup {None} /\ AvailableFiles(p) \in SUBSET File
    BY DEF TypeOK, AvailableFiles
  <2> QED
    BY <1>6, <2>1, <2>2, AddRowKeepsType, CopyIsCumulativeState DEF CreateNewDraft
<1>7. ASSUME NEW d \in Dataset, DeleteDraft(d) PROVE TypeOK'
  BY <1>7, DeleteRowsKeepsType DEF DeleteDraft, TypeOK
<1>8. ASSUME NEW d \in Dataset, DeletePublished(d) PROVE TypeOK'
  BY <1>8, DeleteRowsKeepsType, RenumberingKeepsType DEF DeletePublished, TypeOK
<1>9. ASSUME NEW d \in Dataset, FlushDataset(d) PROVE TypeOK'
  BY <1>9, DeleteRowsKeepsType DEF FlushDataset, TypeOK
<1>10. ASSUME NEW d \in Dataset, RestoreDataset(d) PROVE TypeOK'
  BY <1>10 DEF RestoreDataset, TypeOK
<1>11. ASSUME NEW f \in File, DeleteFile(f) PROVE TypeOK'
  <2>1. deprecated' \in [Dataset -> BOOLEAN]
    BY <1>11, Zenon DEF DeleteFile, DeprecateDatasets, TypeOK
  <2> QED BY <1>11, <2>1 DEF DeleteFile, TypeOK
<1>12. ASSUME NEW f \in File, FlushFile(f) PROVE TypeOK'
  <2>1. deprecated' \in [Dataset -> BOOLEAN]
    BY <1>12, Zenon DEF FlushFile, DeprecateDatasets, TypeOK
  <2>2. files' \in [Dataset -> SUBSET File]
    BY <1>12 DEF FlushFile, TypeOK
  <2> QED BY <1>12, <2>1, <2>2 DEF FlushFile, TypeOK
<1>13. CASE UNCHANGED vars
  BY <1>13 DEF vars, TypeOK
<1> QED
  BY <1>1, <1>2, <1>3, <1>4, <1>5, <1>6, <1>7, <1>8, <1>9, <1>10, <1>11, <1>12, <1>13
     DEF Next, DatasetRequest, FileRequest

LEMMA InitIsTyped == Init => TypeOK
BY DEF Init, TypeOK, DatasetState, CumulativeState

\* Every request leaves every row with values the model fields allow.
THEOREM TypeCorrect == Spec => []TypeOK
BY InitIsTyped, TypeOKStep, PTL DEF Spec

-----------------------------------------------------------------------------
(* Rows are created one after another, each in a version set named by a       *)
(* dataset which is not a new one.                                            *)

LEMMA AddRowCreatesInTurn ==
    ASSUME TypeOK, RowsAreCreatedInTurn,
           NEW d \in Dataset, NEW st \in {"draft", "published"},
           NEW original, NEW v \in Dataset, NEW c, NEW fs,
           v = d \/ state[v] # "unused",
           AddRow(d, st, original, v, c, fs)
    PROVE  RowsAreCreatedInTurn'
<1>1. Rows' = Rows \cup {d} /\ d \notin Rows
  BY DEF TypeOK, AddRow, Rows
<1>2. ASSUME NEW e \in Rows'
      PROVE  versions'[e] \in Dataset /\ state'[versions'[e]] # "unused" /\ created'[e] <= clock'
  <2>1. CASE e = d
    BY <2>1 DEF TypeOK, AddRow
  <2>2. CASE e \in Rows
    BY <1>1, <2>2 DEF TypeOK, AddRow, RowsAreCreatedInTurn, Rows
  <2> QED BY <1>1, <2>1, <2>2
<1>3. ASSUME NEW e \in Rows', NEW g \in Rows', created'[e] = created'[g]
      PROVE  e = g
  <2>1. \A x \in Rows : created'[x] = created[x] /\ created[x] \in Nat /\ created[x] <= clock
    BY <1>1 DEF TypeOK, AddRow, RowsAreCreatedInTurn, Rows
  <2>2. created'[d] = clock + 1 /\ clock \in Nat
    BY DEF TypeOK, AddRow
  <2>3. \A x \in Rows : created'[x] # created'[d]
    BY <2>1, <2>2
  <2> QED BY <1>1, <1>3, <2>1, <2>3 DEF RowsAreCreatedInTurn
<1>4. ASSUME NEW e \in Dataset, removed'[e] PROVE state'[e] \in {"published", "flushed"}
  BY <1>4 DEF TypeOK, AddRow, RowsAreCreatedInTurn
<1> QED BY <1>2, <1>3, <1>4 DEF RowsAreCreatedInTurn

\* Steps that create no row keep the version set and creation time of those left.
LEMMA RowsLeftStayInTurn ==
    ASSUME TypeOK, RowsAreCreatedInTurn,
           Rows' \subseteq Rows,
           \A d \in Rows' : versions'[d] = versions[d],
           \A d \in Dataset : state[d] # "unused" => state'[d] # "unused",
           \A d \in Dataset : removed'[d] => state'[d] \in {"published", "flushed"},
           UNCHANGED << created, clock >>
    PROVE  RowsAreCreatedInTurn'
BY DEF RowsAreCreatedInTurn, Rows

LEMMA TurnStep == TypeOK /\ RowsAreCreatedInTurn /\ LinkedDrafts /\ [Next]_vars
                  => RowsAreCreatedInTurn'
<1> SUFFICES ASSUME TypeOK, RowsAreCreatedInTurn, LinkedDrafts, [Next]_vars
             PROVE  RowsAreCreatedInTurn'
  OBVIOUS
<1>1. ASSUME NEW d \in Dataset, NEW st \in {"draft", "published"},
             NEW c \in CumulativeState, NEW fs \in SUBSET File,
             CreateDataset(d, st, c, fs)
      PROVE  RowsAreCreatedInTurn'
  BY <1>1, AddRowCreatesInTurn DEF CreateDataset
<1>2. ASSUME NEW d \in Dataset, NEW added \in SUBSET File, NEW dropped \in SUBSET File,
             NEW c \in CumulativeState, UpdateDataset(d, added, dropped, c)
      PROVE  RowsAreCreatedInTurn'
  BY <1>2 DEF UpdateDataset, RowsAreCreatedInTurn, Rows
<1>3. ASSUME NEW d \in Dataset, PublishDataset(d) PROVE RowsAreCreatedInTurn'
  <2>1. Rows' = Rows /\ \A e \in Dataset : state[e] # "unused" => state'[e] # "unused"
    BY <1>3 DEF PublishDataset, TypeOK, Rows
  <2>2. \A e \in Dataset : removed'[e] => state'[e] \in {"published", "flushed"}
    BY <1>3 DEF PublishDataset, TypeOK, RowsAreCreatedInTurn
  <2> QED BY <1>3, <2>1, <2>2, RowsLeftStayInTurn DEF PublishDataset
<1>4. ASSUME NEW d \in Dataset, MergeDraft(d) PROVE RowsAreCreatedInTurn'
  <2>1. d \in Rows /\ draftOf[d] \in Dataset /\ state[draftOf[d]] = "published"
    BY <1>4 DEF MergeDraft, Rows, TypeOK, LinkedDrafts
  <2>2. /\ Rows' \subseteq Rows
        /\ \A e \in Rows' : versions'[e] = versions[e]
        /\ \A e \in Dataset : state[e] # "unused" => state'[e] # "unused"
    BY <1>4, <2>1 DEF MergeDraft, Rows, TypeOK
  <2>3. \A e \in Dataset : removed'[e] => state'[e] \in {"published", "flushed"}
    BY <1>4, <2>1 DEF MergeDraft, TypeOK, RowsAreCreatedInTurn
  <2> QED BY <1>4, <2>2, <2>3, RowsLeftStayInTurn DEF MergeDraft
<1>5. ASSUME NEW p \in Dataset, NEW d \in Dataset, CreateNewVersion(p, d)
      PROVE  RowsAreCreatedInTurn'
  <2>1. versions[p] \in Dataset /\ state[versions[p]] # "unused"
    BY <1>5 DEF CreateNewVersion, RowsAreCreatedInTurn, Rows
  <2> QED BY <1>5, <2>1, AddRowCreatesInTurn DEF CreateNewVersion
<1>6. ASSUME NEW p \in Dataset, NEW d \in Dataset, CreateNewDraft(p, d)
      PROVE  RowsAreCreatedInTurn'
  <2>1. versions[p] \in Dataset /\ state[versions[p]] # "unused"
    BY <1>6 DEF CreateNewDraft, RowsAreCreatedInTurn, Rows
  <2> QED BY <1>6, <2>1, AddRowCreatesInTurn DEF CreateNewDraft
<1>7. ASSUME NEW ds \in SUBSET Dataset, DeleteRows(ds), UNCHANGED << created, clock >>,
             \A e \in Dataset : removed'[e] => removed[e] \/ state'[e] \in {"published", "flushed"}
      PROVE  RowsAreCreatedInTurn'
  <2>1. /\ Rows' \subseteq Rows
        /\ \A e \in Rows' : versions'[e] = versions[e]
        /\ \A e \in Dataset : state[e] # "unused" => state'[e] # "unused"
    BY <1>7 DEF DeleteRows, Rows
  <2>2. \A e \in Dataset : state'[e] = state[e] \/ state'[e] = "flushed"
    BY <1>7 DEF DeleteRows
  <2>3. \A e \in Dataset : removed'[e] => state'[e] \in {"published", "flushed"}
    BY <1>7, <2>2 DEF RowsAreCreatedInTurn
  <2> QED BY <1>7, <2>1, <2>3, RowsLeftStayInTurn
<1>8. ASSUME NEW d \in Dataset, DeleteDraft(d) \/ FlushDataset(d)
      PROVE  RowsAreCreatedInTurn'
  <2>1. PICK ds \in SUBSET Dataset : DeleteRows(ds)
    BY <1>8 DEF DeleteDraft, FlushDataset, NextDrafts, Rows
  <2> QED BY <1>7, <1>8, <2>1 DEF DeleteDraft, FlushDataset
<1>9. ASSUME NEW d \in Dataset, DeletePublished(d) PROVE RowsAreCreatedInTurn'
  <2>1. NextDrafts(d) \in SUBSET Dataset /\ DeleteRows(NextDrafts(d))
    BY <1>9 DEF DeletePublished, NextDrafts, Rows
  <2>2. state'[d] \in {"published", "flushed"}
    BY <1>9, <2>1 DEF DeletePublished, DeleteRows
  <2>3. \A e \in Dataset : removed'[e] => removed[e] \/ e = d
    BY <1>9 DEF DeletePublished, TypeOK
  <2> QED BY <1>7, <1>9, <2>1, <2>2, <2>3 DEF DeletePublished
<1>10. ASSUME NEW d \in Dataset, RestoreDataset(d) PROVE RowsAreCreatedInTurn'
  <2>1. \A e \in Dataset : removed'[e] => removed[e]
    BY <1>10 DEF RestoreDataset, TypeOK
  <2> QED BY <1>10, <2>1 DEF RestoreDataset, RowsAreCreatedInTurn, Rows
<1>11. ASSUME NEW f \in File, DeleteFile(f) \/ FlushFile(f) PROVE RowsAreCreatedInTurn'
  BY <1>11 DEF DeleteFile, FlushFile, RowsAreCreatedInTurn, Rows
<1>12. CASE UNCHANGED vars
  BY <1>12 DEF vars, RowsAreCreatedInTurn, Rows
<1> QED
  BY <1>1, <1>2, <1>3, <1>4, <1>5, <1>6, <1>8, <1>9, <1>10, <1>11, <1>12
     DEF Next, DatasetRequest, FileRequest

-----------------------------------------------------------------------------
(* Linked drafts and their originals.                                        *)

\* A step that creates no row and neither moves, removes nor deletes an original
\* whose draft it leaves.
LEMMA LinkedRowsLeft ==
    ASSUME LinkedDrafts,
           Rows' \subseteq Rows,
           \A d \in Rows' : draftOf'[d] = draftOf[d] /\ versions'[d] = versions[d],
           \A d \in Rows' : draftOf[d] # None =>
               /\ state'[d] = state[d]
               /\ draftOf[d] \in Rows'
               /\ state'[draftOf[d]] = state[draftOf[d]]
               /\ removed'[draftOf[d]] => removed[draftOf[d]]
    PROVE  LinkedDrafts'
BY DEF LinkedDrafts

\* A new row is linked to a published dataset without a draft, or not at all.
LEMMA AddRowLinks ==
    ASSUME TypeOK, LinkedDrafts,
           NEW d \in Dataset, NEW st \in {"draft", "published"},
           NEW original \in Dataset \cup {None}, NEW v, NEW c, NEW fs,
           AddRow(d, st, original, v, c, fs),
           original # None => /\ st = "draft"
                              /\ state[original] = "published"
                              /\ ~removed[original]
                              /\ versions[original] = v
                              /\ NextDrafts(original) = {}
    PROVE  LinkedDrafts'
<1>1. Rows' = Rows \cup {d} /\ d \notin Rows
  BY DEF TypeOK, AddRow, Rows
<1>2. \A e \in Rows : /\ state'[e] = state[e]
                      /\ draftOf'[e] = draftOf[e]
                      /\ versions'[e] = versions[e]
                      /\ removed'[e] = removed[e]
  BY <1>1 DEF TypeOK, AddRow
<1>3. /\ state'[d] = st
      /\ draftOf'[d] = original
      /\ versions'[d] = v
  BY DEF TypeOK, AddRow
<1>4. \A e \in Rows : draftOf[e] # None => draftOf[e] \in Rows
  BY DEF LinkedDrafts, Rows, TypeOK
<1>5. original # None => original \in Rows
  BY DEF Rows
<1>6. ASSUME NEW e \in Rows', draftOf'[e] # None
      PROVE  /\ state'[e] = "draft"
             /\ state'[draftOf'[e]] = "published"
             /\ ~removed'[draftOf'[e]]
             /\ versions'[draftOf'[e]] = versions'[e]
  <2>1. CASE e = d
    BY <1>2, <1>3, <1>5, <1>6, <2>1
  <2>2. CASE e \in Rows
    BY <1>2, <1>4, <1>6, <2>2 DEF LinkedDrafts
  <2> QED BY <1>1, <2>1, <2>2
<1>7. ASSUME NEW e \in Rows', NEW g \in Rows', draftOf'[e] # None, draftOf'[e] = draftOf'[g]
      PROVE  e = g
  <2>1. original # None => \A x \in Rows : draftOf[x] # original
    BY DEF NextDrafts
  <2> QED BY <1>1, <1>2, <1>3, <1>7, <2>1 DEF LinkedDrafts
<1> QED BY <1>6, <1>7 DEF LinkedDrafts

LEMMA LinkedStep == TypeOK /\ LinkedDrafts /\ [Next]_vars => LinkedDrafts'
<1> SUFFICES ASSUME TypeOK, LinkedDrafts, [Next]_vars PROVE LinkedDrafts' OBVIOUS
<1>0. \A e \in Rows : draftOf[e] # None => draftOf[e] \in Rows
  BY DEF LinkedDrafts, Rows, TypeOK
<1>1. ASSUME NEW d \in Dataset, NEW st \in {"draft", "published"},
             NEW c \in CumulativeState, NEW fs \in SUBSET File,
             CreateDataset(d, st, c, fs)
      PROVE  LinkedDrafts'
  BY <1>1, AddRowLinks DEF CreateDataset
<1>2. ASSUME NEW d \in Dataset, NEW added \in SUBSET File, NEW dropped \in SUBSET File,
             NEW c \in CumulativeState, UpdateDataset(d, added, dropped, c)
      PROVE  LinkedDrafts'
  BY <1>2 DEF UpdateDataset, LinkedDrafts, Rows
<1>3. ASSUME NEW d \in Dataset, PublishDataset(d) PROVE LinkedDrafts'
  <2>1. /\ Rows' = Rows
        /\ UNCHANGED << draftOf, versions, removed >>
        /\ \A e \in Dataset : e # d => state'[e] = state[e]
    BY <1>3 DEF PublishDataset, TypeOK, Rows
  <2>2. \A e \in Rows : draftOf[e] # None => e # d /\ draftOf[e] # d
    BY <1>3 DEF PublishDataset, LinkedDrafts
  <2> QED BY <1>0, <2>1, <2>2, LinkedRowsLeft DEF TypeOK, Rows
<1>4. ASSUME NEW d \in Dataset, MergeDraft(d) PROVE LinkedDrafts'
  <2>1. /\ d \in Rows
        /\ draftOf[d] \in Dataset \ {d}
        /\ Rows' = Rows \ {d}
    BY <1>4 DEF MergeDraft, Rows, TypeOK, LinkedDrafts
  <2>2. \A e \in Rows' : /\ draftOf'[e] = draftOf[e]
                         /\ versions'[e] = versions[e]
                         /\ state'[e] = state[e]
    BY <1>4, <2>1 DEF MergeDraft, TypeOK, Rows
  <2>3. \A e \in Rows' : draftOf[e] # None =>
            draftOf[e] \in Rows' /\ draftOf[e] # draftOf[d]
    BY <1>0, <1>4, <2>1 DEF LinkedDrafts, MergeDraft
  <2>4. \A e \in Dataset : e # draftOf[d] => removed'[e] = removed[e]
    BY <1>4, <2>1 DEF MergeDraft, TypeOK
  <2> QED BY <2>1, <2>2, <2>3, <2>4, LinkedRowsLeft DEF Rows
<1>5. ASSUME NEW p \in Dataset, NEW d \in Dataset, CreateNewVersion(p, d)
      PROVE  LinkedDrafts'
  BY <1>5, AddRowLinks DEF CreateNewVersion
<1>6. ASSUME NEW p \in Dataset, NEW d \in Dataset, CreateNewDraft(p, d)
      PROVE  LinkedDrafts'
  BY <1>6, AddRowLinks DEF CreateNewDraft
<1>7. ASSUME NEW ds \in SUBSET Dataset, DeleteRows(ds),
             \A e \in Rows : draftOf[e] \in ds => e \in ds,
             \A e \in Dataset : removed'[e] => removed[e] \/ NextDrafts(e) \subseteq ds
      PROVE  LinkedDrafts'
  <2>1. Rows' = Rows \ ds
    BY <1>7 DEF DeleteRows, Rows
  <2>2. \A e \in Rows' : /\ draftOf'[e] = draftOf[e]
                         /\ versions'[e] = versions[e]
                         /\ state'[e] = state[e]
    BY <1>7, <2>1 DEF DeleteRows, Rows
  <2>3. \A e \in Rows' : draftOf[e] # None =>
            draftOf[e] \in Rows' /\ ~ NextDrafts(draftOf[e]) \subseteq ds
    BY <1>0, <1>7, <2>1 DEF NextDrafts
  <2> QED BY <1>7, <2>1, <2>2, <2>3, LinkedRowsLeft DEF Rows
<1>8. ASSUME NEW d \in Dataset, DeleteDraft(d) PROVE LinkedDrafts'
  <2>1. \A e \in Rows : draftOf[e] # d
    BY <1>8, NoneIsNoDataset DEF DeleteDraft, LinkedDrafts
  <2> QED BY <1>7, <1>8, <2>1 DEF DeleteDraft
<1>9. ASSUME NEW d \in Dataset, DeletePublished(d) PROVE LinkedDrafts'
  <2>1. NextDrafts(d) \in SUBSET Dataset /\ DeleteRows(NextDrafts(d))
    BY <1>9 DEF DeletePublished, NextDrafts, Rows
  <2>2. \A e \in Rows : draftOf[e] \notin NextDrafts(d)
    BY NoneIsNoDataset DEF LinkedDrafts, NextDrafts, Rows
  <2>3. \A e \in Dataset : removed'[e] => removed[e] \/ e = d
    BY <1>9 DEF DeletePublished, TypeOK
  <2> QED BY <1>7, <2>1, <2>2, <2>3
<1>10. ASSUME NEW d \in Dataset, FlushDataset(d) PROVE LinkedDrafts'
  <2> DEFINE ds == {d} \cup NextDrafts(d)
  <2>1. ds \in SUBSET Dataset /\ DeleteRows(ds)
    BY <1>10 DEF FlushDataset, NextDrafts, Rows
  <2>2. \A e \in Rows : draftOf[e] \in ds => e \in ds
    BY NoneIsNoDataset DEF LinkedDrafts, NextDrafts, Rows
  <2>3. removed' = removed
    BY <1>10 DEF FlushDataset
  <2> HIDE DEF ds
  <2> QED BY <1>7, <2>1, <2>2, <2>3
<1>11. ASSUME NEW d \in Dataset, RestoreDataset(d) PROVE LinkedDrafts'
  <2>1. \A e \in Dataset : removed'[e] => removed[e]
    BY <1>11 DEF RestoreDataset, TypeOK
  <2> QED BY <1>0, <1>11, <2>1, LinkedRowsLeft DEF RestoreDataset, Rows
<1>12. ASSUME NEW f \in File, DeleteFile(f) \/ FlushFile(f) PROVE LinkedDrafts'
  BY <1>12 DEF DeleteFile, FlushFile, LinkedDrafts, Rows
<1>13. CASE UNCHANGED vars
  BY <1>13 DEF vars, LinkedDrafts, Rows
<1> QED
  BY <1>1, <1>2, <1>3, <1>4, <1>5, <1>6, <1>8, <1>9, <1>10, <1>11, <1>12, <1>13
     DEF Next, DatasetRequest, FileRequest

-----------------------------------------------------------------------------
(* The order of version sets.                                                *)

\* One more element makes a larger subset of the datasets.
LEMMA OneMore ==
    ASSUME NEW S \in SUBSET Dataset, NEW T \in SUBSET Dataset, NEW x \in T \ S,
           S \subseteq T
    PROVE  Cardinality(S) \in Nat /\ Cardinality(T) \in Nat /\ Cardinality(S) + 1 <= Cardinality(T)
<1>1. IsFiniteSet(S) /\ IsFiniteSet(T) /\ IsFiniteSet(S \cup {x})
  BY DatasetsAreFinite, FS_Subset, FS_AddElement
<1>2. Cardinality(S \cup {x}) = Cardinality(S) + 1
  BY <1>1, FS_AddElement
<1>3. Cardinality(S \cup {x}) <= Cardinality(T)
  BY <1>1, FS_Subset
<1> QED BY <1>1, <1>2, <1>3, FS_CardinalityType

\* Where the rows of the set just renumbered stand, in the state the step ends in.
LEMMA RenumberedSetIsOrdered ==
    ASSUME TypeOK', RowsAreCreatedInTurn', LinkedDrafts',
           NEW v, UpdateDatasetOrder(v),
           NEW d \in Rows', versions'[d] = v
    PROVE  IF draftOf'[d] # None THEN order'[d] = order'[draftOf'[d]] + 1
           ELSE \A e \in IndependentVersions(versions[d])' :
                    created'[d] < created'[e] => order'[d] + 1 < order'[e]
<1>1. \A x \in Rows' : versions'[x] = v => order'[x] = VersionOrder(x)'
  BY DEF UpdateDatasetOrder, Rows
<1>2. ASSUME draftOf'[d] # None
      PROVE  order'[d] = order'[draftOf'[d]] + 1
  <2>0. PICK p \in Dataset : p = draftOf'[d]
    BY <1>2 DEF TypeOK, Rows
  <2>1. p \in Rows' /\ versions'[p] = v /\ draftOf'[p] = None
    BY <1>2, <2>0 DEF LinkedDrafts, Rows, TypeOK
  <2>2. OlderVersions(d)' = OlderVersions(p)'
    BY <1>2, <2>0, <2>1 DEF OlderVersions, IndependentVersions
  <2>3. OlderVersions(p)' \subseteq Dataset
    BY DEF OlderVersions, IndependentVersions, Rows
  <2>4. Cardinality(OlderVersions(p)') \in Nat
    BY <2>3, DatasetsAreFinite, FS_Subset, FS_CardinalityType
  <2>5. order'[p] = 2 * Cardinality(OlderVersions(p)')
    BY <1>1, <2>1, <2>4 DEF VersionOrder
  <2>6. order'[d] = 2 * Cardinality(OlderVersions(p)') + 1
    BY <1>1, <1>2, <2>2 DEF VersionOrder
  <2> QED BY <2>0, <2>4, <2>5, <2>6
<1>3. ASSUME draftOf'[d] = None,
             NEW e \in IndependentVersions(versions[d])', created'[d] < created'[e]
      PROVE  order'[d] + 1 < order'[e]
  <2>1. e \in Rows' /\ versions'[e] = v /\ draftOf'[e] = None
    BY <1>3 DEF IndependentVersions
  <2>2. /\ OlderVersions(d)' \in SUBSET Dataset
        /\ OlderVersions(e)' \in SUBSET Dataset
    BY DEF OlderVersions, IndependentVersions, Rows
  <2>3. d \in OlderVersions(e)' \ OlderVersions(d)'
    BY <1>3, <2>1 DEF OlderVersions, IndependentVersions, TypeOK, Rows
  <2>4. OlderVersions(d)' \subseteq OlderVersions(e)'
    BY <1>3, <2>1 DEF OlderVersions, IndependentVersions, TypeOK, Rows
  <2>5. /\ Cardinality(OlderVersions(d)') \in Nat
        /\ Cardinality(OlderVersions(e)') \in Nat
        /\ Cardinality(OlderVersions(d)') + 1 <= Cardinality(OlderVersions(e)')
    BY <2>2, <2>3, <2>4, OneMore
  <2>6. /\ order'[d] = 2 * Cardinality(OlderVersions(d)')
        /\ order'[e] = 2 * Cardinality(OlderVersions(e)')
    BY <1>1, <1>3, <2>1, <2>5 DEF VersionOrder
  <2> QED BY <2>5, <2>6
<1> QED BY <1>2, <1>3

\* A step that keeps the rows of a version set it leaves, and their numbers,
\* keeps their order.
LEMMA OtherSetsStayOrdered ==
    ASSUME TypeOK', LinkedDrafts', OrderFollowsCreation,
           NEW d \in Rows',
           \A e \in Rows' : versions'[e] = versions'[d] =>
               /\ e \in Rows
               /\ draftOf'[e] = draftOf[e]
               /\ versions'[e] = versions[e]
               /\ created'[e] = created[e]
               /\ order'[e] = order[e]
    PROVE  IF draftOf'[d] # None THEN order'[d] = order'[draftOf'[d]] + 1
           ELSE \A e \in IndependentVersions(versions[d])' :
                    created'[d] < created'[e] => order'[d] + 1 < order'[e]
<1>1. ASSUME draftOf'[d] # None
      PROVE  order'[d] = order'[draftOf'[d]] + 1
  <2>1. draftOf'[d] \in Rows' /\ versions'[draftOf'[d]] = versions'[d]
    BY <1>1 DEF LinkedDrafts, Rows, TypeOK
  <2> QED BY <1>1, <2>1 DEF OrderFollowsCreation
<1>2. ASSUME draftOf'[d] = None,
             NEW e \in IndependentVersions(versions[d])', created'[d] < created'[e]
      PROVE  order'[d] + 1 < order'[e]
  <2>1. e \in Rows' /\ versions'[e] = versions'[d] /\ draftOf'[e] = None
    BY <1>2 DEF IndependentVersions
  <2> QED BY <1>2, <2>1 DEF OrderFollowsCreation, IndependentVersions
<1> QED BY <1>1, <1>2

LEMMA OrderStep == /\ TypeOK /\ RowsAreCreatedInTurn /\ LinkedDrafts /\ OrderFollowsCreation
                   /\ TypeOK' /\ RowsAreCreatedInTurn' /\ LinkedDrafts'
                   /\ [Next]_vars
                   => OrderFollowsCreation'
<1> SUFFICES ASSUME TypeOK, RowsAreCreatedInTurn, LinkedDrafts, OrderFollowsCreation,
                    TypeOK', RowsAreCreatedInTurn', LinkedDrafts', [Next]_vars
             PROVE  OrderFollowsCreation'
  OBVIOUS
<1> DEFINE Kept(x) == /\ x \in Rows
                      /\ draftOf'[x] = draftOf[x]
                      /\ versions'[x] = versions[x]
                      /\ created'[x] = created[x]
                      /\ order'[x] = order[x]
<1>1. ASSUME NEW v, \A x \in Rows' : versions'[x] = v \/ Kept(x), UpdateDatasetOrder(v)
      PROVE  OrderFollowsCreation'
  <2>1. ASSUME NEW x \in Rows', versions'[x] = v
        PROVE  IF draftOf'[x] # None THEN order'[x] = order'[draftOf'[x]] + 1
               ELSE \A e \in IndependentVersions(versions[x])' :
                        created'[x] < created'[e] => order'[x] + 1 < order'[e]
    BY <1>1, <2>1, RenumberedSetIsOrdered
  <2>2. ASSUME NEW x \in Rows', versions'[x] # v
        PROVE  IF draftOf'[x] # None THEN order'[x] = order'[draftOf'[x]] + 1
               ELSE \A e \in IndependentVersions(versions[x])' :
                        created'[x] < created'[e] => order'[x] + 1 < order'[e]
    BY <1>1, <2>2, OtherSetsStayOrdered
  <2> QED BY <2>1, <2>2 DEF OrderFollowsCreation
<1>2. ASSUME \A x \in Rows' : Kept(x) PROVE OrderFollowsCreation'
  BY <1>2, OtherSetsStayOrdered DEF OrderFollowsCreation
<1>3. ASSUME NEW d \in Dataset, NEW st \in {"draft", "published"},
             NEW c \in CumulativeState, NEW fs \in SUBSET File,
             CreateDataset(d, st, c, fs)
      PROVE  OrderFollowsCreation'
  <2>1. d \notin Rows /\ Rows' = Rows \cup {d} /\ versions'[d] = d /\ draftOf'[d] = None
    BY <1>3 DEF CreateDataset, AddRow, Rows, TypeOK
  <2>2. \A x \in Rows : Kept(x) /\ versions'[x] # d
    BY <1>3, <2>1 DEF CreateDataset, AddRow, TypeOK, RowsAreCreatedInTurn, Rows
  <2>3. ASSUME NEW x \in Rows
        PROVE  IF draftOf'[x] # None THEN order'[x] = order'[draftOf'[x]] + 1
               ELSE \A e \in IndependentVersions(versions[x])' :
                        created'[x] < created'[e] => order'[x] + 1 < order'[e]
    BY <2>1, <2>2, OtherSetsStayOrdered
  <2>4. \A e \in IndependentVersions(versions[d])' : ~ created'[d] < created'[e]
    BY <2>1, <2>2 DEF IndependentVersions, TypeOK
  <2> QED BY <2>1, <2>3, <2>4 DEF OrderFollowsCreation
<1>4. ASSUME NEW p \in Dataset, NEW d \in Dataset,
             CreateNewVersion(p, d) \/ CreateNewDraft(p, d)
      PROVE  OrderFollowsCreation'
  <2>1. PICK original \in {None, p}, c \in CumulativeState, fs \in SUBSET File :
            AddRow(d, "draft", original, versions[p], c, fs) /\ UpdateDatasetOrder(versions[p])
    <3>1. AvailableFiles(p) \in SUBSET File
      BY DEF AvailableFiles, Stored
    <3>2. CumulativeOfCopy(p) \in CumulativeState
      BY DEF CumulativeOfCopy, CumulativeState, TypeOK
    <3> QED BY <1>4, <3>1, <3>2 DEF CreateNewVersion, CreateNewDraft
  <2>2. Rows' = Rows \cup {d} /\ d \notin Rows /\ versions'[d] = versions[p]
    BY <2>1 DEF AddRow, Rows, TypeOK
  <2>3. \A x \in Rows : versions'[x] = versions[p] \/ Kept(x)
    BY <2>1, <2>2 DEF AddRow, TypeOK, UpdateDatasetOrder, Rows
  <2> QED BY <1>1, <2>1, <2>2, <2>3
<1>5. ASSUME NEW ds \in SUBSET Dataset, DeleteRows(ds), UNCHANGED created
      PROVE  /\ Rows' \subseteq Rows
             /\ \A x \in Rows' : /\ draftOf'[x] = draftOf[x]
                                 /\ versions'[x] = versions[x]
                                 /\ created'[x] = created[x]
  BY <1>5 DEF DeleteRows, Rows
<1>6. ASSUME NEW d \in Dataset, DeletePublished(d) PROVE OrderFollowsCreation'
  <2>1. NextDrafts(d) \in SUBSET Dataset
    BY DEF NextDrafts, Rows
  <2>2. \A x \in Rows' : versions'[x] = versions[d] \/ Kept(x)
    BY <1>5, <1>6, <2>1 DEF DeletePublished, UpdateDatasetOrder, Rows
  <2> QED BY <1>1, <1>6, <2>2 DEF DeletePublished
<1>7. ASSUME NEW d \in Dataset, DeleteDraft(d) \/ FlushDataset(d) PROVE OrderFollowsCreation'
  <2>1. PICK ds \in SUBSET Dataset : DeleteRows(ds)
    BY <1>7 DEF DeleteDraft, FlushDataset, NextDrafts, Rows
  <2> QED BY <1>2, <1>5, <1>7, <2>1 DEF DeleteDraft, FlushDataset
<1>8. ASSUME NEW d \in Dataset, MergeDraft(d) PROVE OrderFollowsCreation'
  <2>1. \A x \in Rows' : Kept(x)
    BY <1>8 DEF MergeDraft, Rows, TypeOK
  <2> QED BY <1>2, <2>1
<1>9. ASSUME UNCHANGED << draftOf, versions, created, order >>, Rows' = Rows
      PROVE  OrderFollowsCreation'
  BY <1>2, <1>9
<1>10. ASSUME NEW d \in Dataset, PublishDataset(d) PROVE Rows' = Rows
  BY <1>10 DEF PublishDataset, Rows, TypeOK
<1>11. ASSUME NEW d \in Dataset, NEW added \in SUBSET File, NEW dropped \in SUBSET File,
              NEW c \in CumulativeState, UpdateDataset(d, added, dropped, c)
       PROVE  OrderFollowsCreation'
  BY <1>9, <1>11 DEF UpdateDataset, Rows
<1>12. ASSUME NEW d \in Dataset, PublishDataset(d) \/ RestoreDataset(d)
       PROVE  OrderFollowsCreation'
  BY <1>9, <1>10, <1>12 DEF PublishDataset, RestoreDataset, Rows
<1>13. ASSUME NEW f \in File, DeleteFile(f) \/ FlushFile(f) PROVE OrderFollowsCreation'
  BY <1>9, <1>13 DEF DeleteFile, FlushFile, Rows
<1>14. CASE UNCHANGED vars
  BY <1>9, <1>14 DEF vars, Rows
<1> QED
  BY <1>3, <1>4, <1>6, <1>7, <1>8, <1>11, <1>12, <1>13, <1>14
     DEF Next, DatasetRequest, FileRequest

-----------------------------------------------------------------------------
(* The unpublished version of a version set.                                 *)

\* A step that adds no independent row and unpublishes none.
LEMMA NoNewIndependentRow ==
    ASSUME UnpublishedVersionIsNewest,
           \A x \in Rows' : draftOf'[x] = None =>
               /\ x \in Rows
               /\ draftOf[x] = None
               /\ versions'[x] = versions[x]
               /\ created'[x] = created[x]
               /\ state'[x] = "draft" => state[x] = "draft"
    PROVE  UnpublishedVersionIsNewest'
BY DEF UnpublishedVersionIsNewest, IndependentVersions

LEMMA NewestStep == /\ TypeOK /\ RowsAreCreatedInTurn /\ LinkedDrafts
                    /\ UnpublishedVersionIsNewest /\ [Next]_vars
                    => UnpublishedVersionIsNewest'
<1> SUFFICES ASSUME TypeOK, RowsAreCreatedInTurn, LinkedDrafts,
                    UnpublishedVersionIsNewest, [Next]_vars
             PROVE  UnpublishedVersionIsNewest'
  OBVIOUS
<1>0. ASSUME NEW d \in Dataset, NEW st \in {"draft", "published"}, NEW v, NEW c, NEW fs,
             AddRow(d, st, None, v, c, fs),
             \A x \in IndependentVersions(v) : state[x] # "draft"
      PROVE  UnpublishedVersionIsNewest'
  <2>1. Rows' = Rows \cup {d} /\ d \notin Rows /\ versions'[d] = v /\ draftOf'[d] = None
    BY <1>0 DEF AddRow, Rows, TypeOK
  <2>2. \A x \in Rows : /\ state'[x] = state[x]
                        /\ draftOf'[x] = draftOf[x]
                        /\ versions'[x] = versions[x]
                        /\ created'[x] = created[x]
    BY <1>0, <2>1 DEF AddRow, TypeOK
  <2>3. \A x \in Rows : created'[x] < created'[d]
    BY <1>0, <2>1, <2>2 DEF AddRow, TypeOK, RowsAreCreatedInTurn, Rows
  <2>4. ASSUME NEW x \in Rows, state'[x] = "draft", draftOf'[x] = None,
               NEW e \in IndependentVersions(versions[x])' \ {x}
        PROVE  created'[e] < created'[x]
    <3>1. versions[x] # v
      BY <1>0, <2>2, <2>4 DEF IndependentVersions
    <3>2. e \in Rows /\ e \in IndependentVersions(versions[x])
      BY <2>1, <2>2, <2>4, <3>1 DEF IndependentVersions
    <3> QED BY <2>2, <2>4, <3>2 DEF UnpublishedVersionIsNewest
  <2>5. \A e \in IndependentVersions(versions[d])' \ {d} : created'[e] < created'[d]
    BY <2>1, <2>3 DEF IndependentVersions
  <2> QED BY <2>1, <2>4, <2>5 DEF UnpublishedVersionIsNewest
<1>1. ASSUME NEW d \in Dataset, NEW st \in {"draft", "published"},
             NEW c \in CumulativeState, NEW fs \in SUBSET File,
             CreateDataset(d, st, c, fs)
      PROVE  UnpublishedVersionIsNewest'
  <2>1. IndependentVersions(d) = {}
    BY <1>1 DEF CreateDataset, AddRow, IndependentVersions, RowsAreCreatedInTurn
  <2> QED BY <1>0, <1>1, <2>1 DEF CreateDataset
<1>2. ASSUME NEW p \in Dataset, NEW d \in Dataset, CreateNewVersion(p, d)
      PROVE  UnpublishedVersionIsNewest'
  <2>1. ASSUME NEW x \in IndependentVersions(versions[p]), state[x] = "draft"
        PROVE  FALSE
    <3>1. p \in IndependentVersions(versions[x]) \ {x} /\ x \in Rows /\ draftOf[x] = None
      BY <1>2, <2>1 DEF CreateNewVersion, IndependentVersions, Rows, LinkedDrafts
    <3>2. created[p] < created[x]
      BY <2>1, <3>1 DEF UnpublishedVersionIsNewest
    <3>3. ~removed[x]
      BY <2>1, <3>1 DEF RowsAreCreatedInTurn, Rows
    <3>4. x \in NextExistingVersions(p)
      BY <2>1, <3>2, <3>3, TypeOK DEF NextExistingVersions, TypeOK, Rows
    <3> QED BY <1>2, <3>4 DEF CreateNewVersion
  <2> QED BY <1>0, <1>2, <2>1 DEF CreateNewVersion
<1>3. ASSUME NEW p \in Dataset, NEW d \in Dataset, CreateNewDraft(p, d)
      PROVE  UnpublishedVersionIsNewest'
  <2>1. draftOf'[d] # None
    BY <1>3, NoneIsNoDataset DEF CreateNewDraft, AddRow, TypeOK
  <2>2. \A x \in Rows' : x # d => /\ x \in Rows
                                  /\ state'[x] = state[x]
                                  /\ draftOf'[x] = draftOf[x]
                                  /\ versions'[x] = versions[x]
                                  /\ created'[x] = created[x]
    BY <1>3 DEF CreateNewDraft, AddRow, TypeOK, Rows
  <2> QED BY <2>1, <2>2, NoNewIndependentRow
<1>4. ASSUME NEW d \in Dataset,
             MergeDraft(d) \/ DeleteDraft(d) \/ DeletePublished(d) \/ FlushDataset(d)
      PROVE  UnpublishedVersionIsNewest'
  <2>1. \A x \in Rows' : /\ x \in Rows
                         /\ state'[x] = state[x]
                         /\ draftOf'[x] = draftOf[x]
                         /\ versions'[x] = versions[x]
                         /\ created'[x] = created[x]
    BY <1>4 DEF MergeDraft, DeleteDraft, DeletePublished, FlushDataset, DeleteRows, Rows, TypeOK
  <2> QED BY <2>1, NoNewIndependentRow
<1>5. ASSUME NEW d \in Dataset, PublishDataset(d) PROVE UnpublishedVersionIsNewest'
  <2>1. /\ Rows' = Rows
        /\ UNCHANGED << draftOf, versions, created >>
        /\ \A x \in Dataset : state'[x] = "draft" => state[x] = "draft"
    BY <1>5 DEF PublishDataset, Rows, TypeOK
  <2> QED BY <2>1, NoNewIndependentRow DEF Rows
<1>6. ASSUME UNCHANGED << state, draftOf, versions, created >>
      PROVE  UnpublishedVersionIsNewest'
  BY <1>6, NoNewIndependentRow DEF Rows
<1>7. ASSUME NEW d \in Dataset, NEW added \in SUBSET File, NEW dropped \in SUBSET File,
             NEW c \in CumulativeState, UpdateDataset(d, added, dropped, c)
      PROVE  UnpublishedVersionIsNewest'
  BY <1>6, <1>7 DEF UpdateDataset
<1>8. ASSUME NEW d \in Dataset, RestoreDataset(d) PROVE UnpublishedVersionIsNewest'
  BY <1>6, <1>8 DEF RestoreDataset
<1>9. ASSUME NEW f \in File, DeleteFile(f) \/ FlushFile(f) PROVE UnpublishedVersionIsNewest'
  BY <1>6, <1>9 DEF DeleteFile, FlushFile
<1>10. CASE UNCHANGED vars
  BY <1>6, <1>10 DEF vars
<1> QED
  BY <1>1, <1>2, <1>3, <1>4, <1>5, <1>7, <1>8, <1>9, <1>10
     DEF Next, DatasetRequest, FileRequest

-----------------------------------------------------------------------------
(* The inductive invariant, and what follows from it.                        *)

IInv ==
    /\ TypeOK
    /\ RowsAreCreatedInTurn
    /\ LinkedDrafts
    /\ OrderFollowsCreation
    /\ UnpublishedVersionIsNewest

LEMMA Invariance == Spec => []IInv
<1>1. Init => IInv
  <2>1. Init => TypeOK
    BY InitIsTyped
  <2>2. Init => Rows = {} /\ \A d \in Dataset : ~removed[d]
    BY DEF Init, Rows
  <2> QED
    BY <2>1, <2>2 DEF IInv, RowsAreCreatedInTurn, LinkedDrafts, OrderFollowsCreation,
                      UnpublishedVersionIsNewest
<1>2. IInv /\ [Next]_vars => IInv'
  BY TypeOKStep, TurnStep, LinkedStep, OrderStep, NewestStep DEF IInv
<1> QED BY <1>1, <1>2, PTL DEF Spec

LEMMA LinkedDraftsWhole == LinkedDrafts /\ TypeOK => LinkedDraftsHaveTheirOriginal
BY DEF LinkedDrafts, LinkedDraftsHaveTheirOriginal, NextDrafts, Rows, TypeOK

\* Whatever requests are made, a linked draft has its published original.
THEOREM LinkedDraftsCorrect == Spec => []LinkedDraftsHaveTheirOriginal
<1>1. IInv => LinkedDraftsHaveTheirOriginal
  BY LinkedDraftsWhole DEF IInv
<1> QED BY <1>1, Invariance, PTL

\* Renumbering never collides, and versions stay in the order of their creation.
THEOREM OrderCorrect == Spec => []OrderFollowsCreation
<1>1. IInv => OrderFollowsCreation
  BY DEF IInv
<1> QED BY <1>1, Invariance, PTL

\* _deny_if_versioning_not_allowed leaves a version set one unpublished version
\* at most, the newest.
THEOREM UnpublishedVersionCorrect == Spec => []UnpublishedVersionIsNewest
<1>1. IInv => UnpublishedVersionIsNewest
  BY DEF IInv
<1> QED BY <1>1, Invariance, PTL

-----------------------------------------------------------------------------
(* Version numbers.                                                          *)

\* Independent rows of a version set are told apart by their order.
LEMMA OrderTellsApart ==
    ASSUME IInv, NEW d \in Rows, NEW e \in Rows,
           draftOf[d] = None, draftOf[e] = None, versions[d] = versions[e]
    PROVE  /\ created[d] < created[e] <=> order[d] < order[e]
           /\ order[d] = order[e] => d = e
<1>1. /\ created[d] \in Nat /\ created[e] \in Nat
      /\ order[d] \in Nat /\ order[e] \in Nat
  BY DEF IInv, TypeOK, Rows
<1>2. created[d] = created[e] => d = e
  BY DEF IInv, RowsAreCreatedInTurn
<1>3. /\ created[d] < created[e] => order[d] + 1 < order[e]
      /\ created[e] < created[d] => order[e] + 1 < order[d]
  BY DEF IInv, OrderFollowsCreation, IndependentVersions
<1> QED BY <1>1, <1>2, <1>3

LEMMA VersionNumbersFromOrder == IInv => VersionNumbersFollowCreation
<1> SUFFICES ASSUME IInv PROVE VersionNumbersFollowCreation OBVIOUS
<1> DEFINE Before(x) == {e \in Rows : /\ versions[e] = versions[x]
                                      /\ state[e] = "published"
                                      /\ order[e] < order[x]}
<1>1. \A x : Before(x) \in SUBSET Dataset
  BY DEF Rows
<1>2. \A x : Cardinality(Before(x)) \in Nat
  BY <1>1, DatasetsAreFinite, FS_Subset, FS_CardinalityType
<1>3. \A x : VersionNumberPrefetched(x) =
             Cardinality(Before(x)) + (IF draftOf[x] = None THEN 1 ELSE 0)
  BY DEF VersionNumberPrefetched, VersionNumberAmong
<1>4. \A x \in Rows : order[x] \in Nat
  BY DEF IInv, TypeOK, Rows
<1>5. \A x \in Rows : state[x] = "published" => draftOf[x] = None
  BY DEF IInv, LinkedDrafts
<1>6. ASSUME NEW d \in Rows, draftOf[d] # None
      PROVE  VersionNumberPrefetched(d) = VersionNumberPrefetched(draftOf[d])
  <2>1. PICK p \in Rows : /\ p = draftOf[d]
                          /\ state[p] = "published"
                          /\ versions[p] = versions[d]
                          /\ order[d] = order[p] + 1
    BY <1>6 DEF IInv, LinkedDrafts, OrderFollowsCreation, TypeOK, Rows
  <2>2. draftOf[p] = None
    BY <1>5, <2>1
  <2>3. ASSUME NEW e \in Rows, versions[e] = versions[p], state[e] = "published"
        PROVE  order[e] < order[d] <=> order[e] < order[p] \/ e = p
    <3>1. order[e] = order[p] => e = p
      BY <1>5, <2>1, <2>2, <2>3, OrderTellsApart
    <3> QED BY <1>4, <2>1, <3>1
  <2>4. Before(d) = Before(p) \cup {p}
    BY <2>1, <2>3
  <2>5. p \notin Before(p)
    BY <1>4
  <2>6. Cardinality(Before(d)) = Cardinality(Before(p)) + 1
    BY <1>1, <2>4, <2>5, DatasetsAreFinite, FS_Subset, FS_AddElement
  <2> HIDE DEF Before
  <2> QED BY <1>2, <1>3, <1>6, <2>1, <2>2, <2>6
<1>7. ASSUME NEW d \in Rows, draftOf[d] = None, state[d] = "published",
             NEW e \in IndependentVersions(versions[d]), created[d] < created[e]
      PROVE  VersionNumberPrefetched(d) < VersionNumberPrefetched(e)
  <2>1. e \in Rows /\ versions[e] = versions[d] /\ draftOf[e] = None
    BY <1>7 DEF IndependentVersions
  <2>2. order[d] < order[e]
    BY <1>7, <2>1, OrderTellsApart
  <2>3. Before(d) \subseteq Before(e) /\ d \in Before(e) \ Before(d)
    BY <1>4, <1>7, <2>1, <2>2
  <2> HIDE DEF Before
  <2>4. Cardinality(Before(d)) + 1 <= Cardinality(Before(e))
    BY <1>1, <2>3, OneMore
  <2> QED BY <1>2, <1>3, <1>7, <2>1, <2>4
<1> QED BY <1>6, <1>7 DEF VersionNumbersFollowCreation

\* version_number grows along a version set, and a linked draft has the number
\* of its original.
THEOREM VersionNumbersCorrect == Spec => []VersionNumbersFollowCreation
BY VersionNumbersFromOrder, Invariance, PTL

-----------------------------------------------------------------------------
(* What a request may do to a published dataset.                             *)

\* Who changes the cumulative state and the files of rows.
LEMMA OnlyUpdatesAndMerges ==
    ASSUME TypeOK, [Next]_vars, NEW p \in Dataset, StaysPublished(p)
    PROVE  \/ \E added, dropped \in SUBSET File, c \in CumulativeState :
                  UpdateDataset(p, added, dropped, c)
           \/ \E d \in Dataset : MergeDraft(d) /\ draftOf[d] = p
           \/ \E f \in File : FlushFile(f)
           \/ cumulative'[p] = cumulative[p] /\ files'[p] = files[p]
<1> USE DEF StaysPublished
<1>1. ASSUME NEW d \in Dataset, NEW st, NEW original, NEW v, NEW c, NEW fs,
             AddRow(d, st, original, v, c, fs)
      PROVE  cumulative'[p] = cumulative[p] /\ files'[p] = files[p]
  BY <1>1 DEF AddRow, TypeOK
<1>2. ASSUME NEW d \in Dataset, NEW st \in {"draft", "published"},
             NEW c \in CumulativeState, NEW fs \in SUBSET File,
             CreateDataset(d, st, c, fs)
      PROVE  cumulative'[p] = cumulative[p] /\ files'[p] = files[p]
  BY <1>1, <1>2 DEF CreateDataset
<1>3. ASSUME NEW q \in Dataset, NEW d \in Dataset,
             CreateNewVersion(q, d) \/ CreateNewDraft(q, d)
      PROVE  cumulative'[p] = cumulative[p] /\ files'[p] = files[p]
  BY <1>1, <1>3 DEF CreateNewVersion, CreateNewDraft
<1>4. ASSUME NEW d \in Dataset, MergeDraft(d), draftOf[d] # p
      PROVE  cumulative'[p] = cumulative[p] /\ files'[p] = files[p]
  BY <1>4 DEF MergeDraft, TypeOK
<1>5. ASSUME NEW ds, DeleteRows(ds), UNCHANGED cumulative
      PROVE  cumulative'[p] = cumulative[p] /\ files'[p] = files[p]
  BY <1>5 DEF DeleteRows
<1>6. ASSUME NEW d \in Dataset, DeleteDraft(d) \/ DeletePublished(d) \/ FlushDataset(d)
      PROVE  cumulative'[p] = cumulative[p] /\ files'[p] = files[p]
  BY <1>5, <1>6 DEF DeleteDraft, DeletePublished, FlushDataset
<1>7. ASSUME NEW d \in Dataset, NEW added \in SUBSET File, NEW dropped \in SUBSET File,
             NEW c \in CumulativeState, UpdateDataset(d, added, dropped, c), d # p
      PROVE  cumulative'[p] = cumulative[p] /\ files'[p] = files[p]
  BY <1>7 DEF UpdateDataset, TypeOK
<1>8. ASSUME NEW d \in Dataset, PublishDataset(d) \/ RestoreDataset(d)
      PROVE  cumulative'[p] = cumulative[p] /\ files'[p] = files[p]
  BY <1>8 DEF PublishDataset, RestoreDataset
<1>9. ASSUME NEW f \in File, DeleteFile(f)
      PROVE  cumulative'[p] = cumulative[p] /\ files'[p] = files[p]
  BY <1>9 DEF DeleteFile
<1>10. CASE UNCHANGED vars
  BY <1>10 DEF vars
<1> QED
  BY <1>2, <1>3, <1>4, <1>6, <1>7, <1>8, <1>9, <1>10 DEF Next, DatasetRequest, FileRequest

\* A cumulation once closed stays closed, and none is opened after publication.
THEOREM CumulationCorrect == Spec => CumulationNeverReopens
<1>1. ASSUME TypeOK, [Next]_vars, NEW p \in Dataset, StaysPublished(p)
      PROVE  cumulative'[p] \in CumulativeAfter(cumulative[p])
  <2>1. ASSUME NEW added \in SUBSET File, NEW dropped \in SUBSET File,
               NEW c \in CumulativeState, UpdateDataset(p, added, dropped, c)
        PROVE  cumulative'[p] \in CumulativeAfter(cumulative[p])
    BY <1>1, <2>1 DEF UpdateDataset, AllowedCumulative, StaysPublished, TypeOK
  <2>2. ASSUME NEW d \in Dataset, MergeDraft(d), draftOf[d] = p
        PROVE  cumulative'[p] \in CumulativeAfter(cumulative[p])
    BY <1>1, <2>2 DEF MergeDraft, AllowedCumulative, StaysPublished, TypeOK
  <2>3. ASSUME NEW f \in File, FlushFile(f)
        PROVE  cumulative'[p] \in CumulativeAfter(cumulative[p])
    BY <2>3 DEF FlushFile, CumulativeAfter
  <2>4. CASE cumulative'[p] = cumulative[p]
    BY <2>4 DEF CumulativeAfter
  <2> QED BY <1>1, <2>1, <2>2, <2>3, <2>4, OnlyUpdatesAndMerges
<1>2. TypeOK /\ [Next]_vars =>
      [\A d \in Dataset : StaysPublished(d) =>
           cumulative'[d] \in CumulativeAfter(cumulative[d])]_vars
  BY <1>1
<1> QED BY <1>2, TypeCorrect, PTL DEF Spec, CumulationNeverReopens, CumulativeAfter

\* A published dataset keeps its stored files.
THEOREM PublishedFilesCorrect == Spec => PublishedFilesAreKept
<1> DEFINE Kept(p) == files[p] \cap {f \in File : fileState'[f] = "stored"} \subseteq files'[p]
<1>1. ASSUME TypeOK, [Next]_vars, NEW p \in Dataset, StaysPublished(p)
      PROVE  Kept(p)
  <2>1. ASSUME NEW added \in SUBSET File, NEW dropped \in SUBSET File,
               NEW c \in CumulativeState, UpdateDataset(p, added, dropped, c)
        PROVE  Kept(p)
    <3>1. dropped = {} \/ files[p] = {}
      BY <1>1, <2>1 DEF UpdateDataset, AllowRemovingFiles, HasPublishedFiles, HasFiles,
                        StaysPublished
    <3> QED BY <2>1, <3>1 DEF UpdateDataset, TypeOK
  <2>2. ASSUME NEW d \in Dataset, MergeDraft(d), draftOf[d] = p
        PROVE  Kept(p)
    <3>1. AvailableFiles(p) \subseteq files[d]
      BY <2>2 DEF MergeDraft, MergeKeepsFiles, AvailableFiles
    <3>2. d # p /\ files'[p] = files[d] /\ fileState' = fileState
      BY <1>1, <2>2 DEF MergeDraft, TypeOK, StaysPublished
    <3> QED BY <3>1, <3>2 DEF AvailableFiles, Stored
  <2>3. ASSUME NEW f \in File, FlushFile(f)
        PROVE  Kept(p)
    BY <1>1, <2>3 DEF FlushFile, TypeOK
  <2> QED BY <1>1, <2>1, <2>2, <2>3, OnlyUpdatesAndMerges
<1>2. TypeOK /\ [Next]_vars =>
      [\A d \in Dataset : StaysPublished(d) =>
           files[d] \cap {f \in File : fileState'[f] = "stored"} \subseteq files'[d]]_vars
  BY <1>1
<1> QED BY <1>2, TypeCorrect, PTL DEF Spec, PublishedFilesAreKept

\* A published dataset with files gains files only while cumulative.
THEOREM AddedFilesCorrect == Spec => FilesAreAddedOnlyWhileOpen
<1> DEFINE Closed(p) == StaysPublished(p) /\ AvailableFiles(p) # {}
           Nothing(p) == AvailableFiles(p)' \subseteq files[p] \/ cumulative[p] = "ACTIVE"
<1>1. ASSUME TypeOK, [Next]_vars, NEW p \in Dataset, Closed(p)
      PROVE  Nothing(p)
  <2>1. ASSUME NEW added \in SUBSET File, NEW dropped \in SUBSET File,
               NEW c \in CumulativeState, UpdateDataset(p, added, dropped, c)
        PROVE  Nothing(p)
    <3>1. added = {} \/ cumulative[p] = "ACTIVE"
      BY <1>1, <2>1 DEF UpdateDataset, AllowAddingFiles, HasFiles, AvailableFiles,
                        StaysPublished
    <3> QED BY <2>1, <3>1 DEF UpdateDataset, AvailableFiles, TypeOK
  <2>2. ASSUME NEW d \in Dataset, MergeDraft(d), draftOf[d] = p
        PROVE  Nothing(p)
    <3>1. AvailableFiles(d) \subseteq files[p] \/ cumulative[p] = "ACTIVE"
      BY <1>1, <2>2 DEF MergeDraft, MergeKeepsFiles, AvailableFiles
    <3>2. d # p /\ files'[p] = files[d] /\ fileState' = fileState
      BY <1>1, <2>2 DEF MergeDraft, TypeOK, StaysPublished
    <3> QED BY <3>1, <3>2 DEF AvailableFiles, Stored
  <2>3. ASSUME NEW f \in File, FlushFile(f)
        PROVE  Nothing(p)
    BY <1>1, <2>3 DEF FlushFile, AvailableFiles, TypeOK
  <2> QED BY <1>1, <2>1, <2>2, <2>3, OnlyUpdatesAndMerges DEF AvailableFiles
<1>2. TypeOK /\ [Next]_vars =>
      [\A d \in Dataset : StaysPublished(d) /\ AvailableFiles(d) # {} =>
           AvailableFiles(d)' \subseteq files[d] \/ cumulative[d] = "ACTIVE"]_vars
  BY <1>1
<1> QED BY <1>2, TypeCorrect, PTL DEF Spec, FilesAreAddedOnlyWhileOpen

-----------------------------------------------------------------------------
(* DatasetLifecycle implements PublishedDatasets: what readers rely on follows *)
(* from what each request does to rows.                                        *)

\* What a reader sees, apart from the ids that are still to be published.
SeenSame == UNCHANGED << PublishedRows, RemovedRows, CumulativeRows, DeprecatedRows,
                         FilesShown, Stored >>

\* A deprecated row is or was published, or is a linked draft, which can only be
\* merged: no dataset is deprecated when it is published.
DeprecatedRowsWerePublished ==
    \A d \in Dataset : deprecated[d] =>
        state[d] \in {"published", "flushed"} \/ (state[d] = "draft" /\ draftOf[d] # None)

LEMMA DeprecatedInit == Init => DeprecatedRowsWerePublished
BY DEF Init, DeprecatedRowsWerePublished

LEMMA AddRowDeprecatesNone ==
    ASSUME TypeOK, DeprecatedRowsWerePublished, NEW d \in Dataset,
           NEW st \in {"draft", "published"}, NEW original \in Dataset \cup {None},
           NEW v, NEW c, NEW fs, AddRow(d, st, original, v, c, fs)
    PROVE  DeprecatedRowsWerePublished'
BY DEF TypeOK, AddRow, DeprecatedRowsWerePublished

LEMMA DeleteRowsDeprecatesNone ==
    ASSUME TypeOK, DeprecatedRowsWerePublished, NEW ds, DeleteRows(ds), UNCHANGED deprecated
    PROVE  DeprecatedRowsWerePublished'
BY DEF TypeOK, DeleteRows, DeprecatedRowsWerePublished

LEMMA DeprecatedStep ==
    TypeOK /\ DeprecatedRowsWerePublished /\ [Next]_vars => DeprecatedRowsWerePublished'
<1> SUFFICES ASSUME TypeOK, DeprecatedRowsWerePublished, [Next]_vars
             PROVE  DeprecatedRowsWerePublished'
  OBVIOUS
<1>1. ASSUME NEW d \in Dataset, NEW st \in {"draft", "published"},
             NEW c \in CumulativeState, NEW fs \in SUBSET File, CreateDataset(d, st, c, fs)
      PROVE  DeprecatedRowsWerePublished'
  BY <1>1, AddRowDeprecatesNone DEF CreateDataset
<1>2. ASSUME NEW p \in Dataset, NEW d \in Dataset, CreateNewVersion(p, d) \/ CreateNewDraft(p, d)
      PROVE  DeprecatedRowsWerePublished'
  BY <1>2, AddRowDeprecatesNone DEF CreateNewVersion, CreateNewDraft
<1>3. ASSUME NEW d \in Dataset, DeleteDraft(d) \/ DeletePublished(d) \/ FlushDataset(d)
      PROVE  DeprecatedRowsWerePublished'
  BY <1>3, DeleteRowsDeprecatesNone DEF DeleteDraft, DeletePublished, FlushDataset
<1>4. ASSUME NEW d \in Dataset, PublishDataset(d) \/ RestoreDataset(d)
      PROVE  DeprecatedRowsWerePublished'
  BY <1>4 DEF PublishDataset, RestoreDataset, DeprecatedRowsWerePublished, TypeOK
<1>5. ASSUME NEW d \in Dataset, MergeDraft(d) PROVE DeprecatedRowsWerePublished'
  BY <1>5 DEF MergeDraft, DeprecatedRowsWerePublished, TypeOK
<1>6. ASSUME NEW d \in Dataset, NEW added \in SUBSET File, NEW dropped \in SUBSET File,
             NEW c \in CumulativeState, UpdateDataset(d, added, dropped, c)
      PROVE  DeprecatedRowsWerePublished'
  BY <1>6 DEF UpdateDataset, DeprecatedRowsWerePublished
<1>7. ASSUME NEW f \in File, DeleteFile(f) \/ FlushFile(f) PROVE DeprecatedRowsWerePublished'
  <2>1. state' = state /\ draftOf' = draftOf
    BY <1>7 DEF DeleteFile, FlushFile
  <2>2. \A d \in Dataset : deprecated'[d] => deprecated[d] \/ d \in DatasetsToDeprecate(f)
    BY <1>7, Zenon DEF DeleteFile, FlushFile, DeprecateDatasets
  <2>3. \A d \in DatasetsToDeprecate(f) :
            state[d] = "published" \/ (state[d] = "draft" /\ draftOf[d] # None)
    BY DEF DatasetsToDeprecate, HasPublishedFiles
  <2> QED BY <2>1, <2>2, <2>3 DEF DeprecatedRowsWerePublished
<1>8. CASE UNCHANGED vars
  BY <1>8 DEF vars, DeprecatedRowsWerePublished
<1> QED
  BY <1>1, <1>2, <1>3, <1>4, <1>5, <1>6, <1>7, <1>8 DEF Next, DatasetRequest, FileRequest

-----------------------------------------------------------------------------
(* Requests that readers see nothing of. *)

\* Rows that are not published may be made, changed and dropped.
LEMMA UnseenRows ==
    ASSUME UNCHANGED << PublishedRows, fileState >>,
           \A d \in PublishedRows : /\ removed'[d] = removed[d]
                                    /\ cumulative'[d] = cumulative[d]
                                    /\ deprecated'[d] = deprecated[d]
                                    /\ files'[d] = files[d]
    PROVE  SeenSame
<1>1. Stored' = Stored
  BY DEF Stored
<1>2. FilesShown' = FilesShown
  BY <1>1 DEF FilesShown, AvailableFiles
<1> QED BY <1>1, <1>2 DEF SeenSame, RemovedRows, CumulativeRows, DeprecatedRows

LEMMA DraftsAreNotSeen ==
    ASSUME TypeOK, LinkedDrafts, NEW d \in Dataset, NEW p \in Dataset,
           \/ \E v, c, fs, original : AddRow(d, "draft", original, v, c, fs)
           \/ DeleteDraft(d)
           \/ state[d] = "draft" /\ \E added, dropped, c : UpdateDataset(d, added, dropped, c)
    PROVE  SeenSame /\ NotYetPublished' \subseteq NotYetPublished
<1>1. CASE \E v, c, fs, original : AddRow(d, "draft", original, v, c, fs)
  <2>1. state[d] = "unused" /\ state' = [state EXCEPT ![d] = "draft"]
    BY <1>1 DEF AddRow
  <2>2. PublishedRows' = PublishedRows /\ NotYetPublished' = NotYetPublished
    BY <2>1 DEF PublishedRows, NotYetPublished, TypeOK
  <2>3. \A e \in PublishedRows : e # d
    BY <2>1 DEF PublishedRows
  <2>4. UNCHANGED << removed, deprecated, fileState >>
    BY <1>1 DEF AddRow
  <2>5. \A e \in PublishedRows : cumulative'[e] = cumulative[e] /\ files'[e] = files[e]
    BY <1>1, <2>3 DEF AddRow, TypeOK, PublishedRows
  <2> QED BY <2>2, <2>4, <2>5, UnseenRows
<1>2. CASE DeleteDraft(d)
  <2>1. state[d] = "draft" /\ \A e \in Dataset \ {d} : state'[e] = state[e]
    BY <1>2 DEF DeleteDraft, DeleteRows
  <2>2. state'[d] = "flushed"
    BY <1>2 DEF DeleteDraft, DeleteRows
  <2>3. PublishedRows' = PublishedRows /\ NotYetPublished' \subseteq NotYetPublished
    BY <2>1, <2>2 DEF PublishedRows, NotYetPublished
  <2>4. \A e \in PublishedRows : files'[e] = files[e]
    BY <1>2, <2>1 DEF DeleteDraft, DeleteRows, PublishedRows
  <2> QED BY <1>2, <2>3, <2>4, UnseenRows DEF DeleteDraft
<1>3. CASE state[d] = "draft" /\ \E added, dropped, c : UpdateDataset(d, added, dropped, c)
  <2>1. UNCHANGED << state, removed, deprecated, fileState >>
    BY <1>3 DEF UpdateDataset
  <2>2. PublishedRows' = PublishedRows /\ NotYetPublished' = NotYetPublished
    BY <2>1 DEF PublishedRows, NotYetPublished
  <2>3. \A e \in PublishedRows : cumulative'[e] = cumulative[e] /\ files'[e] = files[e]
    BY <1>3 DEF UpdateDataset, TypeOK, PublishedRows
  <2> QED BY <2>1, <2>2, <2>3, UnseenRows
<1> QED BY <1>1, <1>2, <1>3

-----------------------------------------------------------------------------
(* Requests that readers see. *)

Unseen == NotYetPublished' \subseteq NotYetPublished

\* A row becomes public with files of its own, not removed and not deprecated.
LEMMA RowIsPublished ==
    ASSUME TypeOK, NEW d \in Dataset, d \in NotYetPublished,
           state' = [state EXCEPT ![d] = "published"],
           ~removed[d], ~deprecated[d], UNCHANGED << removed, deprecated, fileState >>,
           \A e \in Dataset \ {d} : files'[e] = files[e] /\ cumulative'[e] = cumulative[e]
    PROVE  Unseen /\ Published!Publish(d)
<1>1. PublishedRows' = PublishedRows \cup {d} /\ d \notin PublishedRows
  BY DEF PublishedRows, NotYetPublished, TypeOK
<1>2. NotYetPublished' = NotYetPublished \ {d}
  BY DEF NotYetPublished, TypeOK
<1>3. RemovedRows' = RemovedRows /\ DeprecatedRows' = DeprecatedRows /\ Stored' = Stored
  BY <1>1 DEF RemovedRows, DeprecatedRows, Stored
<1>4. CumulativeRows' \in {CumulativeRows, CumulativeRows \cup {d}}
  <2>1. \A e \in Dataset \ {d} : e \in CumulativeRows' <=> e \in CumulativeRows
    BY <1>1 DEF CumulativeRows
  <2>2. CumulativeRows' \subseteq Dataset /\ CumulativeRows \subseteq Dataset /\ d \notin CumulativeRows
    BY <1>1 DEF CumulativeRows, PublishedRows
  <2> QED BY <2>1, <2>2
<1>5. FilesShown' = [FilesShown EXCEPT ![d] = AvailableFiles(d)']
  BY <1>1, <1>3 DEF FilesShown, AvailableFiles
<1>6. AvailableFiles(d)' \in SUBSET Stored
  BY <1>3 DEF AvailableFiles
<1> QED BY <1>1, <1>2, <1>3, <1>4, <1>5, <1>6 DEF Unseen, Published!Publish

\* A published row keeps its files and gains some only if it may.
LEMMA RowChanges ==
    ASSUME TypeOK, NEW d \in PublishedRows,
           UNCHANGED << PublishedRows, RemovedRows, fileState >>,
           \A e \in PublishedRows \ {d} : /\ files'[e] = files[e]
                                          /\ cumulative'[e] = cumulative[e]
                                          /\ deprecated'[e] = deprecated[e],
           AvailableFiles(d) \subseteq files'[d],
           AvailableFiles(d) # {} => AvailableFiles(d)' \subseteq files[d] \/ cumulative[d] = "ACTIVE",
           cumulative'[d] \in CumulativeAfter(cumulative[d]),
           deprecated'[d] => deprecated[d]
    PROVE  Published!Change(d)
<1>1. Stored' = Stored /\ d \in Dataset
  BY DEF Stored, PublishedRows
<1>2. FilesShown' = [FilesShown EXCEPT ![d] = AvailableFiles(d)']
  BY <1>1 DEF FilesShown, AvailableFiles, PublishedRows
<1>3. FilesShown[d] = AvailableFiles(d) /\ FilesShown[d] \subseteq AvailableFiles(d)'
  BY <1>1 DEF FilesShown, AvailableFiles
<1>4. d \in CumulativeRows \/ FilesShown[d] \in {{}, AvailableFiles(d)'}
  BY <1>1, <1>3 DEF CumulativeRows, AvailableFiles
<1>5. CumulativeRows' \in {CumulativeRows, CumulativeRows \ {d}}
  <2>1. cumulative'[d] = "ACTIVE" => cumulative[d] = "ACTIVE"
    BY DEF CumulativeAfter
  <2>2. \A e \in PublishedRows \ {d} : e \in CumulativeRows' <=> e \in CumulativeRows
    BY DEF CumulativeRows
  <2>3. d \in CumulativeRows' => d \in CumulativeRows
    BY <2>1 DEF CumulativeRows
  <2>4. CumulativeRows' \subseteq PublishedRows /\ CumulativeRows \subseteq PublishedRows
    BY DEF CumulativeRows
  <2> QED BY <2>2, <2>3, <2>4
<1>6. DeprecatedRows' \in {DeprecatedRows, DeprecatedRows \ {d}}
  <2>1. \A e \in PublishedRows \ {d} : e \in DeprecatedRows' <=> e \in DeprecatedRows
    BY DEF DeprecatedRows
  <2>2. d \in DeprecatedRows' => d \in DeprecatedRows
    BY DEF DeprecatedRows
  <2>3. DeprecatedRows' \subseteq PublishedRows /\ DeprecatedRows \subseteq PublishedRows
    BY DEF DeprecatedRows
  <2> QED BY <2>1, <2>2, <2>3
<1>7. AvailableFiles(d)' \in SUBSET Stored
  BY <1>1 DEF AvailableFiles
<1> QED BY <1>1, <1>2, <1>3, <1>4, <1>5, <1>6, <1>7 DEF Published!Change

LEMMA UpdateIsAChange ==
    ASSUME TypeOK, NEW d \in PublishedRows,
           NEW added \in SUBSET File, NEW dropped \in SUBSET File, NEW c \in CumulativeState,
           UpdateDataset(d, added, dropped, c)
    PROVE  Unseen /\ Published!Change(d)
<1>1. UNCHANGED << state, removed, deprecated, fileState >>
  BY DEF UpdateDataset
<1>2. UNCHANGED << NotYetPublished, PublishedRows, RemovedRows >>
  BY <1>1 DEF NotYetPublished, PublishedRows, RemovedRows
<1>3. \A e \in PublishedRows \ {d} : files'[e] = files[e] /\ cumulative'[e] = cumulative[e]
  BY DEF UpdateDataset, TypeOK, PublishedRows
<1>4. files'[d] = (files[d] \ dropped) \cup added /\ cumulative'[d] = c
  BY DEF UpdateDataset, TypeOK, PublishedRows
<1>5. dropped = {} \/ files[d] = {}
  BY DEF UpdateDataset, AllowRemovingFiles, HasPublishedFiles, HasFiles, PublishedRows
<1>6. AvailableFiles(d) \subseteq files'[d]
  BY <1>4, <1>5 DEF AvailableFiles
<1>7. added = {} \/ cumulative[d] = "ACTIVE" \/ files[d] = {}
  BY DEF UpdateDataset, AllowAddingFiles, HasFiles, PublishedRows
<1>8. AvailableFiles(d) # {} => AvailableFiles(d)' \subseteq files[d] \/ cumulative[d] = "ACTIVE"
  BY <1>4, <1>7 DEF AvailableFiles
<1>9. cumulative'[d] \in CumulativeAfter(cumulative[d])
  BY <1>4 DEF UpdateDataset, AllowedCumulative, PublishedRows
<1> QED BY <1>1, <1>2, <1>3, <1>6, <1>8, <1>9, RowChanges DEF Unseen

LEMMA MergeIsAChange ==
    ASSUME TypeOK, RowsAreCreatedInTurn, LinkedDrafts, NEW d \in Dataset, MergeDraft(d),
           NEW p, p = draftOf[d]
    PROVE  Unseen /\ p \in Dataset /\ Published!Change(p)
<1>1. /\ p \in PublishedRows /\ p \in Dataset /\ d # p
      /\ ~removed[p] /\ ~removed[d] /\ ~deprecated[d]
  <2>1. d \in Rows /\ state[d] = "draft" /\ p # None /\ ~deprecated[d]
    BY DEF MergeDraft, Rows
  <2>2. state[p] = "published" /\ ~removed[p] /\ p \in Dataset
    BY <2>1 DEF LinkedDrafts, TypeOK
  <2>3. ~removed[d]
    BY <2>1 DEF RowsAreCreatedInTurn
  <2> QED BY <2>1, <2>2, <2>3 DEF PublishedRows
<1>2. PublishedRows' = PublishedRows /\ NotYetPublished' \subseteq NotYetPublished
  BY <1>1 DEF MergeDraft, PublishedRows, NotYetPublished, TypeOK
<1>3. RemovedRows' = RemovedRows /\ UNCHANGED fileState
  BY <1>1, <1>2 DEF MergeDraft, RemovedRows, TypeOK, PublishedRows
<1>4. \A e \in PublishedRows \ {p} : /\ files'[e] = files[e]
                                      /\ cumulative'[e] = cumulative[e]
                                      /\ deprecated'[e] = deprecated[e]
  BY <1>1 DEF MergeDraft, TypeOK, PublishedRows
<1>5. /\ files'[p] = files[d] /\ cumulative'[p] = cumulative[d]
      /\ deprecated'[p] = FALSE
  BY <1>1 DEF MergeDraft, TypeOK
<1>6. AvailableFiles(p) \subseteq files'[p]
  BY <1>5 DEF MergeDraft, MergeKeepsFiles, AvailableFiles
<1>7. AvailableFiles(p) # {} => AvailableFiles(p)' \subseteq files[p] \/ cumulative[p] = "ACTIVE"
  <2>1. AvailableFiles(p)' = AvailableFiles(d)
    BY <1>3, <1>5 DEF AvailableFiles, Stored
  <2>2. AvailableFiles(p) # {} =>
            AvailableFiles(d) \subseteq AvailableFiles(p) \/ cumulative[p] = "ACTIVE"
    BY DEF MergeDraft, MergeKeepsFiles
  <2>3. AvailableFiles(p) \subseteq files[p]
    BY DEF AvailableFiles
  <2> QED BY <2>1, <2>2, <2>3
<1>8. cumulative'[p] \in CumulativeAfter(cumulative[p])
  BY <1>1, <1>5 DEF MergeDraft, AllowedCumulative, PublishedRows
<1>9. deprecated'[p] => deprecated[p]
  BY <1>5
<1>10. Published!Change(p)
  BY <1>1, <1>2, <1>3, <1>4, <1>6, <1>7, <1>8, <1>9, RowChanges
<1> QED BY <1>1, <1>2, <1>10 DEF Unseen

LEMMA DeletionWithdraws ==
    ASSUME TypeOK, LinkedDrafts, NEW d \in Dataset, DeletePublished(d)
    PROVE  Unseen /\ Published!Withdraw(d)
<1>1. NextDrafts(d) \cap PublishedRows = {}
  BY NoneIsNoDataset DEF NextDrafts, LinkedDrafts, PublishedRows
<1>2. PublishedRows' = PublishedRows /\ NotYetPublished' \subseteq NotYetPublished
  BY <1>1 DEF DeletePublished, DeleteRows, PublishedRows, NotYetPublished
<1>3. UNCHANGED << deprecated, cumulative, fileState >>
  BY DEF DeletePublished
<1>4. RemovedRows' = RemovedRows \cup {d} /\ d \in PublishedRows \ RemovedRows
  BY <1>2 DEF DeletePublished, RemovedRows, TypeOK, PublishedRows
<1>5. CumulativeRows' = CumulativeRows /\ DeprecatedRows' = DeprecatedRows /\ Stored' = Stored
  BY <1>2, <1>3 DEF CumulativeRows, DeprecatedRows, Stored
<1>6. FilesShown' = FilesShown
  BY <1>1, <1>2, <1>5 DEF DeletePublished, DeleteRows, FilesShown, AvailableFiles, PublishedRows
<1> QED BY <1>2, <1>4, <1>5, <1>6 DEF Unseen, Published!Withdraw

LEMMA FlushingIsFinal ==
    ASSUME TypeOK, LinkedDrafts, NEW d \in Dataset, FlushDataset(d)
    PROVE  Unseen /\ Published!Flush(d)
<1>1. d \in PublishedRows /\ NextDrafts(d) \cap PublishedRows = {}
  BY NoneIsNoDataset DEF NextDrafts, LinkedDrafts, PublishedRows, FlushDataset
<1>2. PublishedRows' = PublishedRows \ {d} /\ NotYetPublished' \subseteq NotYetPublished
  BY <1>1 DEF FlushDataset, DeleteRows, PublishedRows, NotYetPublished
<1>3. UNCHANGED << removed, deprecated, cumulative, fileState >>
  BY DEF FlushDataset
<1>4. /\ RemovedRows' = RemovedRows \ {d}
      /\ CumulativeRows' = CumulativeRows \ {d}
      /\ DeprecatedRows' = DeprecatedRows \ {d}
      /\ Stored' = Stored
  BY <1>2, <1>3 DEF RemovedRows, CumulativeRows, DeprecatedRows, Stored
<1>5. FilesShown' = [FilesShown EXCEPT ![d] = {}]
  BY <1>1, <1>2, <1>4 DEF FlushDataset, DeleteRows, FilesShown, AvailableFiles, PublishedRows
<1> QED BY <1>1, <1>2, <1>4, <1>5 DEF Unseen, Published!Flush

LEMMA RestorationReturns ==
    ASSUME TypeOK, NEW d \in Dataset, RestoreDataset(d)
    PROVE  Unseen /\ Published!Return(d)
<1>1. UNCHANGED << state, deprecated, cumulative, files, fileState >>
  BY DEF RestoreDataset
<1>2. UNCHANGED << PublishedRows, NotYetPublished, Stored >>
  BY <1>1 DEF PublishedRows, NotYetPublished, Stored
<1>3. UNCHANGED << CumulativeRows, DeprecatedRows, FilesShown >>
  BY <1>1, <1>2 DEF CumulativeRows, DeprecatedRows, FilesShown, AvailableFiles
<1>4. d \in RemovedRows /\ RemovedRows' = RemovedRows \ {d}
  BY <1>2 DEF RestoreDataset, RemovedRows, PublishedRows, TypeOK
<1> QED BY <1>2, <1>3, <1>4 DEF Unseen, Published!Return

LEMMA FileIsLost ==
    ASSUME TypeOK, NEW f \in File, DeleteFile(f) \/ FlushFile(f)
    PROVE  Unseen /\ Published!LoseFile(f)
<1>1. UNCHANGED << state, removed, cumulative >>
  BY DEF DeleteFile, FlushFile
<1>2. UNCHANGED << PublishedRows, NotYetPublished, RemovedRows, CumulativeRows >>
  BY <1>1 DEF PublishedRows, NotYetPublished, RemovedRows, CumulativeRows
<1>3. Stored' = Stored \ {f}
  BY DEF DeleteFile, FlushFile, Stored, TypeOK
<1>4. \A d \in Dataset : files'[d] = files[d] \/ files'[d] = files[d] \ {f}
  BY DEF DeleteFile, FlushFile
<1>5. \A d \in Dataset : AvailableFiles(d)' = AvailableFiles(d) \ {f}
  BY <1>3, <1>4 DEF AvailableFiles
<1>6. FilesShown' = [d \in Dataset |-> FilesShown[d] \ {f}]
  BY <1>2, <1>5 DEF FilesShown
<1>7. \A d \in Dataset : deprecated'[d] <=> deprecated[d] \/ d \in DatasetsToDeprecate(f)
  BY Zenon DEF DeleteFile, FlushFile, DeprecateDatasets
<1>8. \A d \in PublishedRows : f \in FilesShown[d] =>
          deprecated[d] \/ d \in DatasetsToDeprecate(f)
  BY DEF PublishedRows, FilesShown, AvailableFiles, DatasetsToDeprecate, HasPublishedFiles,
         HasFiles, Rows
<1>9. DeprecatedRows \cup {d \in PublishedRows : f \in FilesShown[d]} \subseteq DeprecatedRows'
  BY <1>2, <1>7, <1>8 DEF DeprecatedRows, PublishedRows
<1>10. DeprecatedRows' \subseteq PublishedRows
  BY <1>2 DEF DeprecatedRows
<1> QED BY <1>2, <1>3, <1>6, <1>9, <1>10 DEF Unseen, Published!LoseFile

-----------------------------------------------------------------------------
(* The refinement. *)

RInv == IInv /\ DeprecatedRowsWerePublished

LEMMA RefinedInit == Init => Published!Init
<1> SUFFICES ASSUME Init PROVE Published!Init OBVIOUS
<1>1. PublishedRows = {} /\ NotYetPublished = Dataset /\ Stored = File
  BY DEF Init, PublishedRows, NotYetPublished, Stored
<1> QED BY <1>1 DEF Published!Init, RemovedRows, CumulativeRows, DeprecatedRows, FilesShown

LEMMA RefinedStep == RInv /\ [Next]_vars => [Published!Next]_Published!vars
<1> SUFFICES ASSUME RInv, [Next]_vars PROVE [Published!Next]_Published!vars OBVIOUS
<1> USE DEF RInv, IInv
<1>0. ASSUME SeenSame, Unseen PROVE Published!Next
  BY <1>0 DEF SeenSame, Unseen, Published!Next
<1>1. ASSUME NEW d \in Dataset, NEW st \in {"draft", "published"},
             NEW c \in CumulativeState, NEW fs \in SUBSET File, CreateDataset(d, st, c, fs)
      PROVE  Published!Next
  <2>1. CASE st = "draft"
    BY <1>0, <1>1, <2>1, DraftsAreNotSeen DEF CreateDataset, Unseen
  <2>2. CASE st = "published"
    <3>1. /\ state[d] = "unused" /\ state' = [state EXCEPT ![d] = "published"]
          /\ UNCHANGED << removed, deprecated, fileState >>
      BY <1>1, <2>2 DEF CreateDataset, AddRow
    <3>2. \A e \in Dataset \ {d} : files'[e] = files[e] /\ cumulative'[e] = cumulative[e]
      BY <1>1 DEF CreateDataset, AddRow, TypeOK
    <3>3. ~removed[d] /\ ~deprecated[d] /\ d \in NotYetPublished
      BY <3>1 DEF RowsAreCreatedInTurn, DeprecatedRowsWerePublished, NotYetPublished
    <3>4. Unseen /\ Published!Publish(d)
      BY <3>1, <3>2, <3>3, RowIsPublished
    <3> QED BY <3>4 DEF Unseen, Published!Next
  <2> QED BY <2>1, <2>2
<1>2. ASSUME NEW p \in Dataset, NEW d \in Dataset, CreateNewVersion(p, d) \/ CreateNewDraft(p, d)
      PROVE  Published!Next
  <2>1. \E v, c, fs, original : AddRow(d, "draft", original, v, c, fs)
    BY <1>2 DEF CreateNewVersion, CreateNewDraft
  <2> QED BY <1>0, <2>1, DraftsAreNotSeen DEF Unseen
<1>3. ASSUME NEW d \in Dataset, DeleteDraft(d) PROVE Published!Next
  BY <1>0, <1>3, DraftsAreNotSeen DEF Unseen
<1>4. ASSUME NEW d \in Dataset, NEW added \in SUBSET File, NEW dropped \in SUBSET File,
             NEW c \in CumulativeState, UpdateDataset(d, added, dropped, c)
      PROVE  Published!Next
  <2>1. CASE d \in PublishedRows
    BY <1>4, <2>1, UpdateIsAChange DEF Unseen, Published!Next
  <2>2. CASE d \notin PublishedRows
    <3>1. state[d] = "draft"
      BY <1>4, <2>2 DEF UpdateDataset, Rows, PublishedRows
    <3> QED BY <1>0, <1>4, <3>1, DraftsAreNotSeen DEF Unseen
  <2> QED BY <2>1, <2>2
<1>5. ASSUME NEW d \in Dataset, PublishDataset(d) PROVE Published!Next
  <2>1. /\ state[d] = "draft" /\ draftOf[d] = None /\ state' = [state EXCEPT ![d] = "published"]
        /\ UNCHANGED << removed, deprecated, cumulative, files, fileState >>
    BY <1>5 DEF PublishDataset
  <2>2. ~removed[d] /\ ~deprecated[d] /\ d \in NotYetPublished
    BY <2>1 DEF RowsAreCreatedInTurn, DeprecatedRowsWerePublished, NotYetPublished
  <2>3. Unseen /\ Published!Publish(d)
    BY <2>1, <2>2, RowIsPublished
  <2> QED BY <2>3 DEF Unseen, Published!Next
<1>6. ASSUME NEW d \in Dataset, MergeDraft(d) PROVE Published!Next
  BY <1>6, MergeIsAChange DEF Unseen, Published!Next
<1>7. ASSUME NEW d \in Dataset, DeletePublished(d) PROVE Published!Next
  BY <1>7, DeletionWithdraws DEF Unseen, Published!Next
<1>8. ASSUME NEW d \in Dataset, FlushDataset(d) PROVE Published!Next
  BY <1>8, FlushingIsFinal DEF Unseen, Published!Next
<1>9. ASSUME NEW d \in Dataset, RestoreDataset(d) PROVE Published!Next
  BY <1>9, RestorationReturns DEF Unseen, Published!Next
<1>10. ASSUME NEW f \in File, DeleteFile(f) \/ FlushFile(f) PROVE Published!Next
  BY <1>10, FileIsLost DEF Unseen, Published!Next
<1>11. CASE UNCHANGED vars
  BY <1>11 DEF vars, Published!vars, NotYetPublished, PublishedRows, RemovedRows, CumulativeRows,
               DeprecatedRows, FilesShown, AvailableFiles, Stored
<1> QED
  BY <1>1, <1>2, <1>3, <1>4, <1>5, <1>6, <1>7, <1>8, <1>9, <1>10, <1>11
     DEF Next, DatasetRequest, FileRequest

\* Whatever editors do, readers see what PublishedDatasets promises: requests of
\* DatasetViewSet and FileViewSet implement it.
THEOREM Refinement == Spec => ImplementsPublishedDatasets
<1>1. Init => Published!Init
  BY RefinedInit
<1>2. Spec => []RInv
  <2>1. Init => DeprecatedRowsWerePublished
    BY DeprecatedInit
  <2>2. TypeOK /\ DeprecatedRowsWerePublished /\ [Next]_vars => DeprecatedRowsWerePublished'
    BY DeprecatedStep
  <2> QED BY <2>1, <2>2, TypeCorrect, Invariance, PTL DEF Spec, RInv
<1>3. RInv /\ [Next]_vars => [Published!Next]_Published!vars
  BY RefinedStep
<1> QED BY <1>1, <1>2, <1>3, PTL DEF Spec, ImplementsPublishedDatasets, Published!Spec
=============================================================================
