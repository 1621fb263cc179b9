-------------------------- MODULE DatasetCaches_proofs --------------------------
(* What the caches of a dataset never show, for any number of requests that     *)
(* read it, of changes and of files.                                            *)
EXTENDS DatasetCaches, TLAPS

Row == [modified : Version, nested : Version, files : SUBSET File]

Tx == [modified : Version, files : SUBSET File, totals : Totals,
       storage : Version, locksFileSet : BOOLEAN, shown : BOOLEAN]

Seen == [modified : Version, content : Content, totals : Totals, storage : Version]

Place == {"idle", "look up", "prefetch", "count", "save totals", "store"}

-----------------------------------------------------------------------------
(* The inductive invariant. *)

\* record_modified of the dataset is the greatest that was committed; that of a
\* running request is greater.
VersionsGrow ==
    /\ row.modified <= clock
    /\ row.modified \notin rolledBack
    /\ \A v \in rolledBack : v <= clock
    /\ tx # None => /\ row.modified < tx.modified
                    /\ tx.modified <= clock
                    /\ tx.modified \notin rolledBack

\* A version that the dataset has or had.
Committed(v) == v <= row.modified /\ v \notin rolledBack

\* An entry is not older than it says; what it holds has been committed, unless
\* it is what its stamp says and that will not be the row's.
EntryIsGood ==
    cache # None => /\ cache.modified <= cache.content.main
                    /\ cache.content.main = cache.modified \/ Committed(cache.content.main)

ReadersAreGood ==
    \A r \in Reader :
        /\ Committed(reply[r])
        /\ pc[r] # "idle" => /\ Committed(seen[r].modified)
                             /\ reply[r] <= seen[r].modified
        /\ pc[r] \in {"count", "save totals", "store"} =>
               /\ Committed(seen[r].content.main)
               /\ seen[r].modified <= seen[r].content.main

ShowInv == TypeOK /\ VersionsGrow /\ EntryIsGood /\ ReadersAreGood

-----------------------------------------------------------------------------
(* Types. *)

LEMMA InitIsGood == Init => ShowInv
<1> SUFFICES ASSUME Init PROVE ShowInv OBVIOUS
<1>1. 0 \in Version
  BY CachesAssumption DEF Version
<1>2. NoContent \in Content /\ NoTotals \in Totals
  BY <1>1 DEF NoContent, NoTotals, Content, Totals
<1>3. Nothing \in Seen
  BY <1>1, <1>2 DEF Nothing, Seen
<1>4. row \in Row /\ row.modified = 0
  BY <1>1 DEF Init, Row
<1>5. TypeOK
  BY <1>1, <1>2, <1>3, <1>4, Zenon DEF Init, TypeOK, Row, Seen
<1>6. VersionsGrow /\ EntryIsGood
  BY <1>4 DEF Init, VersionsGrow, EntryIsGood
<1>7. \A r \in Reader : pc[r] = "idle" /\ reply[r] = 0
  BY DEF Init, NoContent
<1>8. ReadersAreGood
  BY <1>4, <1>7 DEF ReadersAreGood, Committed, Init
<1> QED BY <1>5, <1>6, <1>8 DEF ShowInv

LEMMA CountIsTyped ==
    ASSUME NEW cached \in Totals, NEW stamp \in Version, NEW files \in SUBSET File
    PROVE  Count(cached, stamp, files) \in Totals
BY DEF Count, Available, Totals

LEMMA TickIsTyped == TypeOK /\ Tick => clock' \in Version /\ clock' = clock + 1
<1>1. TypeOK => clock \in Version
  BY Zenon DEF TypeOK
<1> QED BY <1>1, CachesAssumption DEF Tick, Version

LEMMA TypeStep == TypeOK /\ [Next]_vars => TypeOK'
<1> SUFFICES ASSUME TypeOK, [Next]_vars PROVE TypeOK' OBVIOUS
<1>1. ASSUME NEW added \in SUBSET File, Update(added) PROVE TypeOK'
  <2>1. clock' \in Version
    BY <1>1, TickIsTyped DEF Update
  <2>2. NoTotals \in Totals
    BY DEF NoTotals, Totals
  <2>3. tx' \in Tx
    BY <1>1, <2>1, <2>2, Zenon DEF Update, TypeOK, Tx
  <2> QED BY <1>1, <2>1, <2>3, Zenon DEF Update, TypeOK, Tx, readers
<1>2. CASE ShowUpdate
  <2>1. tx \in Tx
    BY <1>2, Zenon DEF ShowUpdate, TypeOK, Tx
  <2>2. TotalsSeen \in Totals
    BY <2>1, Zenon DEF TotalsSeen, Tx, TypeOK
  <2>3. PICK counted \in Totals :
            /\ counted.files \in SUBSET File
            /\ cache' = [modified |-> tx.modified,
                         content |-> [main |-> tx.modified, nested |-> row.nested,
                                      files |-> counted.files]]
            /\ tx' = [tx EXCEPT !.shown = TRUE, !.totals = counted,
                                !.locksFileSet = @ \/ counted # TotalsSeen]
    BY <1>2, <2>1, <2>2, CountIsTyped, Zenon DEF ShowUpdate, Tx, Totals
  <2>4. tx' \in Tx
    BY <2>1, <2>3, Zenon DEF Tx
  <2>5. cache' \in Entry
    BY <2>1, <2>3, Zenon DEF Entry, Content, TypeOK, Tx
  <2> QED BY <1>2, <2>4, <2>5, Zenon DEF ShowUpdate, TypeOK, Tx, readers
<1>3. CASE CommitUpdate
  <2>1. tx \in Tx
    BY <1>3, Zenon DEF CommitUpdate, TypeOK, Tx
  <2>2. TotalsSeen \in Totals
    BY <2>1, Zenon DEF TotalsSeen, Tx, TypeOK
  <2>3. row' \in Row
    BY <1>3, <2>1, Zenon DEF CommitUpdate, TypeOK, Tx, Row
  <2> QED BY <1>3, <2>2, <2>3, Zenon DEF CommitUpdate, TypeOK, Row, readers
<1>4. CASE RollBack
  <2>1. tx.modified \in Version
    BY <1>4, Zenon DEF RollBack, TypeOK
  <2> QED BY <1>4, <2>1, Zenon DEF RollBack, TypeOK, readers
<1>5. CASE UpdateNested
  <2>1. clock' \in Version
    BY <1>5, TickIsTyped DEF UpdateNested
  <2>2. row' \in Row
    BY <1>5, <2>1, Zenon DEF UpdateNested, TypeOK, Row
  <2> QED BY <1>5, <2>1, <2>2, Zenon DEF UpdateNested, TypeOK, Row, readers
<1>6. ASSUME NEW f \in File, DeleteFile(f) PROVE TypeOK'
  <2>1. clock' \in Version
    BY <1>6, TickIsTyped DEF DeleteFile
  <2>2. row' \in Row
    BY <1>6, <2>1, Zenon DEF DeleteFile, TypeOK, Row
  <2>3. deprecated' \in BOOLEAN
    BY <1>6, Zenon DEF DeleteFile, TypeOK
  <2> QED BY <1>6, <2>1, <2>2, <2>3, Zenon DEF DeleteFile, TypeOK, Row, readers
<1>7. ASSUME NEW r \in Reader, ReadRow(r) PROVE TypeOK'
  <2>1. seen' \in [Reader -> Seen]
    BY <1>7, Zenon DEF ReadRow, TypeOK, Seen
  <2>2. pc' \in [Reader -> Place]
    BY <1>7, Zenon DEF ReadRow, GoTo, TypeOK, Place
  <2> QED BY <1>7, <2>1, <2>2, Zenon DEF ReadRow, TypeOK, Seen, Place, database
<1>8. ASSUME NEW r \in Reader, LookUp(r) PROVE TypeOK'
  <2>1. Nothing \in Seen
    BY CachesAssumption DEF Nothing, NoContent, NoTotals, Seen, Content, Totals, Version
  <2>2. seen' \in [Reader -> Seen]
    BY <1>8, <2>1, Zenon DEF LookUp, TypeOK, Seen
  <2>3. pc' \in [Reader -> Place]
    BY <1>8, Zenon DEF LookUp, GoTo, TypeOK, Place
  <2>4. IsFor(cache, seen[r].modified) => cache.content.main \in Version
    BY Zenon DEF IsFor, TypeOK, Entry, Content
  <2>5. reply' \in [Reader -> Version]
    BY <1>8, <2>4, Zenon DEF LookUp, TypeOK
  <2> QED BY <1>8, <2>2, <2>3, <2>5, Zenon DEF LookUp, TypeOK, Seen, Place, database
<1>9. ASSUME NEW r \in Reader, Prefetch(r) PROVE TypeOK'
  <2>1. seen[r] \in Seen /\ row.modified \in Version /\ row.nested \in Version
    BY Zenon DEF TypeOK, Seen
  <2>2. [seen[r].content EXCEPT !.main = row.modified, !.nested = row.nested] \in Content
    BY <2>1, Zenon DEF Seen, Content
  <2>3. seen' = [seen EXCEPT ![r] =
            [@ EXCEPT !.content = [seen[r].content EXCEPT !.main = row.modified,
            !.nested = row.nested],
                      !.totals = totals, !.storage = storage]]
    BY <1>9, <2>1, Zenon DEF Prefetch, TypeOK, Seen, Content
  <2>4. seen' \in [Reader -> Seen]
    BY <2>1, <2>2, <2>3, Zenon DEF TypeOK, Seen
  <2>5. pc' \in [Reader -> Place]
    BY <1>9, Zenon DEF Prefetch, GoTo, TypeOK, Place
  <2> QED BY <1>9, <2>4, <2>5, Zenon DEF Prefetch, TypeOK, Seen, Place, database
<1>10. ASSUME NEW r \in Reader, CountFiles(r) PROVE TypeOK'
  <2>1. seen[r] \in Seen /\ row.files \in SUBSET File
    BY Zenon DEF TypeOK, Seen
  <2>2. Count(seen[r].totals, seen[r].storage, row.files) \in Totals
    BY <2>1, CountIsTyped DEF Seen
  <2>3. seen' \in [Reader -> Seen]
    BY <1>10, <2>1, <2>2, Zenon DEF CountFiles, TypeOK, Seen, Totals, Content
  <2>4. pc' \in [Reader -> Place]
    BY <1>10, Zenon DEF CountFiles, GoTo, TypeOK, Place
  <2> QED BY <1>10, <2>3, <2>4, Zenon DEF CountFiles, TypeOK, Seen, Place, database
<1>11. ASSUME NEW r \in Reader, SaveTotals(r) PROVE TypeOK'
  <2>1. totals' \in Totals
    BY <1>11, Zenon DEF SaveTotals, StampToSave, TypeOK, Totals
  <2>2. pc' \in [Reader -> Place]
    BY <1>11, Zenon DEF SaveTotals, GoTo, TypeOK, Place
  <2> QED BY <1>11, <2>1, <2>2, Zenon DEF SaveTotals, TypeOK, Place, database
<1>12. ASSUME NEW r \in Reader, Store(r) PROVE TypeOK'
  <2>1. Nothing \in Seen
    BY CachesAssumption DEF Nothing, NoContent, NoTotals, Seen, Content, Totals, Version
  <2>2. seen' \in [Reader -> Seen] /\ reply' \in [Reader -> Version]
    BY <1>12, <2>1, Zenon DEF Store, TypeOK, Seen, Content
  <2>3. cache' \in Entry
    BY <1>12, Zenon DEF Store, StampOfEntry, Entry, TypeOK
  <2>4. pc' \in [Reader -> Place]
    BY <1>12, Zenon DEF Store, GoTo, TypeOK, Place
  <2> QED BY <1>12, <2>2, <2>3, <2>4, Zenon DEF Store, TypeOK, Seen, Place, database
<1>13. CASE Evict
  BY <1>13, Zenon DEF Evict, TypeOK, database, readers
<1>15. ASSUME NEW r \in Reader, LookPast(r) PROVE TypeOK'
  <2>1. pc' \in [Reader -> Place]
    BY <1>15, Zenon DEF LookPast, GoTo, TypeOK, Place
  <2> QED BY <1>15, <2>1, Zenon DEF LookPast, TypeOK, Place, database
<1>14. CASE UNCHANGED vars
  BY <1>14, ZenonT(60) DEF vars, TypeOK
<1> QED
  BY <1>1, <1>2, <1>3, <1>4, <1>5, <1>6, <1>7, <1>8, <1>9, <1>10, <1>11, <1>12, <1>13, <1>14,
     <1>15, Zenon
     DEF Next, Available

-----------------------------------------------------------------------------
(* What is shown. *)

LEMMA VersionsAreNumbers == Version \subseteq Nat
BY CachesAssumption DEF Version

\* The row's version only grows, and none that it had is rolled back.
LEMMA CommittedStays ==
    ASSUME ShowInv, [Next]_vars, NEW v \in Version, Committed(v)
    PROVE  Committed(v)'
<1> SUFFICES v <= row'.modified /\ v \notin rolledBack'
  BY DEF Committed
<1>1. row.modified \in Nat /\ v \in Nat /\ clock \in Nat
  BY VersionsAreNumbers, Zenon DEF ShowInv, TypeOK
<1>2. CASE UNCHANGED << row, rolledBack >>
  BY <1>2 DEF Committed
<1>3. CASE CommitUpdate
  <2>1. tx.modified \in Nat /\ row.modified < tx.modified
    BY <1>3, VersionsAreNumbers, Zenon DEF CommitUpdate, ShowInv, TypeOK, VersionsGrow
  <2>2. row'.modified = tx.modified /\ rolledBack' = rolledBack
    BY <1>3, Zenon DEF CommitUpdate, ShowInv, TypeOK
  <2> QED BY <1>1, <2>1, <2>2 DEF Committed
<1>4. CASE RollBack
  <2>1. tx.modified \in Nat /\ row.modified < tx.modified
    BY <1>4, VersionsAreNumbers, Zenon DEF RollBack, ShowInv, TypeOK, VersionsGrow
  <2> QED BY <1>1, <1>4, <2>1 DEF RollBack, Committed
<1>5. CASE UpdateNested
  BY <1>5, Zenon DEF UpdateNested, Committed, ShowInv, TypeOK
<1>6. ASSUME NEW f \in File, DeleteFile(f) PROVE v <= row'.modified /\ v \notin rolledBack'
  <2>1. row'.modified = row.modified \/ row'.modified = clock + 1
    BY <1>6, TickIsTyped, Zenon DEF DeleteFile, ShowInv, TypeOK
  <2> QED BY <1>1, <1>6, <2>1 DEF DeleteFile, Committed, ShowInv, VersionsGrow
<1> QED
  BY <1>2, <1>3, <1>4, <1>5, <1>6, ZenonT(60)

     DEF Next, Update, ShowUpdate, ReadRow, LookUp, LookPast, Prefetch, CountFiles, SaveTotals, Store,
         Evict, database, readers, vars

LEMMA VersionsStep == ShowInv /\ [Next]_vars => VersionsGrow'
<1> SUFFICES ASSUME ShowInv, [Next]_vars PROVE VersionsGrow' OBVIOUS
<1> USE VersionsAreNumbers DEF ShowInv
<1>1. clock \in Nat /\ row.modified \in Nat /\ rolledBack \subseteq Nat
  BY Zenon DEF TypeOK
<1>2. ASSUME NEW added \in SUBSET File, Update(added) PROVE VersionsGrow'
  <2>1. clock' = clock + 1 /\ UNCHANGED << row, rolledBack >>
    BY <1>2, TickIsTyped DEF Update
  <2>2. tx'.modified = clock + 1
    BY <1>2, <2>1 DEF Update
  <2> QED BY <1>1, <2>1, <2>2 DEF VersionsGrow
<1>3. CASE ShowUpdate
  <2>1. tx'.modified = tx.modified /\ tx # None /\ UNCHANGED << clock, row, rolledBack >>
    BY <1>3, Zenon DEF ShowUpdate, TypeOK
  <2> QED BY <2>1 DEF VersionsGrow
<1>4. CASE CommitUpdate
  <2>1. row'.modified = tx.modified /\ tx' = None /\ tx # None /\ UNCHANGED << clock, rolledBack >>
    BY <1>4, Zenon DEF CommitUpdate, TypeOK
  <2> QED BY <2>1 DEF VersionsGrow
<1>5. CASE RollBack
  <2>1. tx.modified \in Nat /\ row.modified < tx.modified
    BY <1>5, Zenon DEF RollBack, TypeOK, VersionsGrow
  <2>2. /\ rolledBack' = rolledBack \cup {tx.modified} /\ tx' = None
        /\ tx # None /\ UNCHANGED << clock, row >>
    BY <1>5 DEF RollBack
  <2> QED BY <1>1, <2>1, <2>2 DEF VersionsGrow
<1>6. CASE UpdateNested
  <2>1. clock' = clock + 1
    BY <1>6, TickIsTyped DEF UpdateNested
  <2>2. row'.modified = row.modified /\ tx' = tx /\ tx = None /\ rolledBack' = rolledBack
    BY <1>6, Zenon DEF UpdateNested, TypeOK
  <2> QED BY <1>1, <2>1, <2>2 DEF VersionsGrow
<1>7. ASSUME NEW f \in File, DeleteFile(f) PROVE VersionsGrow'
  <2>1. clock' = clock + 1 /\ UNCHANGED << tx, rolledBack >>
    BY <1>7, TickIsTyped DEF DeleteFile
  <2>2. row'.modified = row.modified \/ (row'.modified = clock + 1 /\ tx = None)
    BY <1>7, <2>1, Zenon DEF DeleteFile, TypeOK
  <2>3. tx # None => tx.modified \in Nat
    BY Zenon DEF TypeOK
  <2> QED BY <1>1, <2>1, <2>2, <2>3 DEF VersionsGrow
<1>8. CASE UNCHANGED << clock, row, tx, rolledBack >>
  BY <1>8 DEF VersionsGrow
<1> QED
  BY <1>2, <1>3, <1>4, <1>5, <1>6, <1>7, <1>8, ZenonT(60)
     DEF Next, ReadRow, LookUp, LookPast, Prefetch, CountFiles, SaveTotals, Store, Evict, database,
         vars, Available

LEMMA EntryStep == ShowInv /\ [Next]_vars => EntryIsGood'
<1> SUFFICES ASSUME ShowInv, [Next]_vars PROVE EntryIsGood' OBVIOUS
<1> USE DEF ShowInv
<1>1. CASE cache' = cache
  <2>1. cache # None => cache.content.main \in Version
    BY Zenon DEF TypeOK, Entry, Content
  <2> QED BY <1>1, <2>1, CommittedStays DEF EntryIsGood
<1>2. CASE cache' = None
  BY <1>2 DEF EntryIsGood
<1>3. CASE ShowUpdate
  <2>1. cache'.modified = tx.modified /\ cache'.content.main = tx.modified /\ tx.modified \in Nat
    BY <1>3, VersionsAreNumbers, Zenon DEF ShowUpdate, TypeOK
  <2> QED BY <2>1 DEF EntryIsGood
<1>4. ASSUME NEW r \in Reader, Store(r) PROVE EntryIsGood'
  <2>1. cache'.modified = seen[r].modified /\ cache'.content.main = seen[r].content.main
    BY <1>4 DEF Store, StampOfEntry
  <2>2. Committed(seen[r].content.main) /\ seen[r].modified <= seen[r].content.main
    BY <1>4, Zenon DEF Store, ReadersAreGood
  <2>3. Committed(cache.content.main)'
    BY <1>4, <2>1, <2>2 DEF Store, database, Committed
  <2> QED BY <2>1, <2>2, <2>3 DEF EntryIsGood
<1> QED
  BY <1>1, <1>2, <1>3, <1>4, Zenon
     DEF Next, Update, CommitUpdate, RollBack, UpdateNested, DeleteFile, ReadRow, LookUp, LookPast,
         Prefetch, CountFiles, SaveTotals, Evict, database, vars

LEMMA ReadersStep == ShowInv /\ [Next]_vars => ReadersAreGood'
<1> SUFFICES ASSUME ShowInv, [Next]_vars, NEW x \in Reader
             PROVE  /\ Committed(reply[x])'
                    /\ pc'[x] # "idle" => /\ Committed(seen[x].modified)'
                                          /\ reply'[x] <= seen'[x].modified
                    /\ pc'[x] \in {"count", "save totals", "store"} =>
                           /\ Committed(seen[x].content.main)'
                           /\ seen'[x].modified <= seen'[x].content.main
  BY Zenon DEF ReadersAreGood
<1> USE DEF ShowInv
<1> DEFINE Good == /\ Committed(reply[x])'
                   /\ pc'[x] # "idle" => /\ Committed(seen[x].modified)'
                                         /\ reply'[x] <= seen'[x].modified
                   /\ pc'[x] \in {"count", "save totals", "store"} =>
                          /\ Committed(seen[x].content.main)'
                          /\ seen'[x].modified <= seen'[x].content.main
<1>1. /\ reply[x] \in Version /\ seen[x].modified \in Version
      /\ seen[x].content.main \in Version /\ row.modified \in Version
  BY Zenon DEF TypeOK, Content
<1>2. /\ Committed(reply[x])
      /\ pc[x] # "idle" => Committed(seen[x].modified) /\ reply[x] <= seen[x].modified
      /\ pc[x] \in {"count", "save totals", "store"} =>
             Committed(seen[x].content.main) /\ seen[x].modified <= seen[x].content.main
  BY Zenon DEF ReadersAreGood
<1>3. \A v \in Version : Committed(v) => v <= row'.modified /\ v \notin rolledBack'
  BY CommittedStays DEF Committed
<1>4. Committed(row.modified)
  <2>1. row.modified \in Nat
    BY <1>1, VersionsAreNumbers, Zenon
  <2>2. row.modified \notin rolledBack
    BY DEF VersionsGrow
  <2> QED BY <2>1, <2>2 DEF Committed
<1> HIDE DEF ShowInv
<1>5. CASE /\ reply'[x] = reply[x] /\ pc'[x] = pc[x]
           /\ seen'[x].modified = seen[x].modified
           /\ seen'[x].content.main = seen[x].content.main
  BY <1>1, <1>2, <1>3, <1>5, Zenon DEF Committed
<1>6. ASSUME NEW r \in Reader, ReadRow(r) PROVE Good
  <2>1. CASE r = x
    <3>1. pc'[x] = "look up" /\ reply' = reply /\ seen'[x].modified = row.modified
      BY <1>6, <2>1, Zenon DEF ReadRow, GoTo, ShowInv, TypeOK
    <3>2. reply[x] <= row.modified
      BY <1>2, Zenon DEF Committed
    <3> QED BY <1>1, <1>2, <1>3, <1>4, <3>1, <3>2, Zenon DEF Committed
  <2>2. CASE r # x
    BY <1>5, <1>6, <2>2, Zenon DEF ReadRow, GoTo, ShowInv, TypeOK
  <2> QED BY <2>1, <2>2, Zenon
<1>7. ASSUME NEW r \in Reader, LookUp(r) PROVE Good
  <2>1. CASE r = x /\ IsFor(cache, seen[r].modified)
    <3>1. pc'[x] = "idle" /\ reply'[x] = cache.content.main
      BY <1>7, <2>1, Zenon DEF LookUp, GoTo, ShowInv, TypeOK
    <3>2. cache # None /\ cache.modified = seen[x].modified /\ pc[x] = "look up"
      BY <1>7, <2>1, Zenon DEF LookUp, IsFor
    <3>3. Committed(cache.content.main) /\ cache.content.main \in Version
      BY <1>2, <3>2, Zenon DEF ShowInv, EntryIsGood, TypeOK, Entry, Content
    <3> QED BY <1>3, <3>1, <3>3 DEF Committed
  <2>2. CASE r = x /\ ~IsFor(cache, seen[r].modified)
    <3>1. pc'[x] = "prefetch" /\ reply' = reply /\ seen' = seen /\ pc[x] = "look up"
      BY <1>7, <2>2, Zenon DEF LookUp, GoTo, ShowInv, TypeOK
    <3> QED BY <1>1, <1>2, <1>3, <3>1, Zenon DEF Committed
  <2>3. CASE r # x
    BY <1>5, <1>7, <2>3, Zenon DEF LookUp, GoTo, ShowInv, TypeOK
  <2> QED BY <2>1, <2>2, <2>3, Zenon
<1>8. ASSUME NEW r \in Reader, Prefetch(r) PROVE Good
  <2>1. CASE r = x
    <3>1. pc'[x] = "count" /\ reply' = reply /\ pc[x] = "prefetch"
      BY <1>8, <2>1, Zenon DEF Prefetch, GoTo, ShowInv, TypeOK
    <3>2. seen'[x].content.main = row.modified /\ seen'[x].modified = seen[x].modified
      <4>1. seen \in [Reader -> Seen]
        BY Zenon DEF ShowInv, TypeOK, Seen
      <4>2. seen[x] \in Seen /\ seen[x].content \in Content
        BY <4>1 DEF Seen
      <4>3. seen'[x] = [seen[x] EXCEPT !.content.main = row.modified, !.content.nested = row.nested,
                                       !.totals = totals, !.storage = storage]
        BY <1>8, <2>1, <4>1 DEF Prefetch
      <4> QED BY <4>2, <4>3, Zenon DEF Seen, Content
    <3>3. seen[x].modified <= row.modified
      BY <1>2, <3>1 DEF Committed
    <3> QED BY <1>1, <1>2, <1>3, <1>4, <3>1, <3>2, <3>3 DEF Committed
  <2>2. CASE r # x
    BY <1>5, <1>8, <2>2, Zenon DEF Prefetch, GoTo, ShowInv, TypeOK
  <2> QED BY <2>1, <2>2, Zenon
<1>9. ASSUME NEW r \in Reader, CountFiles(r) PROVE Good
  <2>1. CASE r = x
    <3>1. pc'[x] # "idle" /\ pc'[x] # "look up" /\ reply' = reply /\ pc[x] = "count"
      BY <1>9, <2>1, Zenon DEF CountFiles, GoTo, ShowInv, TypeOK
    <3>2. /\ seen'[x].content.main = seen[x].content.main
          /\ seen'[x].modified = seen[x].modified
      <4> DEFINE counted == Count(seen[x].totals, seen[x].storage, row.files)
      <4>1. seen \in [Reader -> Seen]
        BY Zenon DEF ShowInv, TypeOK, Seen
      <4>2. seen[x] \in Seen /\ seen[x].content \in Content
        BY <4>1 DEF Seen
      <4>3. seen'[x] = [seen[x] EXCEPT !.content.files = counted.files, !.totals = counted]
        BY <1>9, <2>1, <4>1, Zenon DEF CountFiles
      <4> QED BY <4>2, <4>3 DEF Seen, Content
    <3> QED BY <1>1, <1>2, <1>3, <3>1, <3>2, Zenon DEF Committed
  <2>2. CASE r # x
    BY <1>5, <1>9, <2>2, Zenon DEF CountFiles, GoTo, ShowInv, TypeOK
  <2> QED BY <2>1, <2>2, Zenon
<1>10. ASSUME NEW r \in Reader, SaveTotals(r) PROVE Good
  <2>1. UNCHANGED << seen,
  reply >> /\ (pc'[x] = pc[x] \/ (pc'[x] = "store" /\ pc[x] = "save totals"))
    BY <1>10, Zenon DEF SaveTotals, GoTo, ShowInv, TypeOK
  <2> QED BY <1>1, <1>2, <1>3, <2>1, Zenon DEF Committed
<1>11. ASSUME NEW r \in Reader, Store(r) PROVE Good
  <2>1. CASE r = x
    <3>1. pc'[x] = "idle" /\ reply'[x] = seen[x].content.main /\ pc[x] = "store"
      BY <1>11, <2>1, Zenon DEF Store, GoTo, ShowInv, TypeOK
    <3> QED BY <1>1, <1>2, <1>3, <3>1 DEF Committed
  <2>2. CASE r # x
    BY <1>5, <1>11, <2>2, Zenon DEF Store, GoTo, ShowInv, TypeOK
  <2> QED BY <2>1, <2>2, Zenon
<1>12. CASE UNCHANGED readers
  BY <1>5, <1>12, Zenon DEF readers
<1>13. ASSUME NEW r \in Reader, LookPast(r) PROVE Good
  <2>1. UNCHANGED << seen,
  reply >> /\ (pc'[x] = pc[x] \/ (pc'[x] = "prefetch" /\ pc[x] = "look up"))
    BY <1>13, Zenon DEF LookPast, GoTo, ShowInv, TypeOK
  <2> QED BY <1>1, <1>2, <1>3, <2>1, Zenon DEF Committed
<1> QED
  BY <1>6, <1>7, <1>8, <1>9, <1>10, <1>11, <1>12, <1>13, Zenon
     DEF Next, Update, ShowUpdate, CommitUpdate, RollBack, UpdateNested, DeleteFile, Evict,
         readers, vars

LEMMA ShowInvariance == Spec => []ShowInv
<1>1. ShowInv /\ [Next]_vars => ShowInv'
  BY TypeStep, VersionsStep, EntryStep, ReadersStep DEF ShowInv
<1> QED BY InitIsGood, <1>1, PTL DEF Spec

\* Memcached has no transactions, so it may have what a request wrote that failed
\* or has not committed; no reader is shown that.
THEOREM OnlyCommittedIsShownCorrect == Spec => []OnlyCommittedIsShown
<1>1. ShowInv => OnlyCommittedIsShown
  BY Zenon DEF ShowInv, ReadersAreGood, Committed, OnlyCommittedIsShown
<1> QED BY <1>1, ShowInvariance, PTL

\* Readers replace each other's entries in any order, with what they have read
\* in several queries; nobody is shown an older dataset than before.
THEOREM RepliesDoNotGoBackCorrect == Spec => RepliesDoNotGoBack
<1>1. ASSUME ShowInv, [Next]_vars, NEW x \in Reader PROVE reply'[x] >= reply[x]
  <2> USE <1>1, VersionsAreNumbers
  <2>1. reply[x] \in Nat /\ seen[x].modified \in Nat /\ seen[x].content.main \in Nat
    BY Zenon DEF ShowInv, TypeOK, Content
  <2>2. CASE reply'[x] = reply[x]
    BY <2>1, <2>2
  <2>3. CASE LookUp(x) /\ IsFor(cache, seen[x].modified)
    <3>1. reply'[x] = cache.content.main /\ pc[x] = "look up" /\ cache # None
      BY <2>3, Zenon DEF LookUp, IsFor, ShowInv, TypeOK
    <3>2. seen[x].modified <= cache.content.main /\ cache.content.main \in Nat
      BY <2>3, <3>1, Zenon DEF IsFor, ShowInv, EntryIsGood, TypeOK, Entry, Content
    <3>3. reply[x] <= seen[x].modified
      BY <3>1, Zenon DEF ShowInv, ReadersAreGood
    <3>4. reply[x] <= cache.content.main
      BY <2>1, <3>2, <3>3
    <3> QED BY <2>1, <3>1, <3>2, <3>4, Zenon
  <2>4. CASE Store(x)
    <3>1. reply'[x] = seen[x].content.main /\ pc[x] = "store"
      BY <2>4, Zenon DEF Store, ShowInv, TypeOK
    <3>2. reply[x] <= seen[x].modified /\ seen[x].modified <= seen[x].content.main
      BY <3>1, Zenon DEF ShowInv, ReadersAreGood
    <3> QED BY <2>1, <3>1, <3>2
  <2>5. ASSUME NEW r \in Reader, LookUp(r), ~(r = x /\ IsFor(cache, seen[r].modified))
        PROVE  reply'[x] = reply[x]
    BY <2>5, Zenon DEF LookUp, ShowInv, TypeOK
  <2>6. ASSUME NEW r \in Reader, Store(r), r # x PROVE reply'[x] = reply[x]
    BY <2>6, Zenon DEF Store, ShowInv, TypeOK
  <2> QED
    BY <2>2, <2>3, <2>4, <2>5, <2>6, Zenon
       DEF Next, Update, ShowUpdate, CommitUpdate, RollBack, UpdateNested, DeleteFile, ReadRow,
           LookPast, Prefetch, CountFiles, SaveTotals, Evict, readers, vars
<1>2. ShowInv /\ [Next]_vars => [\A r \in Reader : reply'[r] >= reply[r]]_vars
  BY <1>1
<1> QED BY <1>2, ShowInvariance, PTL DEF Spec, RepliesDoNotGoBack

-----------------------------------------------------------------------------
(* What is counted. *)

\* Totals that anyone holds have a stamp that was given, and count for the
\* storage as it is only if they count no deleted file.
AreGood(t) ==
    /\ t.stamp # None => t.stamp <= clock
    /\ t.stamp = storage => t.files \cap deleted = {}

CountInv ==
    /\ TypeOK
    /\ storage <= clock
    /\ AreGood(totals)
    /\ tx # None => AreGood(tx.totals) /\ tx.storage <= storage
    /\ \A r \in Reader : AreGood(seen[r].totals) /\ seen[r].storage <= storage

LEMMA NoTotalsAreGood == TypeOK => AreGood(NoTotals)
BY NoneIsNoVersion, Zenon DEF AreGood, NoTotals, TypeOK

LEMMA CountIsGood ==
    ASSUME CountInv, NEW t \in Totals, AreGood(t), NEW stamp \in Version, stamp <= storage,
           NEW files
    PROVE  AreGood(Count(t, stamp, files))
<1>1. stamp \in Nat /\ storage \in Nat /\ clock \in Nat
  BY VersionsAreNumbers, Zenon DEF CountInv, TypeOK
<1>2. stamp <= clock
  BY <1>1 DEF CountInv
<1> QED BY <1>2 DEF Count, AreGood, Available

\* A step that deletes nothing keeps good totals good.
LEMMA StayGood ==
    ASSUME CountInv, NEW t \in Totals, AreGood(t), UNCHANGED << storage, deleted >>,
           clock' = clock \/ clock' = clock + 1
    PROVE  AreGood(t)'
<1>1. clock \in Nat /\ (t.stamp # None => t.stamp \in Nat)
  BY VersionsAreNumbers, Zenon DEF CountInv, TypeOK, Totals
<1> QED BY <1>1 DEF AreGood

LEMMA CountInit == Init => CountInv
<1>1. Init => TypeOK
  BY InitIsGood DEF ShowInv
<1>2. Init => seen \in [Reader -> {Nothing}] /\ totals = NoTotals /\ tx = None /\ storage = 0 /\ clock = 0
  BY DEF Init
<1> QED BY <1>1, <1>2, NoTotalsAreGood DEF CountInv, Nothing

LEMMA CountStep == CountInv /\ [Next]_vars => CountInv'
<1> SUFFICES ASSUME CountInv, [Next]_vars PROVE CountInv' OBVIOUS
<1> USE VersionsAreNumbers
<1>1. TypeOK /\ TypeOK'
  BY TypeStep DEF CountInv
<1>2. /\ clock \in Nat /\ storage \in Nat /\ storage <= clock
      /\ totals \in Totals /\ AreGood(totals)
      /\ \A r \in Reader : /\ seen[r].totals \in Totals /\ AreGood(seen[r].totals)
                           /\ seen[r].storage \in Version /\ seen[r].storage <= storage
  BY <1>1, Zenon DEF CountInv, TypeOK
<1>3. tx # None => /\ tx.totals \in Totals /\ AreGood(tx.totals)
                   /\ tx.storage \in Version /\ tx.storage <= storage
  BY <1>1, Zenon DEF CountInv, TypeOK
<1>4. ASSUME NEW added \in SUBSET File, Update(added) PROVE CountInv'
  <2>1. clock' = clock + 1 /\ UNCHANGED << storage, deleted, totals, seen >>
    BY <1>1, <1>4, TickIsTyped DEF Update, readers
  <2>2. (tx'.totals = totals \/ tx'.totals = NoTotals) /\ tx'.storage = storage
    BY <1>4 DEF Update
  <2>3. NoTotals \in Totals
    BY DEF NoTotals, Totals
  <2>4. AreGood(totals)' /\ AreGood(NoTotals)' /\ \A r \in Reader : AreGood(seen[r].totals)'
    BY <1>1, <1>2, <2>1, <2>3, StayGood, NoTotalsAreGood
  <2> QED BY <1>1, <1>2, <2>1, <2>2, <2>4 DEF CountInv, AreGood
<1>5. CASE ShowUpdate
  <2> DEFINE counted == Count(TotalsSeen, tx.storage, tx.files)
  <2>1. TotalsSeen \in Totals /\ AreGood(TotalsSeen) /\ tx # None /\ tx.files \in SUBSET File
    BY <1>1, <1>2, <1>3, <1>5, Zenon DEF ShowUpdate, TotalsSeen, TypeOK
  <2>2. counted \in Totals /\ AreGood(counted)
    BY <1>3, <2>1, CountIsGood, CountIsTyped, Zenon
  <2>3. tx'.totals = counted /\ tx'.storage = tx.storage
    BY <1>1, <1>5, <2>1, Zenon DEF ShowUpdate, TypeOK
  <2>4. UNCHANGED << clock, storage, deleted, totals, seen >>
    BY <1>5 DEF ShowUpdate, readers
  <2> HIDE DEF counted
  <2> QED BY <1>1, <1>2, <1>3, <2>1, <2>2, <2>3, <2>4 DEF CountInv, AreGood
<1>6. CASE CommitUpdate
  <2>1. TotalsSeen \in Totals /\ AreGood(TotalsSeen)
    BY <1>2, <1>3, <1>6 DEF CommitUpdate, TotalsSeen
  <2> QED BY <1>1, <1>2, <1>6, <2>1 DEF CommitUpdate, CountInv, AreGood, readers
<1>7. ASSUME NEW f \in File, DeleteFile(f) PROVE CountInv'
  <2>1. clock' = clock + 1 /\ storage' = clock + 1 /\ UNCHANGED << totals, tx, seen >>
    BY <1>1, <1>7, TickIsTyped DEF DeleteFile, readers
  <2>2. ASSUME NEW t \in Totals, AreGood(t) PROVE AreGood(t)'
    <3>1. t.stamp # None => t.stamp \in Nat /\ t.stamp <= clock
      BY <2>2, Zenon DEF AreGood, Totals
    <3>2. storage' # None
      BY <1>1, NoneIsNoVersion, Zenon DEF TypeOK
    <3> QED BY <1>2, <2>1, <3>1, <3>2 DEF AreGood
  <2>3. /\ AreGood(totals)' /\ \A r \in Reader : AreGood(seen[r].totals)'
        /\ tx # None => AreGood(tx.totals)'
    BY <1>2, <1>3, <2>1, <2>2
  <2>4. ASSUME NEW v \in Version, v <= storage PROVE v <= clock + 1
    <3>1. storage \in Nat /\ clock \in Nat /\ storage <= clock
      BY <1>1, <1>2, VersionsAreNumbers, Zenon DEF TypeOK
    <3>2. v \in Nat
      BY VersionsAreNumbers
    <3> QED BY <2>4, <3>1, <3>2
  <2>5. tx # None => tx.storage <= storage'
    BY <1>3, <2>1, <2>4, Zenon
  <2>6. \A r \in Reader : seen[r].storage <= storage'
    BY <1>2, <2>1, <2>4, Zenon
  <2> QED BY <1>1, <1>2, <2>1, <2>3, <2>5, <2>6 DEF CountInv
<1>8. ASSUME NEW r \in Reader, Prefetch(r) PROVE CountInv'
  <2>1. /\ \A x \in Reader : \/ seen'[x].totals = seen[x].totals /\ seen'[x].storage = seen[x].storage
                             \/ seen'[x].totals = totals /\ seen'[x].storage = storage
    <3>1. seen \in [Reader -> Seen]
      BY <1>1, Zenon DEF TypeOK, Seen
    <3>2. seen'[r] = [seen[r] EXCEPT !.content.main = row.modified, !.content.nested = row.nested,
                                     !.totals = totals, !.storage = storage]
      BY <1>8, <3>1 DEF Prefetch
    <3>3. \A x \in Reader : x # r => seen'[x] = seen[x]
      BY <1>8, <3>1 DEF Prefetch
    <3>4. seen'[r].totals = totals /\ seen'[r].storage = storage
      BY <3>1, <3>2 DEF Seen
    <3> QED BY <3>3, <3>4
  <2>2. UNCHANGED << clock, storage, deleted, totals, tx >>
    BY <1>8 DEF Prefetch, database
  <2> QED BY <1>1, <1>2, <1>3, <2>1, <2>2 DEF CountInv, AreGood
<1>9. ASSUME NEW r \in Reader, CountFiles(r) PROVE CountInv'
  <2> DEFINE counted == Count(seen[r].totals, seen[r].storage, row.files)
  <2>1. counted \in Totals /\ AreGood(counted)
    <3>1. row.files \in SUBSET File
      BY <1>1, Zenon DEF TypeOK
    <3> QED BY <1>2, <3>1, CountIsGood, CountIsTyped, Zenon
  <2>2. \A x \in Reader : /\ seen'[x].totals = seen[x].totals \/ seen'[x].totals = counted
                          /\ seen'[x].storage = seen[x].storage
    <3>1. seen \in [Reader -> Seen]
      BY <1>1, Zenon DEF TypeOK, Seen
    <3>2. seen'[r] = [seen[r] EXCEPT !.content.files = counted.files, !.totals = counted]
      BY <1>9, <3>1, Zenon DEF CountFiles
    <3>3. \A x \in Reader : x # r => seen'[x] = seen[x]
      BY <1>9, <3>1, Zenon DEF CountFiles
    <3>4. seen'[r].totals = counted /\ seen'[r].storage = seen[r].storage
      BY <3>1, <3>2 DEF Seen
    <3> QED BY <3>3, <3>4
  <2>3. UNCHANGED << clock, storage, deleted, totals, tx >>
    BY <1>9, Zenon DEF CountFiles, database
  <2> HIDE DEF counted
  <2> QED BY <1>1, <1>2, <1>3, <2>1, <2>2, <2>3 DEF CountInv, AreGood
<1>10. ASSUME NEW r \in Reader, SaveTotals(r) PROVE CountInv'
  <2>1. totals' = seen[r].totals
    BY <1>2, <1>10, Zenon DEF SaveTotals, StampToSave, Totals
  <2>2. UNCHANGED << clock, storage, deleted, seen, tx >>
    BY <1>10, Zenon DEF SaveTotals, database
  <2> QED BY <1>1, <1>2, <1>3, <2>1, <2>2 DEF CountInv, AreGood
<1>11. ASSUME NEW r \in Reader, ReadRow(r) \/ LookUp(r) \/ LookPast(r) \/ Store(r)
       PROVE  CountInv'
  <2>1. \A x \in Reader : \/ /\ seen'[x].totals = seen[x].totals
                             /\ seen'[x].storage = seen[x].storage
                          \/ seen'[x] = Nothing
    <3>1. seen \in [Reader -> Seen]
      BY <1>1, Zenon DEF TypeOK, Seen
    <3>2. \/ seen' = [seen EXCEPT ![r].modified = row.modified]
          \/ seen' = [seen EXCEPT ![r] = Nothing]
          \/ seen' = seen
      BY <1>11, Zenon DEF ReadRow, LookUp, LookPast, Store
    <3> QED BY <3>1, <3>2 DEF Seen
  <2>2. UNCHANGED << clock, storage, deleted, totals, tx >>
    BY <1>11, Zenon DEF ReadRow, LookUp, LookPast, Store, database
  <2>3. AreGood(NoTotals) /\ Nothing.totals = NoTotals /\ Nothing.storage = 0
    BY <1>1, NoTotalsAreGood DEF Nothing
  <2> QED BY <1>1, <1>2, <1>3, <2>1, <2>2, <2>3 DEF CountInv, AreGood
<1>12. CASE UpdateNested
  <2>1. clock' = clock + 1 /\ UNCHANGED << storage, deleted, totals, seen, tx >> /\ tx = None
    BY <1>1, <1>12, TickIsTyped DEF UpdateNested, readers
  <2>2. AreGood(totals)' /\ \A r \in Reader : AreGood(seen[r].totals)'
    BY <1>2, <2>1, StayGood
  <2> QED BY <1>1, <1>2, <2>1, <2>2 DEF CountInv
<1>13. CASE RollBack \/ Evict \/ UNCHANGED vars
  <2>1. UNCHANGED << clock, storage, deleted, totals, seen >> /\ (tx' = tx \/ tx' = None)
    BY <1>13 DEF RollBack, Evict, readers, database, vars
  <2> QED BY <1>1, <1>2, <1>3, <2>1 DEF CountInv, AreGood
<1> QED
  BY <1>4, <1>5, <1>6, <1>7, <1>8, <1>9, <1>10, <1>11, <1>12, <1>13, Zenon DEF Next, Available

\* Totals are counted and saved in several steps while files are deleted; what
\* is stamped with the state of the storage counts none that is deleted in it.
THEOREM DeletedFilesAreNotCountedCorrect == Spec => []DeletedFilesAreNotCounted
<1>1. CountInv => DeletedFilesAreNotCounted
  BY DEF CountInv, AreGood, DeletedFilesAreNotCounted
<1> QED BY <1>1, CountInit, CountStep, PTL DEF Spec
=============================================================================
