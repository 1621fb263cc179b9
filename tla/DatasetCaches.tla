---------------------------- MODULE DatasetCaches ----------------------------
(* The two caches behind the fields of a dataset in responses: the serialized  *)
(* dataset in memcached (SerializerCacheBase, DatasetSerializerCache), which   *)
(* counts for a row with the same record_modified, and the totals of files in  *)
(* the file set's row (FileSet.total_files_aggregates), which count while the  *)
(* storage has the same `modified`. Requests read in several queries, each of  *)
(* which sees what is committed (READ COMMITTED); memcached has no             *)
(* transactions. Versions are numbers from one clock.                          *)
EXTENDS Naturals, FiniteSets

CONSTANTS
    Reader, File,
    MaxChanges,     \* bound: changes of the dataset and of files
    None

ASSUME CachesAssumption == MaxChanges \in Nat

VARIABLES
    clock,          \* the last version given
    row,            \* the dataset as committed: record_modified, relations, files
    totals,         \* cached totals in the file set: the files counted, the stamp
    storage,        \* FileStorage.modified
    deleted,        \* deleted files
    deprecated,     \* the dataset has been deprecated
    tx,             \* the request that writes the dataset, or None
    rolledBack,     \* versions of transactions that failed
    cache,          \* the entry in memcached, or None
    pc, seen,       \* where each reader is, and what it has read
    reply           \* the version of the last response of each reader

vars == << clock, row, totals, storage, deleted, deprecated, tx, rolledBack, cache,
           pc, seen, reply >>

Version == 0..MaxChanges

ASSUME NoneIsNoVersion == None \notin Version

Content == [main : Version, nested : Version, files : SUBSET File]

Entry == [modified : Version, content : Content]

Totals == [files : SUBSET File, stamp : Version \cup {None}]

TypeOK ==
    /\ clock \in Version
    /\ row \in [modified : Version, nested : Version, files : SUBSET File]
    /\ totals \in Totals
    /\ storage \in Version
    /\ deleted \subseteq File
    /\ deprecated \in BOOLEAN
    /\ tx \in [modified : Version, files : SUBSET File, totals : Totals,
               storage : Version, locksFileSet : BOOLEAN, shown : BOOLEAN] \cup {None}
    /\ rolledBack \subseteq Version
    /\ cache \in Entry \cup {None}
    /\ pc \in [Reader -> {"idle", "look up", "prefetch", "count", "save totals", "store"}]
    /\ seen \in [Reader -> [modified : Version, content : Content, totals : Totals,
                            storage : Version]]
    /\ reply \in [Reader -> Version]

NoContent == [main |-> 0, nested |-> 0, files |-> {}]
NoTotals == [files |-> {}, stamp |-> None]
Nothing == [modified |-> 0, content |-> NoContent, totals |-> NoTotals, storage |-> 0]

\* A published dataset that has a file or none.
Init ==
    /\ clock = 0
    /\ row \in {[modified |-> 0, nested |-> 0, files |-> fs] :
                   fs \in {gs \in SUBSET File : Cardinality(gs) <= 1}}
    /\ totals = NoTotals
    /\ storage = 0
    /\ deleted = {}
    /\ deprecated = FALSE
    /\ tx = None
    /\ rolledBack = {}
    /\ cache = None
    /\ pc = [r \in Reader |-> "idle"]
    /\ seen = [r \in Reader |-> Nothing]
    /\ reply = [r \in Reader |-> 0]

Tick == clock < MaxChanges /\ clock' = clock + 1

readers == << pc, seen, reply >>

-----------------------------------------------------------------------------
(* Totals of files. *)

Available(files) == files \ deleted

\* What is in the file set's row is used if its stamp is that of the storage.
Count(cached, stamp, files) ==
    IF cached.stamp = stamp THEN cached ELSE [files |-> Available(files), stamp |-> stamp]

-----------------------------------------------------------------------------
(* A request that updates the dataset. It holds the lock of the row, and that   *)
(* of the file set's row once it has written to it.                             *)

\* Files are added: the totals are cleared.
Update(added) ==
    /\ tx = None
    /\ Tick
    /\ tx' = [modified |-> clock', files |-> row.files \cup added,
              totals |-> IF added = {} THEN totals ELSE NoTotals,
              storage |-> storage, locksFileSet |-> added # {}, shown |-> FALSE]
    /\ UNCHANGED << row, totals, storage, deleted, deprecated, rolledBack, cache, readers >>

\* The totals that the request sees: its own, or those committed by now.
TotalsSeen == IF tx.locksFileSet THEN tx.totals ELSE totals

\* The response is serialized in the transaction and put in the cache at once.
ShowUpdate ==
    LET counted == Count(TotalsSeen, tx.storage, tx.files)
    IN /\ tx # None /\ ~tx.shown
       /\ cache' = [modified |-> tx.modified,
                    content |-> [main |-> tx.modified, nested |-> row.nested,
                                 files |-> counted.files]]
       /\ tx' = [tx EXCEPT !.shown = TRUE, !.totals = counted,
                           !.locksFileSet = @ \/ counted # TotalsSeen]
       /\ UNCHANGED << clock, row, totals, storage, deleted, deprecated, rolledBack, readers >>

CommitUpdate ==
    /\ tx # None /\ tx.shown
    /\ row' = [row EXCEPT !.modified = tx.modified, !.files = tx.files]
    /\ totals' = TotalsSeen
    /\ tx' = None
    /\ UNCHANGED << clock, storage, deleted, deprecated, rolledBack, cache, readers >>

\* A signal handler or the commit itself fails after the response was made.
RollBack ==
    /\ tx # None /\ tx.shown
    /\ rolledBack' = rolledBack \cup {tx.modified}
    /\ tx' = None
    /\ UNCHANGED << clock, row, totals, storage, deleted, deprecated, cache, readers >>

\* A request for the nested views writes a relation and does not save the dataset.
UpdateNested ==
    /\ tx = None
    /\ Tick
    /\ row' = [row EXCEPT !.nested = clock']
    /\ UNCHANGED << totals, storage, deleted, deprecated, tx, rolledBack, cache, readers >>

\* Deletion of a file: the storage is stamped, and the dataset is deprecated,
\* hence saved, the first time it loses a file.
DeleteFile(f) ==
    /\ f \notin deleted
    /\ f \in row.files /\ ~deprecated => tx = None
    /\ Tick
    /\ deleted' = deleted \cup {f}
    /\ storage' = clock'
    /\ deprecated' = (deprecated \/ f \in row.files)
    /\ row' = IF f \in row.files /\ ~deprecated THEN [row EXCEPT !.modified = clock'] ELSE row
    /\ UNCHANGED << totals, tx, rolledBack, cache, readers >>

-----------------------------------------------------------------------------
(* GET of the dataset, alone or in a list, or the command cache_datasets. *)

GoTo(r, place) == pc' = [pc EXCEPT ![r] = place]

database == << clock, row, storage, deleted, deprecated, tx, rolledBack >>

ReadRow(r) ==
    /\ pc[r] = "idle"
    /\ seen' = [seen EXCEPT ![r].modified = row.modified]
    /\ GoTo(r, "look up")
    /\ UNCHANGED << database, totals, cache, reply >>

\* Faulty variants of IsFor: any entry is good; a newer one is, too.
IsForAny(entry, modified) == entry # None
IsForOlder(entry, modified) == entry # None /\ entry.modified >= modified

IsFor(entry, modified) == entry # None /\ entry.modified = modified

LookUp(r) ==
    /\ pc[r] = "look up"
    /\ IF IsFor(cache, seen[r].modified)
       THEN /\ reply' = [reply EXCEPT ![r] = cache.content.main]
            /\ seen' = [seen EXCEPT ![r] = Nothing]
            /\ GoTo(r, "idle")
       ELSE /\ GoTo(r, "prefetch")
            /\ UNCHANGED << seen, reply >>
    /\ UNCHANGED << database, totals, cache >>

\* The command cache_datasets with --all serializes datasets whatever is cached.
LookPast(r) ==
    /\ pc[r] = "look up"
    /\ GoTo(r, "prefetch")
    /\ UNCHANGED << database, totals, cache, seen, reply >>

\* The relations of the row, the file set and its storage.
Prefetch(r) ==
    /\ pc[r] = "prefetch"
    /\ seen' = [seen EXCEPT ![r].content.main = row.modified,
                            ![r].content.nested = row.nested,
                            ![r].totals = totals,
                            ![r].storage = storage]
    /\ GoTo(r, "count")
    /\ UNCHANGED << database, totals, cache, reply >>

CountFiles(r) ==
    LET counted == Count(seen[r].totals, seen[r].storage, row.files)
    IN /\ pc[r] = "count"
       /\ seen' = [seen EXCEPT ![r].content.files = counted.files, ![r].totals = counted]
       /\ GoTo(r, IF counted = seen[r].totals THEN "store" ELSE "save totals")
       /\ UNCHANGED << database, totals, cache, reply >>

\* Faulty variant of StampToSave: the stamp is read again when it is saved.
StampAgain(r) == storage

StampToSave(r) == seen[r].totals.stamp

\* An UPDATE of three columns, which waits for another that holds the row.
SaveTotals(r) ==
    /\ pc[r] = "save totals"
    /\ tx # None => ~tx.locksFileSet
    /\ totals' = [files |-> seen[r].totals.files, stamp |-> StampToSave(r)]
    /\ GoTo(r, "store")
    /\ UNCHANGED << database, cache, seen, reply >>

\* Faulty variant of StampOfEntry: that of what was read last.
StampOfRelations(r) == row.modified

StampOfEntry(r) == seen[r].modified

\* The entry replaces what others have put there meanwhile.
Store(r) ==
    /\ pc[r] = "store"
    /\ cache' = [modified |-> StampOfEntry(r), content |-> seen[r].content]
    /\ reply' = [reply EXCEPT ![r] = seen[r].content.main]
    /\ seen' = [seen EXCEPT ![r] = Nothing]
    /\ GoTo(r, "idle")
    /\ UNCHANGED << database, totals >>

\* Memcached drops an entry.
Evict ==
    /\ cache # None
    /\ cache' = None
    /\ UNCHANGED << database, totals, readers >>

-----------------------------------------------------------------------------
Next ==
    \/ \E added \in SUBSET File : Update(Available(added) \ row.files)
    \/ ShowUpdate \/ CommitUpdate \/ RollBack
    \/ UpdateNested
    \/ \E f \in File : DeleteFile(f)
    \/ \E r \in Reader :
          \/ ReadRow(r) \/ LookUp(r) \/ LookPast(r)
          \/ Prefetch(r) \/ CountFiles(r) \/ SaveTotals(r) \/ Store(r)
    \/ Evict

Spec == Init /\ [][Next]_vars

-----------------------------------------------------------------------------
(* Properties. *)

\* What a failed request wrote to the cache is shown to nobody, nor is what a
\* running one has written that has not committed: no row has its stamp.
OnlyCommittedIsShown ==
    \A r \in Reader : /\ reply[r] \notin rolledBack
                      /\ reply[r] <= row.modified

\* A client that asks again is not shown an older dataset, whatever requests
\* that read the row before have put in the cache meanwhile.
RepliesDoNotGoBack == [][\A r \in Reader : reply'[r] >= reply[r]]_vars

\* Totals that count for the present state of the storage count no deleted file.
DeletedFilesAreNotCounted == totals.stamp = storage => totals.files \cap deleted = {}

\* They count all files. (It fails: README, Known divergences.)
AllFilesAreCounted ==
    tx = None /\ totals.stamp = storage => totals.files = Available(row.files)

\* A response shows the relations and totals of when it began, at least while
\* nothing else happens. (It fails: README, Known divergences.)
CachedFieldsAreCurrent ==
    cache # None /\ cache.modified = row.modified =>
        /\ cache.content.nested = row.nested
        /\ cache.content.files \cap deleted = {}
=============================================================================
