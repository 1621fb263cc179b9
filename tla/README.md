# TLA+ specifications of Metax V3

Metax is the metadata store of the Fairdata services: a Django REST application
on PostgreSQL that keeps descriptions of research datasets and of the files in
them. The modules here model the parts of it whose difficulty is in sequences
and interleavings of requests, of background tasks and of calls to other
services, check them with TLC and prove what matters most with TLAPS.

Paths below are relative to `src/src/apps/` unless they start with `src/` or `docs/`.

## The system

### Components, state, operations

| Component | State it keeps | Operations | What makes it correct | Model |
|---|---|---|---|---|
| Dataset lifecycle (`core/models/catalog_record/dataset.py`, `dataset_versions.py`, `core/views/dataset_view.py`) | rows of `core_dataset`: state, `draft_of`, version set and order, `removed`, `deprecated`, `cumulative_state` | create, PATCH, publish, merge of a linked draft, new version, create-draft, delete, flush, restore | published data is not changed except as documented; version sets stay ordered; drafts belong to their originals | `DatasetLifecycle`, `PublishedDatasets` |
| Overlapping requests (`lock_for_update`, `get_object`, `common/locks.py`) | row locks of PostgreSQL | every request is one transaction (`ATOMIC_REQUESTS`) | a request validates what it overwrites; every request ends | `OverlappingRequests` |
| File sets (`fileset.py`, `core/serializers/dataset_files_serializer.py`) | files of a dataset, metadata about files and directories | lists of actions on files and directories; deletion of files | a list of actions does what its actions do in turn; metadata stays with its items | `DatasetFiles` |
| File publication times (`fileset.py`, `files/models/file.py`) | `File.published`, background tasks | set and recomputed when datasets or their files change | follows the public datasets | `FilePublication` |
| File storage (`files/`) | `File` rows | bulk insert, update, upsert, delete; single requests; deletion of lists; PAS marks | all or nothing or reported; identifiers unique; PAS files left alone | `FileRecords` |
| Metax V2 sync (`core/signals.py`, `core/models/sync.py`, `core/services/metax_v2_client.py`) | `V2SyncStatus`, `LastSuccessfulV2Sync`, the task queue | a task per change, advisory lock per dataset, retry command | V2 ends up with the latest version, never goes back | `V2Sync` |
| REMS publication (`rems/rems_service.py`) | `REMSEntity` rows and the entities of the external REMS | publish, replace and archive entities, unpublish, the command `sync_rems_datasets` | what is published is offered, what is not is hidden; nothing used is archived | `RemsPublication` |
| REMS applications (`rems/rems_service.py`, `views.py`, `email.py`) | the application in REMS | create, submit, decide, mail | access is what was approved; decisions stay and are mailed | `RemsApplications` |
| Persistent identifiers (`dataset.py`, `core/services/pid_ms_client.py`) | `persistent_identifier`, what the PID service knows | choose, generate, copy to drafts, merge, describe | a PID names one dataset and describes it | `PersistentIdentifiers` |
| Serializer cache (`cache/serializer_cache.py`, `core/cache.py`) | serialized datasets in memcached, totals in the file set | look up, fill, count, the command `cache_datasets` | a response never shows what was not committed, or an older row than before | `DatasetCaches` |
| Preservation (`core/models/preservation.py`, contracts) | PAS state of a dataset, its PAS version, its contract | state changes, PAS versions, contracts, removal of the record | nobody else changes the dataset while PAS works on it; PAS versions keep their origin; contracts cover sensitive data | `Preservation` |
| Others | | permissions, users, actors, reference data, descriptive metadata, legacy migration, search, metrics, rendering | rules without state, imports and output | not modelled |

Interaction is by call and by Django signals. A view locks and reads the row of
its dataset, calls the model, and sends `dataset_updated` or `dataset_created`,
whose handlers start the V2 sync (a background task, `common/tasks.py`) and call
REMS; `FileSet` starts the tasks that recompute `File.published`;
`pre_files_deleted` connects the deletion of files with the datasets that have
them. Several workers share nothing but the database and memcached.

| From | To | Through | Modelled in |
|---|---|---|---|
| datasets | file records | file sets, `pre_files_deleted`, deprecation | `DatasetLifecycle`, `OverlappingRequests`, `DatasetFiles` |
| datasets | `File.published` | task with a pickled file set | `FilePublication` |
| datasets | Metax V2 | task with a pickled dataset, status rows | `V2Sync` |
| files | Metax V2 | synchronous call within the request | `FileRecords` |
| datasets | REMS | call within the request, `sync_rems_datasets` | `RemsPublication` |
| datasets | PID service | call within the request, after it a PUT | `PersistentIdentifiers` |
| datasets | memcached | responses, `cache_datasets` | `DatasetCaches` |
| PAS | datasets, files | preservation record, PAS mark of files | `Preservation`, `FileRecords` |

### What is hard in it

- Long legal sequences: a linked draft is edited for weeks while its original
  is closed, removed, restored or loses files, and is then merged.
- Overlap: a view locks the row of its own dataset only. A merge writes another
  row, DELETE takes the linked draft along, and deletion of a file saves datasets
  nobody has locked. `Dataset.save` writes every column as it was read.
- Locks are taken in different orders by different requests.
- Outside the transaction: the PID service, REMS, Metax V2 and memcached are
  written before the request commits, and status rows through a second connection.
- Tasks carry what they are about as it was when they were made, are run by
  several workers in any order, and again when a worker dies.

`PROJECT.json` lists each hazard at its line, with the properties that cover it.

## Modules

Each component has a module with its state, its actions and its properties, an MC
module with the model values of its instance, and, where results are proved, a
`_proofs` module that extends it. `PublishedDatasets` is the abstract
specification that `DatasetLifecycle` implements.

### DatasetLifecycle

An action is a whole HTTP request that succeeds. This is what the database sees
of requests that do not overlap: the default connection has `ATOMIC_REQUESTS`, so
a request that raises leaves nothing behind, and is therefore not an action.

| Variable | Code |
|---|---|
| `state` | `Dataset.state`; `"unused"` before the row exists, `"flushed"` after its deletion |
| `draftOf` | `Dataset.draft_of`; the reverse relation `next_draft` is `NextDrafts` |
| `versions`, `order` | `dataset_versions`, `dataset_versions_order` |
| `created`, `clock` | the creation time and the time of the next one |
| `removed`, `deprecated` | the time stamps as Booleans |
| `cumulative` | `cumulative_state` |
| `files` | the rows of the file set, soft deleted files included |
| `fileState` | stored, soft deleted (`removed`) or deleted from the database |

| Action | Request | Code |
|---|---|---|
| `CreateDataset` | `POST /v3/datasets` | `DatasetSerializer.create` |
| `UpdateDataset` | `PATCH` | `FileSetSerializer.update`, then `Dataset.save` |
| `PublishDataset`, `MergeDraft` | `POST .../publish` | `Dataset.publish`, `merge_draft` |
| `CreateNewVersion`, `CreateNewDraft` | `POST .../new-version`, `.../create-draft` | `create_new_version`, `create_new_draft` |
| `DeleteDraft`, `DeletePublished`, `FlushDataset` | `DELETE` | `Dataset.delete` |
| `RestoreDataset` | `POST .../restore` | `DatasetViewSet.restore` |
| `DeleteFile`, `FlushFile` | `DELETE /v3/files/<id>`, `DELETE /v3/files?flush=true` | `perform_destroy`, `destroy_list`, `handle_files_deleted` |

Which manager a query uses matters: the default one hides removed datasets,
`all_objects` does not, and `has_files` counts soft deleted files where
`_check_merge_draft_files` does not. The operators of the module follow the
manager of each query. `UpdateDatasetOrder` is part of each action whose save
finds `dataset_versions_order` empty.

### PublishedDatasets

What readers may rely on: a dataset is published once, with files that exist;
after that it changes one request at a time (`Change`, `Withdraw`, `Return`,
`Flush`), gains files only while it is open or has none, is never opened again, and is
outdated when the storage loses one of its files (`LoseFile`). Its variables are sets of
published ids, so drafts, linked drafts and version sets do not appear.
`DatasetLifecycle` instantiates it as `Published`, with the mapping under "What
readers see".

### OverlappingRequests

A request is a transaction at isolation level READ COMMITTED. A worker receives a
request, locks and reads its target (`LockTarget`; locking comes first, in a
query of its own), validates (`Check`), takes the locks of the other rows it
writes (`WriteOtherRow`), and commits (`Commit`). Validation uses the rows as
they were read (`seen`) and queries the files when it needs them. Deletion of a
file has no target; it reads (`ReadToDeprecate`) and saves (`SaveDeprecated`) one
dataset after another. `AbortDeadlock` is PostgreSQL's deadlock detection.

Steps between two waits are one action when nothing another transaction does in
between can make a difference: a row that is locked is not written by others, and
uncommitted writes are not seen by others.

Modelled from how the code uses it: row locks, their queue, deadlock detection,
and deferred foreign keys (a merge that deletes the file set to which an update
is adding a file fails when it commits; the model lets it fail at once).

### DatasetFiles

One request is put together action by action (`HasDirAction`, `HasFileAction`);
`want` beside it is the reference: what the documentation says the actions do, one
after the other. `Update` is what the serializer does instead: fold the actions into
a filter of what to add and one of what to remove (`Filters`, Django's `Q` objects
as sets, with `None` for the one without conditions), check both against the state of
the dataset, change the files, set metadata (`SetMetadata`) and remove metadata that
has lost its item (`RemoveUnused`); `Refuse` is its error. Two datasets have
their file sets in one storage, one of them is cumulative; a directory contains
the other. One text stands for any metadata: the serializers fill in missing fields with
defaults, so that the last metadata replaces all of the one before. Linked drafts,
checks of storage and project and overlapping requests are in other modules or left out.

### FilePublication

A request commits as one step and puts tasks in a bag. A task has the file set and
the dataset as they were when it was made, which is what the pickled arguments of
`FileSet.update_published` are. A worker takes any task (`TakeTask`), and runs its two
UPDATE statements as two steps (`UnpublishFiles`, `PublishFiles`); a worker that dies
between them leaves the task to be delivered again (`Crash`). `missed` and `leaked`
record the cases the code does not handle (below). The window inside one UPDATE
statement, in which READ COMMITTED may see datasets of two moments, is left out.

### FileRecords

Requests of two users, the storage service and PAS, about the records of one storage
service. A bulk request looks its files up by identifier (`ReceiveBulk`), locks the
rows one after another (`LockFile`, in no particular order), checks and collects what
to write (`ApplyBulk`), tells Metax V2 (`SyncToV2`) and commits. A request about one
file reads the row before it locks it (`ReceiveSingle`, `ApplySingle`), and the
deletion of a project's files makes three queries (`ReceiveList`, `ListFiles`,
`ApplyList`). `Fail` is any error, lost connection or lock timeout before the commit.
`overlapped` records identifiers checked by requests that did not see each other,
`adrift` the records of which V2 was told by a request that then failed or was not told
at all, and `spared` those of which V2 was told though the deletion of a list did not
meet them. `Told` is a record as V2 is told of it.
Items name their file by identifier; the creation of one file is a bulk insert of one.

### V2Sync

Requests commit a change and put a task with the dataset of that moment in the queue.
A worker takes any task, waits for the advisory lock (`StartSync`, with
`should_sync`), sends the dataset and then its files (`SyncDataset`, `SyncFiles`),
writes the status on the second connection (`StopSync`, `CallFails`) and releases the
lock with the commit (`CommitSync`). A crash anywhere leaves the task in the queue.
The command reads a failed status and the dataset (`StartRetry`) and gives up a
dataset whose lock is taken (`SkipLocked`). V2 refuses to create what it already has.
`outdated` records that a removal was synced after a later change.
The time of a change is its number.

### RemsPublication

A sync is a working copy of the rows (`sync.db`) and a list of what is left to do.
A step either plans (`Plan`: which entities are needed, which applications are to be
closed, what is archived) or makes one call to REMS (`Create`, `Disable`, `Hide`,
`Close`), each of which takes effect at once; `Commit` saves the rows. `CallFails`
ends a sync with what it has done so far, `RollBack` is a failure of the request
after it. A sync works on a dataset object (`Hand`): whether the dataset is for REMS, its
organization, its error and its resource are as they were when the object was read, the
access rights are read when they are needed. Requests sync what they have just saved
(`InHand`). The command `sync_rems_datasets` keeps objects from its listing
(`CommandLists`, `CommandSyncs`; `CommandEnds` is the ValueError of a dataset that it
cannot publish, or the operator): with `"stale"` in `Kinds` they may be older than the row.
What the row says is not saved by a sync (`Kept`), an error is cleared if the object has it. REMS is
as in the mock of the tests: it refuses to archive what another active entity uses.
People apply, and handlers decide, at any time between syncs.

### RemsApplications

Requests of the applicant and of handlers, call by call: `CreateApplication`,
`SaveFields`, `AcceptLicenses`, `PostSubmit`, `Remark`, then the mails, which depend on
a state that is asked for afterwards; handlers read (`ReadApplication`), decide
(`PostCommand`) and mail (`MailDecision`). REMS validates every command against its
own state, as its mock does. The item is with or without the approving bot, form and
instructions, chosen in `Init`.

### PersistentIdentifiers

A request (`Begin` and one of its kinds) makes an identifier in the service when it
publishes a dataset without one (`Mint`; a POST may create and publish in one request), checks uniqueness by a query (`Check`), creates or sends DOI
metadata (`InsertDoi`, `PutDoi`) and commits; it may fail anywhere, and what it did
in the service stays. Rows are an original and a linked draft per dataset; a draft's
copy of a generated identifier is the placeholder `draft:<pid>`. `overlapped` has
the pairs of datasets whose checks did not see each other, `undescribed` those of which
the service may show old metadata. The last uniqueness check of a request is the one
modelled; removal is atomic; the catalog is always set.

### DatasetCaches

A reader reads the row (`ReadRow`), looks in memcached (`LookUp`), fetches the
relations (`Prefetch`), counts files (`CountFiles`), saves the totals
(`SaveTotals`) and stores the entry (`Store`), each in a query or call of its own.
`LookPast` is a request that wants a fresh entry, as `cache_datasets --all` does. A
writer holds the row lock; it may put its response into memcached before it
commits or fails. `Evict` drops the entry. Replies are kept as the version they show.

### Preservation

One published dataset with its preservation records, PAS versions and a contract.
Requests of the dataset's own views lock the row, then read, validate and save
(`Edit`, `Replace`, `Describe`, `SetPreservation`, `RemovePreservation`,
`CreatePreservationVersion`); merges and deprecations read it before they lock and
save the whole row (`ReadUnlocked`); `ChangeContract` locks nothing. What a request will
save is in its job until `Commit`; `Fail` is a later validation or a lost connection.

## Runs

All runs pass.

| Run | Instance | Properties | Question |
|---|---|---|---|
| `DatasetLifecycle` | 3 datasets, 2 files | `TypeOK`, `LinkedDraftsHaveTheirOriginal`, `OrderFollowsCreation`, `UnpublishedVersionIsNewest`, `VersionNumbersFollowCreation`, `CumulationNeverReopens`, `ImplementsPublishedDatasets` | do version sets, linked drafts and published datasets stay what they should be through any sequence of requests? |
| `OverlappingRequests` | 2 workers, 2 files, all kinds | `NoDraftIsLeftBehind`, `ClosedStaysClosed`, `RemovedStaysRemoved` | is locking before reading enough for what a request validates? |
| `RequestsEnd` | 2 workers, 1 file, all kinds but update | `RequestsEnd` | does every request end, whatever the order of its locks? |
| `DatasetFiles` | 2 datasets, 2 files, 2 directories; up to 3 actions | `MetadataIsOfItems`, `UpdateIsInSequence` | do two filters do what the actions say, and does metadata stay with its items? |
| `FilePublication` | 2 datasets, 1 file, 2 workers, 4 requests, 1 crash | `NothingElseIsPublished`, `EventuallyPublished` | does `File.published` end up as the datasets are? |
| `FileRecords` | 2 files, 2 identifiers, 2 projects, 2 workers, 2 requests | `IdentifiersAreUnique`, `V2IsInStep`, `PasFilesAreLeftAlone`, `BulkKeepsOtherChanges` | what do overlapping requests about files do to each other? |
| `V2Sync` | 2 workers and the command, 3 changes, 1 crash, 2 failures | `FailureIsRemembered`, `NeverBackInTime`, `EventuallyInSync` | does V2 get the last version, and never an older one? |
| `RemsPublication` | 1 applicant, 2 organizations, 3 syncs, 1 failed call, 1 rollback | `NeverInUse`, `PublishedIsOffered`, `UnpublishedIsHidden`, `FailedRemovalIsListed`, `OldApplicationsAreClosed` | is REMS what Metax takes it for after failures? |
| `RemsApplications` | 2 requests of the applicant, 2 handlers, 2 submissions | `AccessIsApproved`, `DecisionsAreMailed`, `DecisionsStay` | do applicants and handlers that overlap get each other's decisions right? |
| `PersistentIdentifiers` | 2 datasets, 2 catalogs, 2 requests at a time, 4 in all | `UniqueUnlessOverlapped`, `GeneratedPidIsOfItsDataset`, `DoiIsDescribed`, `GeneratedPidIsKept` | does an identifier stay with one dataset, whatever fails? |
| `DatasetCaches` | 2 readers, 2 files, 3 changes | `OnlyCommittedIsShown`, `DeletedFilesAreNotCounted`, `RepliesDoNotGoBack` | can a cache that is filled without a lock show what it should not? |
| `Preservation` | 2 workers, 2 records, 2 versions, 1 rationale, 4 requests | `LeftAloneWhileRunning`, `OriginStaysKnown`, `ContractStaysCovering` | is what was validated about PAS, versions and contracts still so at the commit? |

Every module defines a `TypeOK`. It is an invariant of the `DatasetLifecycle` run
only, and can be added to the others.

### Bounds

- `DatasetLifecycle`: three rows are the original, its draft and one more, which
  is another version or, after the draft was merged, the next draft. Two files are
  enough for one that stays and one that comes or goes. The constraint
  `OneVersionSetWithFiles` keeps all rows in one version set: sets share no state except
  through deleted files, whose effect on one row does not depend on other rows.
  Ids are not reused, so a behaviour has as many creations as there are ids; `VIEW`
  ignores what a row held before it was flushed, since no request reads it.
  The proofs have none of these bounds.
- `OverlappingRequests`, `RequestsEnd`: one original and one draft are all a request on
  one of them touches. Workers serve requests again and again, so a run is not
  bounded in length. Two workers make every cycle of two locks; an update locks
  no other row than its own, so it is left out of the search for endless waits.
- `DatasetFiles`: requests of up to three actions, at most two of each list, are
  enough for an action, one that undoes it and one that does it again, across lists. Those about
  the cumulative dataset have one action, since what it differs in is decided last
  (`LongRequestsOfOne`). Three changes are an update, a publication or another update, and a
  deletion.
- `FilePublication`: two datasets are needed for a file to be kept public by one
  while the other lets it go; three file sets are theirs and one of a draft.
- `FileRecords`: two requests of any two kinds; the races are between pairs. One race
  needs three, in which a file is listed by a deletion, removed by the second request and
  brought back by the third; the invariant of the proofs was checked with three workers too.
- `V2Sync`: three changes are a version synced, one that failed or is under way, and
  one that comes meanwhile. Crashes stay below `max_attempts` of the queue (3). What
  needs four changes (`outdated`) is in the proofs, whose invariant was checked with four.
- `RemsPublication`: three syncs are one that offers the dataset, one that changes it
  and half fails, and one that has to find its way. Each change differs from the
  first description in one respect (`OneChangeEach`).
- `PersistentIdentifiers`: four requests are two that overlap, and two before or after
  them. One dataset comes from a migration, with a DOI that the service does not know.
- `DatasetCaches`: three changes are a version that is cached, the one that replaces
  it and one that fails. `Preservation`: four requests make a version, replace the
  record and overlap.

`CHECK_DEADLOCK FALSE` is in the runs with bounded requests, which stop when the bound
is reached. In `OverlappingRequests` and `RequestsEnd` deadlock is checked, and a cycle
of waits that `AbortDeadlock` does not break would be one.

### Fairness

Nobody has to make a request: fairness is on what the system does by itself.

- `OverlappingRequests`: a request that was received proceeds. PostgreSQL serves
  the waiters of a row lock in turn, so `Proceed` is strongly fair; its deadlock
  detection runs after a fixed delay, so `AbortDeadlock` is weakly fair. There are no
  retries of a failed request.
- `V2Sync`: workers take tasks (weak), syncs proceed (strong, since they wait for an
  advisory lock that PostgreSQL grants in turn), and the command is run again and again
  by a timer (weak).
- `FilePublication`: workers take tasks and finish them (weak); they wait for nothing.
- The others have safety properties only and no fairness.

## Proofs

For every value of the constants, with only the named assumptions of the modules:
sets of datasets and applicants are finite, and so are handlers (`HandlersAreFinite`, for
counting mails), none of whom applies (`ApplicantsAreNoHandlers`); bounds are numbers;
`None` is none of the things it stands beside (`NoneIsNoRecord`, `NoneIsNoValue`); changes
of a dataset for REMS are descriptions of it (`DescribedAreWanted`); the retry command is not
a worker (`CommandIsNoWorker`); catalogs are consistent, and the identifiers that people
choose are not those that the service mints (`PidAssumption`). Theorems that exclude a
kind of event say so in an ASSUME of their own, and below why.
The shape is the same in each `_proofs` module: an inductive invariant, a
lemma per part of it or per action, and the theorems from invariant and step.

| Module | Proved | Inductive invariant |
|---|---|---|
| `DatasetLifecycle_proofs` | every property of its run, and that published files are kept and added only while open. `Refinement` is `ImplementsPublishedDatasets`: initial states map to initial states, each step to a step or a stutter | `IInv`, with `DeprecatedRowsWerePublished` for the refinement |
| `DatasetRequests_proofs` | all three properties of the run of `OverlappingRequests`, types | `TypeOK` and for each worker `Relies` |
| | `MetadataIsOfItems` of `DatasetFiles` | `ContentsInv` |
| `V2Sync_proofs` | `NeverBackInTime`, `FailureIsRemembered`, types | `IInv`, `SyncInv` |
| `Rems_proofs` | all five properties of the run of `RemsPublication`: `NeverInUse`, `FailedRemovalIsListed`, `PublishedIsOffered`, `UnpublishedIsHidden`, `OldApplicationsAreClosed`, types | `Fits`, with `RowsAgree`, `HalfArchived`, `PublishedIsMade`, `Unpublishes`, `PublishesForRems`, and for applications `SyncCloses`, `RestIsCovered`, `NoDrafts`, `ResourcesHaveLicenses` |
| | all three properties of the run of `RemsApplications` | `TypeOK`, `NothingGoesOnWithoutOne`, `SubmittedIsComplete`, `AccessNeedsApproval`, `MailedOrMailing` |
| `PersistentIdentifiers_proofs` | all four properties of its run | `TypeOK`, `OriginalsAreSound`, `DraftsAreLinked`, `JobsFit`, `JobsAreApart`, `StepsFit`, `CheckedIsUnique`, `ShownUnlessSent` |
| `Files_proofs` | all four properties of the run of `FileRecords` | `TypeOK`, `JobsFit`, `JobsAreApart`, `IdentifiersAreUnique`, `ToldIsWritten`, `InStepUnlessTold` |
| | `NothingElseIsPublished` of `FilePublication` | `PublicationTypeOK`, `SetsAreOwn`, `DraftsArePublished`, `TasksFit`, `PublishedIsAccounted` |
| `DatasetCaches_proofs` | all three properties of its run | `ShowInv`, `CountInv` |
| `Preservation_proofs` | all three properties of its run | `TypeOK`, `JobsAreSound`, with `JobsKeepCover` for the contract |

**DatasetLifecycle.** None of the properties is inductive. The invariant is

    IInv == TypeOK /\ RowsAreCreatedInTurn /\ LinkedDrafts
                   /\ OrderFollowsCreation /\ UnpublishedVersionIsNewest

- `RowsAreCreatedInTurn`: creation times of rows are distinct, positive and at
  most `clock`. A new row is therefore after all others, which
  `OrderFollowsCreation` and `UnpublishedVersionIsNewest` need in `AddRow`.
- `LinkedDrafts` is `LinkedDraftsHaveTheirOriginal` in the form the steps use. It is
  needed by the order of a linked draft, and by both file properties: a merge
  writes `draftOf[d]`, which has to be a published row other than `d`.
- `UpdateDatasetOrder` computes the order from cardinalities of sets of older
  rows. The older rows of an earlier row are a proper subset of those of a later
  one, so the order grows by at least two; rows that keep their number (flush)
  keep their relation to the rest.

Each part of `IInv` has a step lemma (`TypeOKStep`, `TurnStep`, `LinkedStep`,
`OrderStep`, `NewestStep`) with a step per action. `VersionNumbersFollowCreation`
follows from `OrderFollowsCreation`: the published rows before an earlier version are
a proper subset of those before a later one.

**Refinement.** A dataset that is published must not be deprecated already, for
which a linked draft, the only draft that can be, has to be told from others:
`DeprecatedRowsWerePublished`.

**OverlappingRequests.** A request relies on what it has read of its target, on an
original that had no draft having none, on its checks, and on the rows that it has
locked since (`Relies`). `CommitWrites` says that a commit writes only rows whose lock it
holds, or the new draft under the lock of the original; hence a step of one worker leaves
alone what another relies on (`OthersStillRely`), for any number of workers. Each
property is then about one commit, which saves what the row is.

**V2Sync.** `should_sync` is asked once, and its answer has to stay right until the
commit. `SyncsAreApart` says that whoever is past that question holds the advisory lock;
`lastSync` is only written under it, so `SyncsAreNotOld` is kept by the steps of others.
For `FailureIsRemembered`, `SyncInv` says where the last change is: in V2, in the queue,
or in a sync that is under way or has failed (`LastIsKept`). It needs to know which part of
a change a sync has sent (`PartIsSent`), that tasks and retries carry what was committed
(`TasksFit`), and that what was synced last only gets later (`RecordGrows`), which is
what a late removal breaks; hence `outdated`.

**RemsPublication.** A sync is a list to which every step may add, so the invariant is
about lists of any length. `ListFits` says which lists there are: what plans comes in the
order of `Todo` (`Ordered`), what is disabled is archived next (`Paired`), what uses an
entity goes before it (`UsersFirst`), what is made anew has gone before (`Replaced`), what
goes comes again when the dataset needs it (`ComesAgain`, with `NeededFollow` and
`ForgetsNothing`). `PutListFits` is the lemma that all rest on: a step that puts operations
in the place of the first keeps this, if they fit by themselves (`MoreFits`). With the types
of the entities behind the rows (`EntitiesFit`, `RowsFit`) and `IsMade`, that what is not left
to do has been made, this is `Fits`, which is inductive with failures, rollbacks and
applicants at any time. `NeverInUse` follows from it without any hypothesis.

The others say how rows and REMS fit together, as long as no request was rolled back.
`RowsAgree` holds at every step of a sync. `PublishedIsOffered` assumes that archiving
does not fail (`"hide" \notin MayFail`): between disabling and archiving, an entity would
stay disabled, and the next sync would take it as it is (see "Known divergences").
`UnpublishedIsHidden` also assumes that people do not apply during a sync (`"overlap"` not in
`Kinds`), which is a matter of what REMS allows. It, `PublishedIsOffered` and
`OldApplicationsAreClosed` assume that no dataset changes between the listing of the command
and its sync (`"stale"` not in `Kinds`): see "Known divergences" for what happens then.

`OldApplicationsAreClosed` is about the past: an application has to be closed when the
licenses that it was made under are not those that will be offered, and when it is
closed the sync has already replaced or archived some of them. Between syncs that have not
failed, open applications are under what the rows say (`RestIsCovered`), so within a sync
they are under what the rows of before are about until they are closed, and `ListCloses`
says what the list still has to do for that. Closing comes before all else that has been
planned, once for each application (`ClosesFirst`). Until the resource has been dealt with, the
rows of resource and item are those of before (`OldRows`), and the only resource that goes is
that of the row (`ResourceIsOfRow`); so an application stays open only if organization and
licenses, as far as they have been compared, are the wanted ones (`StaysOpen`), and while
a license can still change, the comparison is still to come (`LicensesFollow`). When the
reference license goes nothing else is on its way out (`ReferenceGoesAlone`). `MoreCloses` is
to `ListCloses` what `MoreFits` is to `ListFits`. TLC checked these invariants before.
The theorem assumes that nobody applies during a sync and that no application remains a
draft (`"overlap"` and `"draft"` not in `Kinds`): with either, TLC finds the property
violated (see "Known divergences").

**RemsApplications.** REMS looks at its own state again at every command, so what was
read before does not matter; what has to be carried along is that a submitted
application is complete. Mails are counted: what has been mailed of a decision and the
handlers that are about to mail it are together as many as the decisions of handlers that
REMS has recorded (`MailedOrMailing`).

**PersistentIdentifiers.** A request has checked an identifier against the datasets that
were committed, and may commit much later. `CheckedIsUnique` says that it then shares the
identifier only with datasets whose requests it did not see; `JobsFit` and `JobsAreApart`
that what it has read under its lock is still so. For DOIs, `ShownUnlessSent` says that
the service shows what is saved, except for requests between the call and their commit.
Generated identifiers go from original to draft and back (`OriginalsAreSound`,
`DraftsAreLinked`).

**FileRecords.** The files that a request is going to write are locked or new, so no two
requests write one (`JobsAreApart`), and what a bulk request has read under the locks
stays (`JobsFit`). Whoever told V2 of a file writes just that (`ToldIsWritten`), and V2
is in step but for files that some request has told it of (`InStepUnlessTold`). The proof
of `V2IsInStep` failed at first, at the deletion of a list, for a reason that two requests do
not show: see "Known divergences", where `spared` comes from.

**FilePublication.** A task knows a file set and not which files have to go, so the
invariant looks from the side of the file: a published file is in a public dataset, has
leaked, or some dataset that was published still has it and a task for its file set is
going to unpublish (`PublishedIsAccounted`). A task waits in the bag or with a worker that
has not done its first UPDATE; a worker that has is of no use any more, and what it
publishes next is in public datasets. File sets are emptied by merges, removed drafts
and flushes; that no waiting task loses its files by that needs file sets that nobody
shares (`SetsAreOwn`) and drafts of datasets that are there (`DraftsArePublished`). The
specification is called `PublicationSpec`, and its parts alike, so that one module can
extend this one and `FileRecords`: they share the constants of `Files` and nothing else.

**DatasetFiles.** Removing what is described and cleaning up are one step, so
`MetadataIsOfItems` is inductive once requests are known to be about a dataset and metadata
to be kept per dataset and item (`ContentsInv`). `CleanUpFacts` is what the argument rests on:
the clean-up finds every directory that an update has taken from the dataset, and what
it takes from other datasets only makes them describe less. Files that are flushed are
excepted (`"flush"` not in `DeletionKinds`): see "Known divergences". The specification is
called `ContentsSpec`, and its parts alike, so that one module can extend this one and
`OverlappingRequests`.

**DatasetCaches.** An entry is stamped with the version of a row read before its content.
`ShowInv` says that an entry is not older than its stamp, and that it is committed
unless its stamp is that of a version that no row will have; `CountInv` that totals
stamped with the present state of the storage were counted after its last deletion.

**Preservation.** What a request found under the row lock is still so at its commit
(`KeepsOrigin`), unless a merge or a deprecation saves the row meanwhile, which the
properties except. `ContractStaysCovering` is about two places that validate dataset
and contract against each other: `JobsKeepCover` says that what a request that has not been
overlapped is going to save is covered together with what the others have committed.

Only model-checked: `UpdateIsInSequence` of `DatasetFiles`, since `FoldLeft` over lists of
actions needs induction over data, which is out of the prover's reach; and everything about
liveness (`RequestsEnd`, `EventuallyInSync`, `EventuallyPublished`), which it cannot do under
fairness, nor anything with ENABLED. No module uses RECURSIVE.

## Known divergences

Found while modelling: what the code does where a comment, a document or a help text
says otherwise, or where a property holds only with an exception. Properties named
here are defined in the modules and violated when added to the run; where other
constants are needed they are given. "By reading" marks what no module shows.

Dataset lifecycle and overlapping requests:
- `VersionNumberHasOneMeaning`: with the version set prefetched, as for GET, removed
  versions count in a version number; queried, as for the response of PATCH, they do
  not (`dataset.py:558`, against the comment before it).
- `PublishedDatasetCanGetDraft`: create-draft of a closed dataset always fails, since
  `create_copy` turns CLOSED into NOT_CUMULATIVE, which the validation of the draft
  refuses (`docs/user-guide/datasets-api.md:147`).
- `StoredFileCanBeDeleted`: a file of a linked draft that is still ACTIVE when its
  original is CLOSED cannot be deleted, since the deprecation of the draft
  fails its validation (`docs/user-guide/files-api.md:153`).
- A merge that overlaps a PATCH of the original writes back ACTIVE over CLOSED
  (`docs/user-guide/datasets-api.md:372`), or loses a file that the PATCH added
  (`PublishedFilesAreKept` of `OverlappingRequests`, against
  `dataset_files_serializer.py:565`).
- A deprecation that overlaps saves the row as it was read: it reopens a dataset,
  brings a removed one back, or removes a restored one again, which leaves its
  draft without original (`DraftHasItsOriginal`).

Files:
- `OthersAreLeftAlone`: `remove_unused_file_metadata` (`fileset.py:207`) looks for
  directory metadata by storage and not by file set, so an update of one dataset that has
  any deletes that of other datasets about directories which this one lacks
  (`docs/user-guide/datasets-api.md:356` speaks of the dataset's own).
- Flushed files leave metadata about their directory behind (`MetadataIsOfItems`
  with `DeletionKinds = {"flush"}`).
- By reading: `create_preservation_copy` looks up metadata of soft-deleted files
  that the clean-up keeps (`fileset.py:335`, KeyError); a PATCH that adds a file
  while it is deleted leaves a deleted file in a published dataset.
- `FlushedFilesAreUnpublished`: the task of a flush comes when the file set is gone, so
  its files stay published (one dataset, `RequestKinds = {"publish", "flush"}`, no crash;
  against `src/tests/unit/apps/files/api/files/test_files_published.py:56`).
- Recorded in `missed`: restoring a dataset publishes no files, nor does a merge those
  it adds; merging a draft made after deprecation makes the dataset public without
  publishing. Recorded in `leaked`: an overtaken task of an addition publishes files
  of a dataset removed meanwhile.
- Requests about one file check and read it before they lock it and write all columns
  (`files/views/file_view.py:654`): they reset the PAS mark, or bring a removed
  file back (help text of `File.pas_process_running`, `files/models/file.py`).
- `destroy_list` deletes files that PAS has marked since it asked, and removes files
  that it did not list for Metax V2. A rollback after the call leaves V2 ahead.
- `destroy_list` tells Metax V2 that each file it has listed is removed, though its
  deletion passes over one that another request has removed meanwhile; if a third request
  has stored that file anew, it stays stored in Metax V3 and removed in V2
  (`files/views/file_view.py:613`; recorded in `spared`).
- Requests that overlap may store one identifier in two projects. Locks are taken
  in no order, so bulk requests may wait for each other until `FILE_LOCK_TIMEOUT`.
- By reading: with `ignore_errors`, a file that is refused for its PAS fields has been
  appended already (`file_bulk_serializer.py:519`), and items that are rejected leave
  the `FileStorage` made for them.

Metax V2:
- `NoLateRemoval`: `should_sync` lets every removal through, so one that is synced late
  hides a dataset restored since (against `core/signals.py:58`, "Skip sync
  if a later version has already been synced"). It also becomes what was synced last, and
  updates from between it and the restored version are synced after that: with four changes
  V2 may end with a version that is not the last, and no failed status says so.
- Without `NoneForgotten`: a status row stands for all syncs of a dataset, so the
  success of an older change replaces the failure of a newer one (`core/models/sync.py:20`).
- `OnlyFailedSyncsAreRetried`: the command repeats what has succeeded since it looked
  (`retry_sync_datasets.py:33`).
- `FlushedIsGone`: for a dataset that is gone the command makes a `Dataset`, a draft by
  default, for which V2 is not asked for a hard delete (`core/models/sync.py:16`).

REMS:
- A failed removal of a deleted dataset is never repeated: the command takes the datasets
  to unpublish from `Dataset.objects`, which has no removed ones
  (`sync_rems_datasets.py:23`).
- The command works on rows as they were when it made its list (`sync_rems_datasets.py:15`,
  with `"stale"` in `Kinds`). It publishes a dataset that was removed since
  (`UnpublishedIsHidden`), with the organization that it had (`PublishedIsOffered`), leaves
  an error that was stored since, and unpublishes a dataset that has become one for REMS
  again and was published by that request, although it says that it unpublishes "datasets
  that should no longer be in REMS" (`sync_rems_datasets.py:23`;
  `OthersAreUnpublished` with `Kinds = {"command", "stale"}`, `MaxChanges = 4`). Its next run publishes the dataset again, but the applications
  are closed.
- An entity of which only the second of the two archiving calls failed stays
  disabled, and later syncs keep it as it is (`PublishedIsOffered` with `"hide"` in
  `MayFail`).
- A request that is rolled back leaves in REMS what no row knows, and later syncs
  do not change it; hence `crashes = 0` in `PublishedIsOffered`.
- A sync that fails after it archived the old license forgets which applications were
  under it. Applications made during a sync keep the old licenses (`OldApplicationsAreClosed`
  and `UnpublishedIsHidden`, which fails first, with `"overlap"` in `Kinds`), and so do
  drafts (`"draft"`).
- A change of a reference license is not synced; hence `label = 1` in the properties.
- The form of an item is compared under a name that REMS does not use
  (`rems_service.py:443`), so an item with a form is made anew by each publication.
- Applications: an approval is mailed twice when a handler approves between the
  submission and the question whether the bot has (`rems_service.py:887`); one of the bot is not mailed if
  a handler closes at once; after an early rejection the instructions are refused
  and handlers get no mail about the submission.

Caches and identifiers:
- `AllFilesAreCounted`, `CachedFieldsAreCurrent`: an addition that commits during a count, and
  relations saved without the dataset, are not seen
  (`docs/contributing/caching.md:20`).
- Requests that overlap may save one identifier twice: there is no constraint
  (`docs/user-guide/datasets-api.md:18`). A dataset of a catalog that is not external
  may take one that is in use in an external one.
- After a rollback the service keeps an identifier without dataset and may show metadata
  that was never saved; a merge does not send it at all (`undescribed`). A placeholder kept
  from a changed original can block another create-draft.

Preservation:
- Publishing a linked draft, and deprecation, save a dataset that PAS works on
  (`preservation.py:91`: "Only PAS service is allowed to update the dataset while PAS
  is processing it."), and may set back its preservation record, so that the PAS
  version loses its origin (`OriginIsKnown`).
- Contract and dataset are each validated against the other as committed, so two
  overlapping requests can break `ContractCoversDataset`. The nested preservation view
  validates nothing; any editor may write it though the serializer calls its fields
  "Fields only writable by PAS" (`dataset_serializer.py:529`). A PUT without
  `preservation` removes the record, and is validated against the contract it removes.
- The contract's side ignores the rationales of datasets that are not sensitive, the
  dataset's side checks them.
- DELETE of the nested record leaves `dataset.preservation` pointing to it: its
  lock still counts, and after a PUT a second PAS version can be made.

## Not modelled

- Permissions, users: rules about a request and its user, without state of their
  own; a request here is made by someone who may make it.
- Actors, reference data, descriptive metadata, legacy conversion: imports run by hand,
  validation and layout of fields; the serializers pass or refuse a document as a whole,
  which the models have as a choice.
- Search, metrics, rendering, mail texts: derived data and output.
- Within the modelled components: `create-preservation-version` outside
  `Preservation`, datasets saved by the legacy migration, several storage services,
  nested views in `OverlappingRequests`, V2's marks of drafts, REMS workflows shared
  by several datasets, spellings of one DOI, relations of PAS copies. `PROJECT.json` has
  the notes per component.
- New versions that overlap with restores of other versions (`dataset.py:1015`): the two
  lock different rows of a version set, of which `OverlappingRequests` has one.

## Plan

What would come next, in order:
1. `OverlappingVersions`: new-version, restore and delete of different rows of one
   version set.
2. Repair of REMS by the command as liveness, with a fair command.
3. Cumulative state and preservation together; access policies as operators over the
   states of `DatasetLifecycle`.
