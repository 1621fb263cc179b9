--------------------------- MODULE RemsPublication ---------------------------
(***************************************************************************)
(* Keeping one dataset in REMS, the external service where people apply    *)
(* for access to it. A sync is a series of calls: each takes effect in     *)
(* REMS at once, while the rows in which Metax remembers what it made are  *)
(* saved with the transaction. A sync in progress is a working copy of the *)
(* rows and a list of what is left to do; a step may put more on the list. *)
(*                                                                         *)
(* The advisory lock of publications keeps the syncs of a dataset apart.   *)
(* Titles, users and the definition of the form do not change. One license *)
(* of the dataset is a reference license, the other its own access terms.  *)
(***************************************************************************)
EXTENDS Rems, Naturals, Sequences, FiniteSets, SequencesExt

CONSTANTS Applicant,     \* people who apply, one application at a time each
          Org,           \* organizations that grant permits
          Described,     \* what the owner may say in the dataset
          Kinds,         \* kinds of events that happen
          MaxTerms,      \* number of texts of access terms, 0 means none
          MaxChanges,    \* bound on syncs, by requests of the owner or the command
          MayFail,       \* calls of REMS that may fail
          MaxFailures,   \* bound on failed calls of REMS
          MaxCrashes     \* bound on requests that are rolled back

VARIABLES
    db,        \* committed: the dataset and the rows about REMS
    rems,      \* entities of REMS, by their ids
    label,     \* version of the reference data of the reference license
    apps,      \* applications in REMS
    sync,      \* the sync in progress
    listed,    \* the dataset as sync_rems_datasets has it in its list
    changes,   \* requests so far
    failures,  \* failed calls so far
    crashes    \* rolled back requests so far

syncVars == << db, rems, label, apps, sync, listed, changes, failures, crashes >>

Want == [removed: BOOLEAN, permit: BOOLEAN, terms: 0 .. MaxTerms, manual: BOOLEAN, org: Org]

\* Keys of entities. Workflows are shared by the datasets of an organization.
Terms == << "terms" >>
Reference == << "reference" >>
Resource == << "resource" >>
Form == << "form" >>
Item == << "item" >>
Workflow(w) == << "workflow", w.manual, w.org >>
Key == {Terms, Reference, Resource, Form, Item} \cup ({"workflow"} \X BOOLEAN \X Org)

Id == DOMAIN rems

DB == [want: Want, row: [Key -> Nat], custom: SUBSET Nat, error: BOOLEAN]

\* Entities by their types: a workflow is for an organization, a license has a text.
Made(type, what) ==
    [type: {type}, what: what, uses: SUBSET Nat, state: {"active", "disabled", "archived"}]
Entity == Made("workflow", BOOLEAN \X Org)
          \cup Made("license", ({"terms"} \X (0 .. MaxTerms)) \cup ({"reference"} \X {1, 2}))
          \cup Made("resource", {<< >>}) \cup Made("form", {<< >>}) \cup Made("item", {<< >>})

\* What is left to do: calls of REMS, and phases that say which calls to make.
Op == ({"ensure", "create"} \X Key)
      \cup ({"archive", "disable", "hide"} \X Nat)
      \cup ({"close"} \X Applicant)
      \cup ({"organization", "licenses", "unused", "forget", "closeAll"} \X {0})
      \cup ({"archiveAll"} \X {"item", "resource"})

\* The dataset object that a sync is called with: whether the dataset was for REMS,
\* its organization, an error of an earlier sync, its resource (0 if none).
Hand == [publish: BOOLEAN, org: Org, error: BOOLEAN, resource: Nat]

\* What the sync leaves alone in the dataset's own row.
Kept == [want: Want, error: BOOLEAN]

Sync == [publish: BOOLEAN, todo: Seq(Op), db: DB, org: Org \cup {None}, licenses: SUBSET Nat,
         kept: Kept]

Filed == [state: {"draft", "submitted", "approved", "rejected", "returned", "closed"},
          licenses: SUBSET Nat, manual: BOOLEAN, org: Org]

ASSUME DescribedAreWanted == Described \subseteq Want
ASSUME ApplicantsAreFinite == IsFiniteSet(Applicant)
ASSUME BoundsAreNumbers == {MaxTerms, MaxChanges, MaxFailures, MaxCrashes} \subseteq Nat
ASSUME NoneIsNoValue == None \notin Sync \cup Filed \cup Org \cup Hand

SyncTypeOK ==
    /\ db \in DB
    /\ rems \in Seq(Entity)
    /\ label \in {1, 2}
    /\ apps \in [Applicant -> Filed \cup {None}]
    /\ sync \in Sync \cup {None}
    /\ listed \in Hand \cup {None}
    /\ listed # None => listed.resource \in Id \cup {0}
    /\ changes \in 0 .. MaxChanges
    /\ failures \in 0 .. MaxFailures
    /\ crashes \in 0 .. MaxCrashes

\* The dataset is published and not in REMS yet.
SyncInit ==
    /\ \E w \in Described :
          /\ ~w.permit
          /\ db = [want |-> w, row |-> [k \in Key |-> 0], custom |-> {}, error |-> FALSE]
    /\ rems = << >>
    /\ label = 1
    /\ apps = [a \in Applicant |-> None]
    /\ sync = None
    /\ listed = None
    /\ changes = 0
    /\ failures = 0
    /\ crashes = 0

IsRems(w) == w.permit /\ ~w.removed

Active(type) == {i \in Id : rems[i].type = type /\ rems[i].state # "archived"}

-----------------------------------------------------------------------------
(* Starting a sync. *)

Todo(w, publish) ==
    IF publish
    THEN << << "ensure", Workflow(w) >>, << "organization", 0 >> >>
         \o (IF w.terms = 0 THEN << >> ELSE << << "ensure", Terms >> >>)
         \o << << "ensure", Reference >>, << "licenses", 0 >>, << "unused", 0 >>,
               << "ensure", Resource >> >>
         \o (IF w.manual THEN << << "ensure", Form >> >> ELSE << >>)
         \o << << "ensure", Item >> >>
    ELSE << << "closeAll", 0 >>, << "archiveAll", "item" >>,
            << "archiveAll", "resource" >>, << "unused", 0 >> >>

OldOrg ==
    IF db.row[Item] = 0 THEN None
    ELSE rems[CHOOSE i \in rems[db.row[Item]].uses : rems[i].type = "workflow"].what[2]

LicensesOf(resource) == IF resource = 0 THEN {} ELSE rems[resource].uses

InHand(w) ==
    [publish |-> IsRems(w), org |-> w.org, error |-> db.error, resource |-> db.row[Resource]]

\* A sync of a dataset whose row says w. An error is cleared if it is seen. The
\* access rights are read when they are needed.
Start(have, w) ==
    LET nothing == ~have.publish /\ have.resource = 0
        wanted == [w EXCEPT !.org = have.org] IN
    sync' = [publish |-> have.publish,
             todo |-> IF nothing THEN << >> ELSE Todo(wanted, have.publish),
             db |-> [db EXCEPT !.want = wanted, !.error = @ /\ nothing],
             org |-> OldOrg,
             licenses |-> LicensesOf(have.resource),
             kept |-> [want |-> w, error |-> db.error /\ ~have.error]]

Request(have, w) ==
    /\ sync = None
    /\ changes < MaxChanges
    /\ changes' = changes + 1
    /\ Start(have, w)
    /\ UNCHANGED << db, rems, label, apps, failures, crashes >>

\* A request for the dataset, which the signal handler syncs.
Change(w) == Request(InHand(w), w) /\ UNCHANGED listed

Update == ~db.want.removed /\ \E w \in Described : Change(w)

Delete ==
    /\ "delete" \in Kinds
    /\ ~db.want.removed
    /\ Change([db.want EXCEPT !.removed = TRUE])

Restore == db.want.removed /\ Change([db.want EXCEPT !.removed = FALSE])

\* The command lists the datasets that are for REMS and publishes them one by one,
\* and then those that are not and have a resource there (Dataset.objects has no
\* removed datasets). It works on the objects of its list.
CommandLists ==
    /\ "command" \in Kinds
    /\ listed = None
    /\ \/ IsRems(db.want)
       \/ ~db.want.permit /\ ~db.want.removed /\ db.row[Resource] # 0
    /\ listed' = InHand(db.want)
    /\ UNCHANGED << db, rems, label, apps, sync, changes, failures, crashes >>

\* Only a publication looks at the access rights again.
CommandSyncs ==
    /\ listed # None
    /\ listed = InHand(db.want) \/ "stale" \in Kinds
    /\ listed.publish => db.want.permit
    /\ listed' = None
    /\ Request(listed, db.want)

\* It ends, at a dataset that it cannot publish for one.
CommandEnds ==
    /\ listed # None
    /\ sync = None
    /\ listed' = None
    /\ UNCHANGED << db, rems, label, apps, sync, changes, failures, crashes >>

ReferenceDataChanges ==
    /\ "label" \in Kinds
    /\ label = 1
    /\ label' = 2
    /\ UNCHANGED << db, rems, apps, sync, listed, changes, failures, crashes >>

-----------------------------------------------------------------------------
(* Steps of a sync that make no change in REMS. *)

Doing(op) == sync # None /\ sync.todo # << >> /\ sync.todo[1][1] = op
Arg == sync.todo[1][2]

Put(more) == sync' = [sync EXCEPT !.todo = more \o Tail(@)]

Phase(op, more) ==
    /\ Doing(op)
    /\ Put(more)
    /\ UNCHANGED << db, rems, label, apps, listed, changes, failures, crashes >>

Each(op, S) == LET s == SetToSeq(S) IN [n \in DOMAIN s |-> << op, s[n] >>]

Archive(S) == Each("archive", S)

Row(k) == sync.db.row[k]

Licenses ==
    IF ~sync.publish THEN {}
    ELSE {Row(Reference)} \cup (IF sync.db.want.terms = 0 THEN {} ELSE {Row(Terms)})

\* What Metax would have in REMS under a key.
Wanted(k) ==
    LET w == sync.db.want
        E(type, what, uses) == [type |-> type, what |-> what, uses |-> uses, state |-> "active"] IN
    CASE k = Terms -> E("license", << "terms", w.terms >>, {})
      [] k = Reference -> E("license", << "reference", label >>, {})
      [] k = Resource -> E("resource", << >>, Licenses)
      [] k = Form -> E("form", << >>, {})
      [] k = Item -> E("item", << >>, {Row(Resource), Row(Workflow(w))}
                                      \cup (IF w.manual THEN {Row(Form)} ELSE {}))
      [] OTHER -> E("workflow", << k[2], k[3] >>, {})

IsAsWanted(i, k) ==
    /\ rems[i].what = Wanted(k).what
    /\ rems[i].uses = Wanted(k).uses
    /\ ~(k = Item /\ sync.db.want.manual)

\* Faulty variant of Ensure: the old entity stays as it is.
EnsureNew(k) == << << "create", k >> >>

Ensure(k) ==
    IF Row(k) = 0 THEN << << "create", k >> >>
    ELSE IF IsAsWanted(Row(k), k) THEN << >>
    ELSE << << "archive", Row(k) >>, << "create", k >> >>

IsOpen(a) == apps[a] # None /\ apps[a].state \in {"submitted", "approved", "returned"}

\* Faulty variant of CloseAll: what has been approved stays.
CloseSubmitted == Each("close", {a \in Applicant : IsOpen(a) /\ apps[a].state = "submitted"})

\* close_dataset_applications: drafts cannot be closed.
CloseAll == Each("close", {a \in Applicant : IsOpen(a)})

\* Faulty variant of CloseIfNewLicenses: sets of licenses are compared by their size.
CloseIfMoreLicenses ==
    IF sync.licenses # {} /\ Cardinality(sync.licenses) # Cardinality(Licenses)
    THEN CloseAll ELSE << >>

CloseIfNewLicenses ==
    IF sync.licenses # {} /\ sync.licenses # Licenses THEN CloseAll ELSE << >>

CloseIfNewOrg == IF sync.org \notin {None, sync.db.want.org} THEN CloseAll ELSE << >>

\* archive_unused_custom_licenses: those whose row is removed already are not archived.
ArchiveUnused ==
    Archive((sync.db.custom \ Licenses) \cap {Row(Terms)}) \o << << "forget", 0 >> >>

\* Faulty variant of ArchiveFirst: a license is archived before what uses it.
ArchiveItemsOnly(i) == IF rems[i].type = "resource" THEN Archive(Active("item")) ELSE << >>

\* What uses a resource or a license of the dataset has to go first.
ArchiveFirst(i) ==
    CASE rems[i].type = "resource" -> Archive(Active("item"))
      [] i \in sync.db.custom -> Archive(Active("resource"))
      [] OTHER -> << >>

ArchiveEntity(i) == ArchiveFirst(i) \o << << "disable", i >>, << "hide", i >> >>

Plan ==
    \/ Phase("ensure", Ensure(Arg))
    \/ Phase("organization", CloseIfNewOrg)
    \/ Phase("licenses", CloseIfNewLicenses)
    \/ Phase("unused", ArchiveUnused)
    \/ Phase("archive", ArchiveEntity(Arg))
    \/ Phase("archiveAll", Archive(Active(Arg)))
    \/ Phase("closeAll", CloseAll)

ForgetUnused ==
    /\ Doing("forget")
    /\ sync' = [sync EXCEPT !.todo = Tail(@), !.db.custom = @ \cap Licenses]
    /\ UNCHANGED << db, rems, label, apps, listed, changes, failures, crashes >>

-----------------------------------------------------------------------------
(* Calls of REMS. *)

NewId == Len(rems) + 1

Create ==
    /\ Doing("create")
    /\ rems' = Append(rems, Wanted(Arg))
    /\ sync' = [sync EXCEPT !.todo = Tail(@),
                            !.db.row[Arg] = NewId,
                            !.db.custom = @ \cup {i \in {NewId} : Arg = Terms}]
    /\ UNCHANGED << db, label, apps, listed, changes, failures, crashes >>

Disable ==
    /\ Doing("disable")
    /\ Put(<< >>)
    /\ rems' = [rems EXCEPT ![Arg].state = IF @ = "active" THEN "disabled" ELSE @]
    /\ UNCHANGED << db, label, apps, listed, changes, failures, crashes >>

\* REMS asks this of licenses and resources only.
InUse(i) ==
    \E j \in Active("resource") \cup Active("item") :
        i \in rems[j].uses /\ rems[i].type \in {"license", "resource"}

\* Faulty variant of GiveUp: the resource counts as archived.
GiveUpResource ==
    sync' = [sync EXCEPT !.todo = << >>, !.db.error = TRUE, !.db.row[Resource] = 0]

\* The rest of the sync is given up, what has been done so far is saved.
GiveUp == sync' = [sync EXCEPT !.todo = << >>, !.db.error = TRUE]

Hide ==
    /\ Doing("hide")
    /\ IF InUse(Arg)
       THEN GiveUp /\ UNCHANGED rems
       ELSE /\ rems' = [rems EXCEPT ![Arg].state = "archived"]
            /\ sync' = [sync EXCEPT !.todo = Tail(@),
                          !.db.row = [k \in Key |-> IF @[k] = Arg THEN 0 ELSE @[k]]]
    /\ UNCHANGED << db, label, apps, listed, changes, failures, crashes >>

Close ==
    /\ Doing("close")
    /\ IF IsOpen(Arg)
       THEN Put(<< >>) /\ apps' = [apps EXCEPT ![Arg].state = "closed"]
       ELSE GiveUp /\ UNCHANGED apps
    /\ UNCHANGED << db, rems, label, listed, changes, failures, crashes >>

CallFails ==
    /\ \E op \in MayFail : Doing(op)
    /\ failures < MaxFailures
    /\ failures' = failures + 1
    /\ GiveUp
    /\ UNCHANGED << db, rems, label, apps, listed, changes, crashes >>

Commit ==
    /\ sync # None
    /\ sync.todo = << >>
    /\ db' = [sync.db EXCEPT !.want = sync.kept.want, !.error = @ \/ sync.kept.error]
    /\ sync' = None
    /\ UNCHANGED << rems, label, apps, listed, changes, failures, crashes >>

\* The process dies, or the request fails after the sync: PostgreSQL rolls the
\* rows back, and REMS keeps what was done there.
RollBack ==
    /\ sync # None
    /\ crashes < MaxCrashes
    /\ crashes' = crashes + 1
    /\ sync' = None
    /\ UNCHANGED << db, rems, label, apps, listed, changes, failures >>

-----------------------------------------------------------------------------
(* Applications. *)

\* People use REMS while Metax does not, or at any time.
MayAct == sync = None \/ "overlap" \in Kinds

SetState(a, from, to) ==
    /\ MayAct
    /\ apps[a] # None
    /\ apps[a].state \in from
    /\ apps' = [apps EXCEPT ![a].state = to]
    /\ UNCHANGED << db, rems, label, sync, listed, changes, failures, crashes >>

\* An automatic workflow has a bot that approves.
Submitted(manual) == IF manual THEN "submitted" ELSE "approved"

\* The application has the licenses that the item has now, and keeps them. It is
\* submitted at once, or it remains a draft when that fails.
Apply(a) ==
    LET uses == rems[db.row[Item]].uses
        resource == CHOOSE i \in uses : rems[i].type = "resource"
        workflow == CHOOSE i \in uses : rems[i].type = "workflow"
        manual == rems[workflow].what[1] IN
    /\ MayAct
    /\ apps[a] # None => apps[a].state \in {"closed", "rejected"}
    /\ IsRems(db.want)
    /\ db.row[Item] # 0
    /\ \E state \in {Submitted(manual)} \cup ({"draft"} \cap Kinds) :
          apps' = [apps EXCEPT ![a] = [state |-> state, licenses |-> rems[resource].uses,
                                       manual |-> manual, org |-> rems[workflow].what[2]]]
    /\ UNCHANGED << db, rems, label, sync, listed, changes, failures, crashes >>

Submit(a) ==
    /\ IsRems(db.want)
    /\ apps[a] # None
    /\ SetState(a, {"draft", "returned"}, Submitted(apps[a].manual))

Handle(a) ==
    \/ \E s \in {"approved", "rejected", "returned"} : SetState(a, {"submitted"}, s)
    \/ SetState(a, {"submitted", "approved", "returned"}, "closed")

-----------------------------------------------------------------------------

Proceed == Plan \/ ForgetUnused \/ Create \/ Disable \/ Hide \/ Close \/ Commit

Command == CommandLists \/ CommandSyncs \/ CommandEnds

SyncNext ==
    \/ Update \/ Delete \/ Restore
    \/ Command
    \/ ReferenceDataChanges
    \/ Proceed \/ CallFails \/ RollBack
    \/ \E a \in Applicant : Apply(a) \/ Submit(a) \/ Handle(a)

SyncSpec == SyncInit /\ [][SyncNext]_syncVars

-----------------------------------------------------------------------------
(* Properties. *)

TextsOf(licenses) == {rems[l].what : l \in licenses}

\* REMS offers the dataset once, under its licenses and with its workflow.
Offered ==
    LET w == db.want IN
    /\ Active("item") = {db.row[Item]}
    /\ Active("resource") = {db.row[Resource]}
    /\ rems[db.row[Item]].state = "active"
    /\ {db.row[Resource], db.row[Workflow(w)]} \subseteq rems[db.row[Item]].uses
    /\ TextsOf(rems[db.row[Resource]].uses) =
          {<< "reference", label >>} \cup {<< "terms", t >> : t \in {w.terms} \ {0}}
    /\ \A l \in rems[db.row[Resource]].uses : rems[l].state = "active"

Hidden == Active("item") = {} /\ Active("resource") = {}

\* What Metax shows as published is offered as the dataset says, whichever call
\* of which earlier sync has failed. (A change of reference data is not synced,
\* and a request that is rolled back leaves what it made in REMS.)
PublishedIsOffered ==
    sync = None /\ IsRems(db.want) /\ ~db.error /\ label = 1 /\ crashes = 0 => Offered

\* What is not for REMS, without an error, is not there, and no one has access
\* through an application made there.
UnpublishedIsHidden ==
    sync = None /\ ~IsRems(db.want) /\ ~db.error /\ crashes = 0 =>
        Hidden /\ \A a \in Applicant : ~IsOpen(a)

\* Metax archives in an order that REMS accepts, unless it is about a reference
\* license that has changed.
NeverInUse == Doing("hide") /\ label = 1 => ~InUse(Arg)

\* A sync that succeeds leaves no application open that was made under other
\* licenses or to another organization, as long as no sync has
\* failed or was rolled back.
OldApplicationsAreClosed ==
    [][failures + crashes' = 0 /\ sync # None /\ sync' = None /\ sync.publish /\ ~sync.db.error =>
          \A a \in Applicant : IsOpen(a) =>
              /\ apps[a].licenses = Licenses
              /\ apps[a].org = sync.db.want.org]_syncVars

\* What is unpublished is a dataset that should no longer be in REMS, when the sync
\* ends.
OthersAreUnpublished == [][sync # None /\ ~sync.publish /\ sync' = None => ~IsRems(db'.want)]_syncVars

\* A dataset whose removal from REMS has failed is still listed by the command,
\* which looks for datasets that are not for REMS and have a resource there.
\* (It does not list deleted ones.)
FailedRemovalIsListed ==
    sync = None /\ ~IsRems(db.want) /\ crashes = 0 =>
        (Active("item") \cup Active("resource") # {} => db.row[Resource] # 0)
=============================================================================
