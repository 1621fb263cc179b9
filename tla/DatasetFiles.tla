----------------------------- MODULE DatasetFiles -----------------------------
(***************************************************************************)
(* Changing the files of datasets. A request has a list of actions on      *)
(* directories and a list of actions on files. The serializer makes one    *)
(* filter of what is added and one of what is removed out of them, runs    *)
(* two queries, sets metadata and removes metadata that has lost its item. *)
(*                                                                         *)
(* Datasets have their file sets in one storage. A request is put together *)
(* action by action, and what it should result in is kept beside it.       *)
(***************************************************************************)
EXTENDS Naturals, Sequences, SequencesExt, Files

CONSTANTS Dataset,
          Dir,             \* directories
          Under,           \* files in each directory or its subdirectories
          Cumulative,      \* datasets that are cumulative
          DirActions,      \* actions on directories that requests have
          FileActions,     \* actions on files that requests have
          MaxDirActions,   \* bound on actions on directories in a request
          MaxFileActions,  \* bound on actions on files in a request
          MaxActions,      \* bound on all actions in a request
          MaxChanges,      \* bound on requests, publications and deletions
          DeletionKinds    \* kinds of deletions of files

VARIABLES
    available,  \* files that are not deleted
    state,      \* of each dataset
    contents,   \* files of each dataset, deleted files included
    about,      \* metadata each dataset has about files and directories
    req,        \* the request that is being made
    changes     \* requests, publications and deletions so far

contentsVars == << available, state, contents, about, req, changes >>

Item == File \cup Dir

\* A request may leave metadata as it is, set it, or remove it with null.
Metadata == {"text", "as it is", None}

Action(S) == [action: {"add", "remove", "update"}, on: S, only_unpublished: BOOLEAN,
              metadata: Metadata]

ContentsTypeOK ==
    /\ available \subseteq File
    /\ state \in [Dataset -> {"draft", "published", "deprecated"}]
    /\ contents \in [Dataset -> SUBSET File]
    /\ about \in [Dataset -> [Item -> {"text", None}]]
    /\ req # None => /\ req.dataset \in Dataset
                     /\ req.dirs \in Seq(Action(Dir))
                     /\ req.files \in Seq(Action(File))
                     /\ req.want.files \subseteq File
                     /\ req.want.about \in [Item -> {"text", None}]
    /\ changes \in 0 .. MaxChanges

ContentsInit ==
    /\ available = File
    /\ state = [d \in Dataset |-> "draft"]
    /\ contents = [d \in Dataset |-> {}]
    /\ about = [d \in Dataset |-> [x \in Item |-> None]]
    /\ req = None
    /\ changes = 0

\* Files in a public dataset have a time of publication.
Published == UNION {contents[d] : d \in {e \in Dataset : state[e] = "published"}}

DirectoryPaths(S) == {p \in Dir : Under[p] \cap S # {}}

-----------------------------------------------------------------------------
(* Putting a request together. *)

Changes == req = None /\ changes < MaxChanges /\ changes' = changes + 1

NewRequest(d) ==
    /\ Changes
    /\ req' = [dataset |-> d, dirs |-> << >>, files |-> << >>,
               want |-> [files |-> contents[d], about |-> about[d]]]
    /\ UNCHANGED << available, state, contents, about >>

Matching(a) ==
    {f \in available : /\ f \in IF a.on \in Dir THEN Under[a.on] ELSE {a.on}
                       /\ a.only_unpublished => f \notin Published}

\* What the documentation says that one action does.
After(want, a) ==
    [files |-> CASE a.action = "add" -> want.files \cup Matching(a)
                 [] a.action = "remove" -> want.files \ Matching(a)
                 [] OTHER -> want.files,
     about |-> IF a.action = "remove" \/ a.metadata = "as it is" THEN want.about
               ELSE [want.about EXCEPT ![a.on] = a.metadata]]

\* The items must exist in the storage.
HasAction(a, key, max) ==
    /\ req # None
    /\ Len(req[key]) < max
    /\ Len(req.dirs) + Len(req.files) < MaxActions
    /\ a.on \in available \cup DirectoryPaths(available)
    /\ req' = [req EXCEPT ![key] = Append(@, a), !.want = After(@, a)]
    /\ UNCHANGED << available, state, contents, about, changes >>

HasDirAction ==
    req # None /\ req.files = << >> /\ \E a \in DirActions : HasAction(a, "dirs", MaxDirActions)

HasFileAction == \E a \in FileActions : HasAction(a, "files", MaxFileActions)

-----------------------------------------------------------------------------
(* Filters. A Q object without conditions, here None, would match everything. *)

Or(q, S) == IF q = None THEN S ELSE q \cup S

\* Faulty variant of AndNot: a filter without conditions is not told apart.
AndNotAlways(q, S) == (IF q = None THEN File ELSE q) \ S

AndNot(q, S) == IF q = None THEN None ELSE q \ S

NoFilters == [add |-> None, remove |-> None]

\* An addition cancels earlier removals and the other way round.
Adding(q, S) == [add |-> Or(q.add, S), remove |-> AndNot(q.remove, S)]
Removing(q, S) == [add |-> AndNot(q.add, S), remove |-> Or(q.remove, S)]

DirectoryFilters ==
    FoldLeft(LAMBDA q, a : CASE a.action = "add" -> Adding(q, Matching(a))
                             [] a.action = "remove" -> Removing(q, Matching(a))
                             [] OTHER -> q,
             NoFilters, req.dirs)

LastAction(actions, x) ==
    LET has == SelectSeq(actions, LAMBDA a : a.on = x) IN
    IF has = << >> THEN None ELSE Last(has)

LastDoes(f, action) ==
    LET a == LastAction(SelectSeq(req.files, LAMBDA b : b.action # "update"), f) IN
    a # None /\ a.action = action

Filters ==
    LET added == {f \in File : LastDoes(f, "add")}
        removed == {f \in File : LastDoes(f, "remove")}
        q1 == IF added = {} THEN DirectoryFilters ELSE Adding(DirectoryFilters, added) IN
    IF removed = {} THEN q1 ELSE Removing(q1, removed)

Matches(q) == IF q = None THEN {} ELSE q \cap available

-----------------------------------------------------------------------------
(* The update. *)

HasFiles(S) == S # {}

AllowsRemoving(d) == state[d] = "draft" \/ ~HasFiles(contents[d])

AllowsAdding(d, S) == state[d] = "draft" \/ d \in Cumulative \/ ~HasFiles(S)

Removed(d) == contents[d] \cap Matches(Filters.remove)
Kept(d) == contents[d] \ Removed(d)
Added(d) == Matches(Filters.add) \ Kept(d)

IsAllowed(d) ==
    /\ HasFiles(Removed(d)) => AllowsRemoving(d)
    /\ HasFiles(Added(d)) => AllowsAdding(d, Kept(d))

\* Only the last metadata of an item counts.
SetMetadata(d) ==
    LET says == SelectSeq(req.dirs \o req.files,
                          LAMBDA a : a.action # "remove" /\ a.metadata # "as it is")
        last == [x \in Item |-> LastAction(says, x)] IN
    [about EXCEPT ![d] = [x \in Item |-> IF last[x] = None THEN @[x] ELSE last[x].metadata]]

\* Faulty variant of RemoveUnused: any directory of the storage will do.
RemoveUnusedOfStorage(ab, d, S) ==
    [ab EXCEPT ![d] = [x \in Item |->
        IF x \in S \cup DirectoryPaths(File) THEN @[x] ELSE None]]

\* Metadata about files is removed from the dataset, metadata about directories
\* from all datasets of the storage, if this one has any.
RemoveUnused(ab, d, S) ==
    LET lost == {p \in Dir \ DirectoryPaths(S) : \E q \in Dir : ab[d][q] # None} IN
    [e \in Dataset |-> [x \in Item |->
        IF x \in lost \/ (e = d /\ x \in File \ S) THEN None ELSE ab[e][x]]]

Update ==
    /\ req # None
    /\ LET d == req.dataset
           now == Kept(d) \cup Added(d) IN
       /\ IsAllowed(d)
       /\ contents' = [contents EXCEPT ![d] = now]
       /\ about' = RemoveUnused(SetMetadata(d), d, now)
    /\ req' = None
    /\ UNCHANGED << available, state, changes >>

Refuse ==
    /\ req # None
    /\ ~IsAllowed(req.dataset)
    /\ req' = None
    /\ UNCHANGED << available, state, contents, about, changes >>

-----------------------------------------------------------------------------
(* What else happens to datasets and files. *)

Publish(d) ==
    /\ Changes
    /\ state[d] = "draft"
    /\ state' = [state EXCEPT ![d] = "published"]
    /\ UNCHANGED << available, contents, about, req >>

\* Public datasets with the file are deprecated.
WithoutFile(f) ==
    [d \in Dataset |->
        IF f \in contents[d] /\ state[d] = "published" THEN "deprecated" ELSE state[d]]

\* When it is flushed, the rows that refer to it go with it.
DeleteFile(f) ==
    /\ Changes
    /\ f \in available
    /\ available' = available \ {f}
    /\ state' = WithoutFile(f)
    /\ \E kind \in DeletionKinds :
          /\ contents' = [d \in Dataset |-> contents[d] \ {x \in {f} : kind = "flush"}]
          /\ about' = [d \in Dataset |->
                IF kind = "flush" THEN [about[d] EXCEPT ![f] = None] ELSE about[d]]
    /\ UNCHANGED req

-----------------------------------------------------------------------------

ContentsNext ==
    \/ \E d \in Dataset : NewRequest(d) \/ Publish(d)
    \/ HasDirAction \/ HasFileAction
    \/ Update \/ Refuse
    \/ \E f \in File : DeleteFile(f)

ContentsSpec == ContentsInit /\ [][ContentsNext]_contentsVars

-----------------------------------------------------------------------------
(* Properties. *)

OfDataset(S) == S \cup DirectoryPaths(S)

\* The result of a request is that of its actions done one after the other,
\* those on directories first, less metadata about what is not in the dataset
\* then. It is refused if it would remove published files, or add files to those
\* of a published dataset that is not cumulative: actions that undo each other
\* are no changes (docs/user-guide/datasets-api.md:350).
UpdateIsInSequence ==
    [][req # None /\ req' = None =>
          LET d == req.dataset
              w == req.want IN
          IF /\ contents[d] \subseteq w.files \/ AllowsRemoving(d)
             /\ w.files \subseteq contents[d] \/ AllowsAdding(d, contents[d])
          THEN /\ contents'[d] = w.files
               /\ \A x \in Item :
                     about'[d][x] = IF x \in OfDataset(w.files) THEN w.about[x] ELSE None
          ELSE UNCHANGED << contents, about >>]_contentsVars

\* Whatever happens to files, a dataset describes nothing that it does not have.
MetadataIsOfItems ==
    \A d \in Dataset : \A x \in Item \ OfDataset(contents[d]) : about[d][x] = None

\* A request changes the dataset that it is about. (For metadata about
\* directories this is not so, see "Known divergences" in the README.)
OthersAreLeftAlone ==
    [][req # None => \A d \in Dataset \ {req.dataset} :
                        contents'[d] = contents[d] /\ about'[d] = about[d]]_contentsVars
=============================================================================
