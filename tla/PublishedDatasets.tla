-------------------------- MODULE PublishedDatasets --------------------------
(* What readers of published datasets may rely on, whatever editors do with    *)
(* drafts, linked drafts and versions behind them: the abstract specification  *)
(* that DatasetLifecycle implements.                                           *)
CONSTANTS Dataset, File

VARIABLES
    fresh,       \* ids that may be published: not used yet, or drafts
    public,      \* published datasets
    withdrawn,   \* those that have been removed, and may be restored
    open,        \* those that are cumulative
    outdated,    \* those that are deprecated
    contents,    \* their files
    stored       \* files that storage has

vars == << fresh, public, withdrawn, open, outdated, contents, stored >>

Init ==
    /\ fresh = Dataset
    /\ public = {}
    /\ withdrawn = {}
    /\ open = {}
    /\ outdated = {}
    /\ contents = [d \in Dataset |-> {}]
    /\ stored = File

\* A dataset is published once, with files that exist.
Publish(d) ==
    /\ d \in fresh \ fresh'
    /\ public' = public \cup {d}
    /\ open' \in {open, open \cup {d}}
    /\ \E fs \in SUBSET stored : contents' = [contents EXCEPT ![d] = fs]
    /\ UNCHANGED << withdrawn, outdated, stored >>

\* It keeps its files, gains files only while it is open or has none, and is
\* never opened again. A merged draft brings it up to date.
Change(d) ==
    /\ d \in public
    /\ \E fs \in SUBSET stored :
           /\ contents[d] \subseteq fs
           /\ d \in open \/ contents[d] \in {{}, fs}
           /\ contents' = [contents EXCEPT ![d] = fs]
    /\ open' \in {open, open \ {d}}
    /\ outdated' \in {outdated, outdated \ {d}}
    /\ UNCHANGED << public, withdrawn, stored >>

Withdraw(d) ==
    /\ d \in public \ withdrawn
    /\ withdrawn' = withdrawn \cup {d}
    /\ UNCHANGED << public, open, outdated, contents, stored >>

\* It comes back as it went, but for deleted files.
Return(d) ==
    /\ d \in withdrawn
    /\ withdrawn' = withdrawn \ {d}
    /\ UNCHANGED << public, open, outdated, contents, stored >>

\* A flushed dataset does not come back.
Flush(d) ==
    /\ d \in public
    /\ public' = public \ {d}
    /\ withdrawn' = withdrawn \ {d}
    /\ open' = open \ {d}
    /\ outdated' = outdated \ {d}
    /\ contents' = [contents EXCEPT ![d] = {}]
    /\ UNCHANGED stored

\* Datasets that lose a file are deprecated, withdrawn ones too; so are others
\* that had the file when it was deleted, once its record is flushed.
LoseFile(f) ==
    /\ stored' = stored \ {f}
    /\ contents' = [d \in Dataset |-> contents[d] \ {f}]
    /\ outdated \cup {d \in public : f \in contents[d]} \subseteq outdated'
    /\ outdated' \subseteq public
    /\ UNCHANGED << public, withdrawn, open >>

\* Drafts are made and discarded at any time.
Next ==
    /\ fresh' \subseteq fresh
    /\ \/ \E d \in Dataset : Publish(d) \/ Change(d) \/ Withdraw(d) \/ Return(d) \/ Flush(d)
       \/ \E f \in File : LoseFile(f)
       \/ UNCHANGED << public, withdrawn, open, outdated, contents, stored >>

Spec == Init /\ [][Next]_vars
=============================================================================
