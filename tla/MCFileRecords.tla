---------------------------- MODULE MCFileRecords ----------------------------
(* Instances of FileRecords for TLC. *)
EXTENDS FileRecords, TLC

Symmetry ==
    Permutations(File) \cup Permutations(Identifier) \cup Permutations(Project)
        \cup Permutations(Worker)
=============================================================================
