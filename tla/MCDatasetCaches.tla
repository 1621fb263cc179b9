--------------------------- MODULE MCDatasetCaches ---------------------------
(* Instances of DatasetCaches for TLC. *)
EXTENDS DatasetCaches, TLC

Symmetry == Permutations(Reader) \cup Permutations(File)
=============================================================================
