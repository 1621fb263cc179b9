---------------------------- MODULE MCPreservation ----------------------------
(* Instances of Preservation for TLC. *)
EXTENDS Preservation, TLC

Symmetry == Permutations(Worker) \cup Permutations(Record) \cup Permutations(Copy)
=============================================================================
