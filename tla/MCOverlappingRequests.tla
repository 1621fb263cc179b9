------------------------ MODULE MCOverlappingRequests ------------------------
(* Instances of OverlappingRequests for TLC. *)
EXTENDS OverlappingRequests, TLC

Symmetry == Permutations(Worker) \cup Permutations(File)

=============================================================================
