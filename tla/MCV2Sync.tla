------------------------------- MODULE MCV2Sync -------------------------------
(* Instances of V2Sync for TLC. Workers are not symmetric: liveness is checked. *)
EXTENDS V2Sync
=============================================================================
