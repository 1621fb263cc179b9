-------------------------- MODULE MCFilePublication --------------------------
(* Instances of FilePublication for TLC. *)
EXTENDS FilePublication, TLC
=============================================================================
