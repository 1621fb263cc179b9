-------------------------- MODULE MCRemsApplications --------------------------
(* Small instances of RemsApplications. *)
EXTENDS RemsApplications, TLC

CONSTANTS s1, s2, h1, h2, l1

Handlers == Permutations(Handler)
=============================================================================
