-------------------------- MODULE MCRemsPublication --------------------------
(* Small instances of RemsPublication. *)
EXTENDS RemsPublication

CONSTANTS a1, o1, o2

Says(permit, terms, manual, org) ==
    [removed |-> FALSE, permit |-> permit, terms |-> terms, manual |-> manual, org |-> org]

NotForRems == Says(FALSE, 1, FALSE, o1)

\* One change of each kind: other terms or none, handlers who decide, another
\* organization.
OneChangeEach ==
    {NotForRems, Says(TRUE, 0, FALSE, o1), Says(TRUE, 1, FALSE, o1), Says(TRUE, 2, FALSE, o1),
     Says(TRUE, 1, TRUE, o1), Says(TRUE, 1, FALSE, o2)}
=============================================================================
