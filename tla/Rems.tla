---------------------------------- MODULE Rems ----------------------------------
(* What the models of REMS have in common. *)

CONSTANT
    None           \* Python's None
=============================================================================
