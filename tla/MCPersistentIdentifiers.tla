----------------------- MODULE MCPersistentIdentifiers -----------------------
(* Instances of PersistentIdentifiers for TLC. *)
EXTENDS PersistentIdentifiers, TLC

CONSTANTS att, harvested

\* Catalog "att" generates DOIs and takes identifiers, "harvested" only takes them.
MCManaged == [c \in Catalog |-> IF c = att THEN {"DOI"} ELSE {}]

Symmetry == Permutations(Request)
=============================================================================
