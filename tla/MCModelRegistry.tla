--------------------------- MODULE MCModelRegistry ---------------------------
(* An instance of ModelRegistry for TLC.  Calls and versions are           *)
(* interchangeable, and no liveness is checked.                            *)
EXTENDS ModelRegistry, TLC

Symmetry == Permutations(Clients) \cup Permutations(Versions)
=============================================================================
