--------------------------- MODULE MCDiffSnapshot ---------------------------
(* An instance of DiffSnapshot for TLC: every pair of stores over MaxTx    *)
(* txIds, full and short pages at every position.                          *)
EXTENDS DiffSnapshot
=============================================================================
