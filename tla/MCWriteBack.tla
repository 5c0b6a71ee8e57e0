----------------------------- MODULE MCWriteBack -----------------------------
(* An instance of WriteBack for TLC: an old snapshot that is all there and *)
(* a newer one, of which the rows are being written, or written again by a *)
(* resumed export that dates them later.                                   *)
EXTENDS WriteBack, TLC

CONSTANTS c1, c2

Rows(class, at, ts) == [t \in TxIds |-> IF t \in ts THEN [class |-> class, at |-> at] ELSE NoRow]

MCGraphs == {[t \in TxIds |-> Absent]}

MCArchives ==
  {[rows |-> <<Rows(c1, 1, TxIds), Rows(c2, 1, {1})>>, owed |-> <<TxIds, TxIds>>,
    declared |-> {1}]}

MCExports == {[snap |-> 2, batch |-> [t \in TxIds |-> c2], at |-> 2]}

RunSymmetry == Permutations(Runs)
=============================================================================
