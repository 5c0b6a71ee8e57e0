----------------------------- MODULE MCBulkLoad -----------------------------
(* An instance of BulkLoad for TLC: every edge joins nodes of two batches, *)
(* and of two shards, and the last batch of edges is short.                *)
EXTENDS BulkLoad, TLC

MCEnds == << <<1, 4>>, <<3, 2>>, <<4, 1>> >>

RunSymmetry == Permutations(Runs)
=============================================================================
