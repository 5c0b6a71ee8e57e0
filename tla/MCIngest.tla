------------------------------ MODULE MCIngest ------------------------------
(* An instance of Ingest for TLC: two streams, started in one second or in *)
(* two; the benchmark; the live source on a service that has just started. *)
EXTENDS Ingest, TLC

CONSTANTS s1, s2

MCLiveTxs == {<<<<"live", 0>>, i>> : i \in {1, 2}}
MCTxs == MCLiveTxs \cup SynTxs \cup BenchTxs
MCCasts == {{s1, s2}, {"bench"}, {"live"}}

StreamSymmetry == Permutations(Streams)
=============================================================================
