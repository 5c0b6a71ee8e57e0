------------------------------- MODULE Ingest -------------------------------
(***************************************************************************)
(* The ingestion service with those who use it: synthetic streams, the     *)
(* endpoint benchmark, and a live source, which posts transactions and     *)
(* edges, one or a batch, in any order, several requests at once and again *)
(* after a timeout; what it hears is nobody's concern.                     *)
(***************************************************************************)
EXTENDS SyntheticStream, EndpointBenchmark

CONSTANTS
  LiveTxs,      \* the txIds of the live source
  LiveCalls,    \* a bound on its calls
  Casts         \* who takes part: sets of "bench", "live" and streams

ASSUME IngestAssumption ==
  /\ LiveCalls \in Nat
  /\ LiveTxs \cup SynTxs \cup BenchTxs \subseteq Txs
  /\ LiveTxs \cap SynTxs = {}

VARIABLE live   \* how many calls the live source has made

vars == <<serviceVars, streamVars, benchVars, live>>

TypeOK == ServiceTypeOK /\ StreamTypeOK /\ BenchTypeOK /\ live \in 0 .. LiveCalls

Init ==
  \E cast \in Casts :
    /\ ServiceInit
    /\ StreamInit(cast)
    /\ BenchInit("bench" \in cast)
    /\ live = IF "live" \in cast THEN 0 ELSE LiveCalls

\* Any of the four endpoints; of a batch of edges, rows are the ends.
LivePosts ==
  /\ live < LiveCalls
  /\ live' = live + 1
  /\ \E what \in {"transaction", "edge"}, rows \in (SUBSET LiveTxs) \ {{}} :
       calls' = calls \cup {[Call(<<<<"live", 0>>, live>>, "api", what, rows) EXCEPT !.heard = FALSE]}
  /\ UNCHANGED <<constraint, cached, copies, classed, lost, faults>>

Next ==
  \/ ServiceNext /\ UNCHANGED <<streamVars, benchVars, live>>
  \/ StreamNext /\ UNCHANGED <<benchVars, live>>
  \/ BenchNext /\ UNCHANGED <<streamVars, live>>
  \/ LivePosts /\ UNCHANGED <<streamVars, benchVars>>

Spec == Init /\ [][Next]_vars
=============================================================================
