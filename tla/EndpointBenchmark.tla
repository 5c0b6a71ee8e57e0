------------------------- MODULE EndpointBenchmark --------------------------
(***************************************************************************)
(* benchmark_ingest_endpoint.py: batches of rows POSTed to the service in  *)
(* three phases, each of which uses what the one before found best: one    *)
(* batch after another in every size; a pool of threads at every level of  *)
(* concurrency; and a sustained run that replaces every batch that is done *)
(* by the next.  Which run was the fastest is a choice.  Every run has     *)
(* txIds of its own, named for the second, the phase and its parameter.    *)
(***************************************************************************)
EXTENDS IngestService, FiniteSetsExt

CONSTANTS
  Sizes,         \* BATCH_SIZES_TO_BISECT
  RowsBisect,    \* N_ROWS_BISECT
  Levels,        \* CONCURRENCY_LEVELS
  RowsLevel,     \* N_ROWS_CONCURRENCY
  MaxStart       \* a bound on start_index of the sustained run

ASSUME EndpointBenchmarkAssumption ==
  /\ Sizes \subseteq Nat \ {0} /\ Sizes # {} /\ IsFiniteSet(Sizes)
  /\ Levels \subseteq Nat \ {0} /\ Levels # {} /\ IsFiniteSet(Levels)
  /\ {RowsBisect, RowsLevel, MaxStart} \subseteq Nat

VARIABLES
  phase,     \* 1, 2, 3; 4 when the deadline of phase 3 is over; 5 at the end
  level,     \* the batch size or the concurrency that is tried, or in use
  size,      \* best_batch_size, 0 for None
  best,      \* best_concurrency, 0 while best_rate is 0.0
  start,     \* where the next batch starts
  flying,    \* where the batches under way start
  sent,      \* total_sent
  errors     \* errors, total_errors

benchVars == <<phase, level, size, best, start, flying, sent, errors>>

\* What a batch is named for: run_id.
RunOf(p, l) == <<IF p = 1 THEN "p1b" ELSE IF p = 2 THEN "p2c" ELSE "p3", IF p = 3 THEN 0 ELSE l>>
RunTxs(p, l, rows) == {<<RunOf(p, l), i>> : i \in 0 .. rows - 1}
SustainedTxs == RunTxs(3, 0, MaxStart)

BenchTxs ==
  (UNION {RunTxs(1, l, RowsBisect) : l \in Sizes}) \cup (UNION {RunTxs(2, l, RowsLevel) : l \in Levels})
    \cup SustainedTxs

BenchTypeOK ==
  /\ phase \in 1 .. 5
  /\ level \in Sizes \cup Levels \cup {1}
  /\ size \in Sizes \cup {0}
  /\ best \in Levels \cup {0}
  /\ start \in 0 .. Max({MaxStart, RowsBisect, RowsLevel} \cup Sizes) + Max(Sizes)
  /\ \A f \in flying : f < start
  /\ Cardinality(flying) <= (IF phase = 1 THEN 1 ELSE level)
  /\ sent \in 0 .. MaxStart
  /\ errors \in Nat

BenchInit(started) ==
  /\ phase = IF started THEN 1 ELSE 5
  /\ level = Min(Sizes)
  /\ size = 0
  /\ best = 0
  /\ start = 0
  /\ flying = {}
  /\ sent = 0
  /\ errors = 0

-----------------------------------------------------------------------------
(* A batch, in any phase.                                                  *)

\* max_workers, or 1 for the loop of the first phase.
Threads == IF phase = 1 THEN 1 ELSE level

\* The length of a batch: phase 1 tries sizes, the others have one.
Width == IF phase = 1 THEN level ELSE size

RowsOf(f) ==
  LET rows == IF phase = 1 THEN RowsBisect ELSE IF phase = 2 THEN RowsLevel ELSE MaxStart
  IN  {<<RunOf(phase, level), i>> : i \in f .. Min({f + Width, rows}) - 1}

More == start < (IF phase = 1 THEN RowsBisect ELSE RowsLevel)

BatchId(f) == <<RunOf(phase, level), f>>

\* send_batch in a thread
Post(f) == calls' = calls \cup {Call(BatchId(f), "api", "transaction", RowsOf(f))}

SendBatch ==
  /\ phase \in {1, 2}
  /\ More
  /\ Cardinality(flying) < Threads
  /\ Post(start)
  /\ flying' = flying \cup {start}
  /\ start' = start + Width
  /\ UNCHANGED <<constraint, cached, copies, classed, lost, faults>>
  /\ UNCHANGED <<phase, level, size, best, sent, errors>>

BatchReturns ==
  /\ phase \in {1, 2}
  /\ \E f \in flying : Returns(BatchId(f)) /\ flying' = flying \ {f}
  /\ UNCHANGED <<constraint, cached, copies, classed, lost>>
  /\ UNCHANGED <<phase, level, size, best, start, sent, errors>>

\* Nobody catches it in the first phase; as_completed counts it in the second.
BatchRaises ==
  /\ phase \in {1, 2}
  /\ \E f \in flying : Raises(BatchId(f)) /\ flying' = flying \ {f}
  /\ IF phase = 1 THEN phase' = 5 /\ UNCHANGED errors ELSE errors' = errors + 1 /\ UNCHANGED phase
  /\ UNCHANGED <<constraint, cached, copies, classed, lost>>
  /\ UNCHANGED <<level, size, best, start, sent>>

-----------------------------------------------------------------------------
(* The end of a run, and the next one.                                     *)

Untried(ls) == {l \in ls : l > level}

Restarted == start' = 0 /\ errors' = 0

SizeEnds ==
  /\ phase = 1
  /\ ~More
  /\ flying = {}
  /\ \/ size' = level
     \/ size # 0 /\ UNCHANGED size
  /\ IF Untried(Sizes) # {} THEN level' = Min(Untried(Sizes)) /\ UNCHANGED phase
                            ELSE level' = Min(Levels) /\ phase' = 2
  /\ Restarted
  /\ UNCHANGED <<serviceVars, best, flying, sent>>

\* best_concurrency = 1 is what there is if no level went without an error.
Concurrency(b) == IF b = 0 THEN 1 ELSE b

\* Mutant: the fastest run wins, with errors or without.
Crowned_Fastest == best' = level \/ (best # 0 /\ UNCHANGED best)

\* rate > best_rate and errors == 0
Crowned ==
  \/ errors = 0 /\ best' = level
  \/ (errors > 0 \/ best # 0) /\ UNCHANGED best

LevelEnds ==
  /\ phase = 2
  /\ ~More
  /\ flying = {}
  /\ Crowned
  /\ IF Untried(Levels) # {} THEN level' = Min(Untried(Levels)) /\ UNCHANGED phase
                             ELSE level' = Concurrency(best') /\ phase' = 3
  /\ Restarted
  /\ UNCHANGED <<serviceVars, size, flying, sent>>

-----------------------------------------------------------------------------
(* The sustained run.                                                      *)

(* submit_one is called once for every thread, then after every future     *)
(* that is done, before anything else; past the bound, no more.            *)
Owed == phase = 3 /\ Cardinality(flying) < level /\ start + size <= MaxStart

Submit ==
  /\ Owed
  /\ Post(start)
  /\ flying' = flying \cup {start}
  /\ start' = start + size
  /\ UNCHANGED <<constraint, cached, copies, classed, lost, faults>>
  /\ UNCHANGED <<phase, level, size, best, sent, errors>>

\* Mutant: total_sent is counted before future.result() raises.
Reap_CountsFirst ==
  /\ phase = 3
  /\ ~Owed
  /\ \E f \in flying :
       /\ flying' = flying \ {f}
       /\ sent' = sent + size
       /\ \/ Returns(BatchId(f)) /\ UNCHANGED errors
          \/ Raises(BatchId(f)) /\ errors' = errors + 1
  /\ UNCHANGED <<constraint, cached, copies, classed, lost>>
  /\ UNCHANGED <<phase, level, size, best, start>>

\* A future is done: it is counted as sent, or as an error.
Reap ==
  /\ phase = 3
  /\ ~Owed
  /\ \E f \in flying :
       /\ flying' = flying \ {f}
       /\ \/ Returns(BatchId(f)) /\ sent' = sent + size /\ UNCHANGED errors
          \/ Raises(BatchId(f)) /\ errors' = errors + 1 /\ UNCHANGED sent
  /\ UNCHANGED <<constraint, cached, copies, classed, lost>>
  /\ UNCHANGED <<phase, level, size, best, start>>

\* SUSTAINED_DURATION_S
Deadline ==
  /\ phase = 3
  /\ ~Owed
  /\ phase' = 4
  /\ UNCHANGED <<serviceVars, level, size, best, start, flying, sent, errors>>

\* The pool waits for what is under way, and nobody looks at its result.
Drain ==
  /\ phase = 4
  /\ \E f \in flying :
       /\ flying' = flying \ {f}
       /\ Returns(<<RunOf(3, 0), f>>) \/ Raises(<<RunOf(3, 0), f>>)
  /\ UNCHANGED <<constraint, cached, copies, classed, lost>>
  /\ UNCHANGED <<phase, level, size, best, start, sent, errors>>

Summary ==
  /\ phase = 4
  /\ flying = {}
  /\ phase' = 5
  /\ UNCHANGED <<serviceVars, level, size, best, start, flying, sent, errors>>

BenchNext ==
  \/ SendBatch \/ BatchReturns \/ BatchRaises \/ SizeEnds \/ LevelEnds
  \/ Submit \/ Reap \/ Deadline \/ Drain \/ Summary

-----------------------------------------------------------------------------
(* The throughput it reports is not overstated: every row in total_sent is *)
(* in the graph, or was refused and answered ok, whatever became of the    *)
(* batches that timed out and those nobody waited for                      *)
(* (benchmark_ingest_endpoint.py, lines 155-165 and 184).                  *)
SentIsWritten == sent <= Cardinality(SustainedTxs \cap (classed \cup lost))

(* "don't crown an error-producing config the winner" (line 117): all rows *)
(* of the run that won the second phase were answered ok, and are in the   *)
(* graph unless they were refused late.                                    *)
WinnerWroteAll == best # 0 => RunTxs(2, best, RowsLevel) \subseteq classed \cup lost
=============================================================================
