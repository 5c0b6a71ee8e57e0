-------------------------- MODULE SyntheticStream ---------------------------
(***************************************************************************)
(* generate_synthetic_stream.py: streams that make up transactions in      *)
(* batches of random length and join each one to some of the most recent.  *)
(* They write through the API, or to Memgraph with a store of their own.   *)
(* A stream takes its run id from the clock's second, so two may share it. *)
(* How many rows a window has, the targets of a row and the end of a       *)
(* stream are choices; rates, features and the report by rate are left out. *)
(***************************************************************************)
EXTENDS IngestService, Sequences

CONSTANTS
  Streams,       \* processes
  Seconds,       \* when they may be started
  StreamRows,    \* a bound on the rows of a stream
  Recency,       \* RECENCY_WINDOW
  MaxOutEdges    \* MAX_OUT_EDGES

ASSUME SyntheticStreamAssumption ==
  /\ StreamRows \in Nat
  /\ Recency \in Nat \ {0}
  /\ MaxOutEdges \in Nat

VARIABLES
  spc,       \* where a stream is
  sink,      \* "api" or "driver"
  second,    \* run_id
  total,     \* total_rows
  count,     \* the length of the batch
  done,      \* i: its rows that are done
  targets,   \* of the row, the edges still to send
  recent     \* recent_ids

streamVars == <<spc, sink, second, total, count, done, targets, recent>>

SynTx(n, i) == <<<<"syn", n>>, i>>
SynTxs == {SynTx(n, i) : n \in Seconds, i \in 0 .. StreamRows - 1}

\* f"syn-{run_id}-{start_index + i}"
TxOf(s) == SynTx(second[s], total[s] + done[s])

StreamTypeOK ==
  /\ spc \in [Streams -> {"new", "window", "row", "transaction", "edges", "edge", "stopped", "raised"}]
  /\ sink \in [Streams -> {"api", "driver"}]
  /\ second \in [Streams -> Seconds]
  /\ \A s \in Streams :
       /\ total[s] + count[s] \in 0 .. StreamRows
       /\ done[s] \in 0 .. count[s]
       /\ targets[s] \subseteq SynTxs
       /\ Len(recent[s]) <= Recency
       /\ \A i \in DOMAIN recent[s] : recent[s][i] \in SynTxs \ {TxOf(s)}

StreamInit(started) ==
  /\ spc = [s \in Streams |-> IF s \in started THEN "new" ELSE "stopped"]
  /\ sink \in [Streams -> {"api", "driver"}]
  /\ second \in [Streams -> Seconds]
  /\ \A s \in Streams \ started : sink[s] = "api" /\ \A n \in Seconds : second[s] <= n
  /\ total = [s \in Streams |-> 0]
  /\ count = [s \in Streams |-> 0]
  /\ done = [s \in Streams |-> 0]
  /\ targets = [s \in Streams |-> {}]
  /\ recent = [s \in Streams |-> <<>>]

-----------------------------------------------------------------------------
Id(s) == <<<<"stream", s>>, 0>>

At(s, l) == spc' = [spc EXCEPT ![s] = l]

\* The sink: MemgraphSink makes sure of the constraint, or raises.
StartStream(s) ==
  /\ spc[s] = "new"
  /\ IF sink[s] = "api"
     THEN At(s, "window") /\ UNCHANGED <<constraint, faults>>
     ELSE \/ MayConstrain /\ At(s, "window") /\ constraint' = TRUE /\ UNCHANGED faults
          \/ Fault /\ At(s, "raised") /\ UNCHANGED constraint
  /\ UNCHANGED <<cached, copies, classed, lost, calls, sink, second, total, count, done, targets, recent>>

\* max(1, poisson(rate * window)) rows
NextWindow(s) ==
  /\ spc[s] = "window"
  /\ \E n \in 1 .. StreamRows - total[s] : count' = [count EXCEPT ![s] = n]
  /\ done' = [done EXCEPT ![s] = 0]
  /\ At(s, "row")
  /\ UNCHANGED <<serviceVars, sink, second, total, targets, recent>>

SendTransaction(s) ==
  /\ spc[s] = "row"
  /\ calls' = calls \cup {Call(Id(s), sink[s], "transaction", {TxOf(s)})}
  /\ At(s, "transaction")
  /\ UNCHANGED <<constraint, cached, copies, classed, lost, faults>>
  /\ UNCHANGED <<sink, second, total, count, done, targets, recent>>

\* random.sample of at most MAX_OUT_EDGES of the recent ids
SomeRecent(s) ==
  {ts \in SUBSET {recent[s][i] : i \in DOMAIN recent[s]} : Cardinality(ts) <= MaxOutEdges}

\* Mutant: ApiSink.upsert_transaction without raise_for_status.
TransactionReturns_AnyStatus(s) ==
  /\ spc[s] = "transaction"
  /\ \E k \in Heard(Id(s)) : k.pc \in Answers /\ calls' = calls \ {k}
  /\ \E ts \in SomeRecent(s) : targets' = [targets EXCEPT ![s] = ts]
  /\ At(s, "edges")
  /\ UNCHANGED <<constraint, cached, copies, classed, lost, faults>>
  /\ UNCHANGED <<sink, second, total, count, done, recent>>

TransactionReturns(s) ==
  /\ spc[s] = "transaction"
  /\ Returns(Id(s))
  /\ \E ts \in SomeRecent(s) : targets' = [targets EXCEPT ![s] = ts]
  /\ At(s, "edges")
  /\ UNCHANGED <<constraint, cached, copies, classed, lost>>
  /\ UNCHANGED <<sink, second, total, count, done, recent>>

SendEdge(s) ==
  /\ spc[s] = "edges"
  /\ \E t \in targets[s] :
       /\ targets' = [targets EXCEPT ![s] = @ \ {t}]
       /\ calls' = calls \cup {Call(Id(s), sink[s], "edge", {TxOf(s), t})}
  /\ At(s, "edge")
  /\ UNCHANGED <<constraint, cached, copies, classed, lost, faults>>
  /\ UNCHANGED <<sink, second, total, count, done, recent>>

EdgeReturns(s) ==
  /\ spc[s] = "edge"
  /\ Returns(Id(s))
  /\ At(s, "edges")
  /\ UNCHANGED <<constraint, cached, copies, classed, lost>>
  /\ UNCHANGED <<sink, second, total, count, done, targets, recent>>

\* Mutant: popleft when there are more than RECENCY_WINDOW + 1.
Remember_OneMore(ids, t) == IF Len(ids) <= Recency THEN Append(ids, t) ELSE Append(Tail(ids), t)

\* recent_ids.append, popleft
Remember(ids, t) == IF Len(ids) < Recency THEN Append(ids, t) ELSE Append(Tail(ids), t)

\* The row is done, and with the last one total_rows += count.
EndRow(s) ==
  /\ spc[s] = "edges"
  /\ targets[s] = {}
  /\ recent' = [recent EXCEPT ![s] = Remember(@, TxOf(s))]
  /\ IF done[s] + 1 < count[s]
     THEN /\ done' = [done EXCEPT ![s] = @ + 1]
          /\ At(s, "row")
          /\ UNCHANGED <<total, count>>
     ELSE /\ done' = [done EXCEPT ![s] = 0]
          /\ total' = [total EXCEPT ![s] = @ + count[s]]
          /\ count' = [count EXCEPT ![s] = 0]
          /\ At(s, "window")
  /\ UNCHANGED <<serviceVars, sink, second, targets>>

\* Mutant: total_rows is counted in a finally clause.
StreamRaises_Counts(s) ==
  /\ spc[s] \in {"transaction", "edge"}
  /\ Raises(Id(s))
  /\ At(s, "raised")
  /\ total' = [total EXCEPT ![s] = @ + count[s]]
  /\ count' = [count EXCEPT ![s] = 0]
  /\ done' = [done EXCEPT ![s] = 0]
  /\ UNCHANGED <<constraint, cached, copies, classed, lost>>
  /\ UNCHANGED <<sink, second, targets, recent>>

\* Nothing but KeyboardInterrupt is caught: the stream ends, and its sink.
StreamRaises(s) ==
  /\ spc[s] \in {"transaction", "edge"}
  /\ Raises(Id(s))
  /\ At(s, "raised")
  /\ UNCHANGED <<constraint, cached, copies, classed, lost>>
  /\ UNCHANGED <<sink, second, total, count, done, targets, recent>>

\* Ctrl+C at any point, or the duration is over between two batches.
StopStream(s) ==
  /\ spc[s] \notin {"new", "stopped", "raised"}
  /\ calls' = (calls \ Heard(Id(s))) \cup
              {[k EXCEPT !.heard = FALSE] : k \in {j \in Heard(Id(s)) : j.pc \notin Answers}}
  /\ At(s, "stopped")
  /\ UNCHANGED <<constraint, cached, copies, classed, lost, faults>>
  /\ UNCHANGED <<sink, second, total, count, done, targets, recent>>

StreamNext ==
  \E s \in Streams :
    \/ StartStream(s) \/ NextWindow(s) \/ SendTransaction(s) \/ TransactionReturns(s)
    \/ SendEdge(s) \/ EdgeReturns(s) \/ EndRow(s) \/ StreamRaises(s) \/ StopStream(s)

-----------------------------------------------------------------------------
(* What a stream reports, however it ended, and what it may still join an  *)
(* edge to, is in the graph with its class: total_rows counts a batch only *)
(* when every call of it returned, and recent_ids a row only when its own  *)
(* did (generate_synthetic_stream.py, lines 217-230 and 257-259).  The one *)
(* exception is a write that was refused and answered ok.                  *)
CountedIsWritten ==
  \A s \in Streams :
    {SynTx(second[s], i) : i \in 0 .. total[s] + done[s] - 1}
      \cup {recent[s][i] : i \in DOMAIN recent[s]} \subseteq classed \cup lost

(* An edge makes the nodes it does not find, without a class, and an       *)
(* export skips those.  The stream sends the edges of a row after its      *)
(* transaction and to earlier rows only, so it never leaves such a node    *)
(* behind, timeouts, interrupts and late handlers included, unless the     *)
(* transaction was refused and answered ok all the same (memgraph_client,  *)
(* line 34, does not consume its result): that row is in lost.             *)
NoHollowNode ==
  \A t \in SynTxs : copies[t] > 0 => t \in classed \cup lost
=============================================================================
