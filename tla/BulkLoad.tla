------------------------------ MODULE BulkLoad ------------------------------
(***************************************************************************)
(* The one-time loaders of scripts/: benchmark_full_load (sequential, and  *)
(* resumable after a kill), benchmark_parallel_load (the same batches on a *)
(* thread pool) and benchmark_loadcsv (one thread for each shard, LOAD CSV *)
(* and CREATE).  Each loads all nodes of a CSV, then all edges of another. *)
(*                                                                         *)
(* A run is one invocation of one of them.  A full load may be killed and  *)
(* started again, started twice by mistake, or started after or during one *)
(* of the others.  The pool scripts are run by nobody else at the time and *)
(* LOAD CSV against an empty graph, as its docstring asks.  They switch    *)
(* the database to analytical mode, where there are no constraints and no  *)
(* rollback, and switch it back at their end, which they may not reach.    *)
(* What a killed process had sent may still be committed.  A refusal that  *)
(* comes after RUN is seen by the LOAD CSV script only, which consumes its *)
(* results.  Its index, which only makes it faster, is left out.           *)
(***************************************************************************)
EXTENDS Integers, FiniteSets

CONSTANTS
  Runs,       \* invocations
  Scripts,    \* the scripts they are of
  NodeRows,   \* the length of the node CSV; no txId is in it twice
  Ends,       \* the edge CSV: what an edge row joins, as two node rows
  EdgeRows,   \* its length; no pair is in it twice
  BatchSize,  \* BATCH_SIZE
  Workers     \* max_workers, and the number of shards

ASSUME BulkLoadAssumption ==
  /\ Scripts \subseteq {"full", "parallel", "loadcsv"}
  /\ NodeRows \in Nat
  /\ EdgeRows \in Nat
  /\ Ends \in [1 .. EdgeRows -> (1 .. NodeRows) \X (1 .. NodeRows)]
  /\ BatchSize \in Nat \ {0}
  /\ Workers \in Nat \ {0}

VARIABLES
  script,      \* the script of each run
  nodes,       \* how many nodes each node row has made
  edges,       \* how many relationships each edge row has made
  lost,        \* history: the rows refused unseen since the last wipe
  analytical,  \* the storage mode is IN_MEMORY_ANALYTICAL
  constraint,  \* txId is UNIQUE
  pc,          \* where a run is
  skip,        \* existing_nodes and existing_edges of a run
  at,          \* the next part of its phase
  flying,      \* its parts that have been sent and not answered
  failed       \* a part of this phase raised

graphVars == <<nodes, edges, lost>>
modeVars == <<analytical, constraint>>
vars == <<script, graphVars, modeVars, pc, skip, at, flying, failed>>

Phases == {"nodes", "edges"}
Rows(phase) == 1 .. (IF phase = "nodes" THEN NodeRows ELSE EdgeRows)

NoneLost == [nodes |-> {}, edges |-> {}]
NoneSkipped == [nodes |-> 0, edges |-> 0]

TypeOK ==
  /\ script \in [Runs -> Scripts]
  /\ analytical \in BOOLEAN
  /\ constraint \in BOOLEAN
  /\ nodes \in [Rows("nodes") -> 0 .. 1]
  /\ edges \in [Rows("edges") -> 0 .. 1]
  /\ lost \in [nodes : SUBSET Rows("nodes"), edges : SUBSET Rows("edges")]
  /\ pc \in [Runs -> Phases \cup {"idle", "count", "finish", "constrain", "done", "raised", "killed"}]
  /\ skip \in [Runs -> [nodes : 0 .. NodeRows, edges : 0 .. EdgeRows]]
  /\ at \in [Runs -> Nat]
  /\ flying \in [Runs -> SUBSET (Phases \X SUBSET (Rows("nodes") \cup Rows("edges")))]
  /\ failed \in [Runs -> BOOLEAN]

Init ==
  /\ script \in [Runs -> Scripts]
  /\ analytical = FALSE
  /\ constraint = FALSE
  /\ nodes = [i \in Rows("nodes") |-> 0]
  /\ edges = [i \in Rows("edges") |-> 0]
  /\ lost = NoneLost
  /\ pc = [r \in Runs |-> "idle"]
  /\ skip = [r \in Runs |-> NoneSkipped]
  /\ at = [r \in Runs |-> 1]
  /\ flying = [r \in Runs |-> {}]
  /\ failed = [r \in Runs |-> FALSE]

Pool(r) == script[r] # "full"

LoadedNodes == {i \in Rows("nodes") : nodes[i] > 0}
LoadedEdges == {i \in Rows("edges") : edges[i] > 0}

-----------------------------------------------------------------------------
(* What a part is, and what it does.                                       *)

\* items[already_done:] in batches.
Batch(phase, done, k) ==
  {i \in Rows(phase) : done + (k - 1) * BatchSize < i /\ i <= done + k * BatchSize}

\* Row i goes to shard i % n_shards.
Shard(phase, k) == {i \in Rows(phase) : (i - 1) % Workers = k - 1}

Part(r, k) ==
  IF script[r] = "loadcsv" THEN Shard(pc[r], k) ELSE Batch(pc[r], skip[r][pc[r]], k)

\* Parts there are no more of.
Past(r, k) == IF script[r] = "loadcsv" THEN k > Workers ELSE Part(r, k) = {}

\* for batch in batched(...), one at a time; or a pool of threads.
AtOnce(r) == IF Pool(r) THEN Workers ELSE 1

\* CREATE; MERGE.
Made(r, n) == IF script[r] = "loadcsv" THEN n + 1 ELSE 1

\* MATCH (a), MATCH (b): no endpoint, no edge.
Joinable(i) == Ends[i][1] \in LoadedNodes /\ Ends[i][2] \in LoadedNodes

Load(r, phase, part) ==
  IF phase = "nodes"
  THEN /\ nodes' = [i \in Rows("nodes") |-> IF i \in part THEN Made(r, nodes[i]) ELSE nodes[i]]
       /\ UNCHANGED edges
  ELSE /\ edges' = [i \in Rows("edges") |-> IF i \in part /\ Joinable(i) THEN Made(r, edges[i])
                                                                         ELSE edges[i]]
       /\ UNCHANGED nodes

-----------------------------------------------------------------------------
(* A run.                                                                  *)

Goto(r, l) == pc' = [pc EXCEPT ![r] = l]

\* The process ends, and its variables with it.
Exits(r, l) ==
  /\ Goto(r, l)
  /\ skip' = [skip EXCEPT ![r] = NoneSkipped]
  /\ at' = [at EXCEPT ![r] = 1]
  /\ failed' = [failed EXCEPT ![r] = FALSE]

\* CREATE CONSTRAINT: refused in analytical mode, and where a txId is double.
Constrains == ~analytical /\ \A i \in Rows("nodes") : nodes[i] <= 1

\* Mutant: the rows are counted without creating the constraint first.
BeginFull_NoConstraint(r) ==
  /\ pc[r] = "idle"
  /\ ~Pool(r)
  /\ Goto(r, "count")
  /\ skip' = [skip EXCEPT ![r].nodes = Cardinality(LoadedNodes)]
  /\ UNCHANGED <<script, graphVars, modeVars, at, flying, failed>>

\* The constraint, then existing_nodes.
BeginFull(r) ==
  /\ pc[r] = "idle"
  /\ ~Pool(r)
  /\ IF Constrains
     THEN /\ Goto(r, "count")
          /\ constraint' = TRUE
          /\ skip' = [skip EXCEPT ![r].nodes = Cardinality(LoadedNodes)]
     ELSE /\ Goto(r, "raised")
          /\ UNCHANGED <<constraint, skip>>
  /\ UNCHANGED <<script, graphVars, analytical, at, flying, failed>>

(* STORAGE MODE IN_MEMORY_ANALYTICAL, which waits for what is in flight    *)
(* and may be refused where there is a constraint; the probe confirms it.  *)
BeginPool(r) ==
  /\ pc[r] = "idle"
  /\ Pool(r)
  /\ script[r] = "loadcsv" => LoadedNodes = {}
  /\ \A q \in Runs : pc[q] \notin Phases \cup {"count", "finish", "constrain"} /\ flying[q] = {}
  /\ \/ Goto(r, "nodes") /\ analytical' = TRUE
     \/ constraint /\ Goto(r, "raised") /\ UNCHANGED analytical
  /\ UNCHANGED <<script, graphVars, constraint, skip, at, flying, failed>>

\* Mutant: one row too many is taken to be there.
CountEdges_OneMore(r) ==
  /\ pc[r] = "count"
  /\ Goto(r, "nodes")
  /\ skip' = [skip EXCEPT ![r].edges = IF LoadedEdges = {} THEN 0 ELSE Cardinality(LoadedEdges) + 1]
  /\ UNCHANGED <<script, graphVars, modeVars, at, flying, failed>>

\* existing_edges, asked for after existing_nodes and before either phase.
CountEdges(r) ==
  /\ pc[r] = "count"
  /\ Goto(r, "nodes")
  /\ skip' = [skip EXCEPT ![r].edges = Cardinality(LoadedEdges)]
  /\ UNCHANGED <<script, graphVars, modeVars, at, flying, failed>>

\* The next part is sent; a pool hands its parts out in the order submitted.
Send(r) ==
  /\ pc[r] \in Phases
  /\ Cardinality(flying[r]) < AtOnce(r)
  /\ ~Past(r, at[r])
  /\ flying' = [flying EXCEPT ![r] = @ \cup {<<pc[r], Part(r, at[r])>>}]
  /\ at' = [at EXCEPT ![r] = @ + 1]
  /\ UNCHANGED <<script, graphVars, modeVars, pc, skip, failed>>

\* One part is committed, in one transaction, and answered.
Commit(r) ==
  /\ \E f \in flying[r] :
       /\ Load(r, f[1], f[2])
       /\ flying' = [flying EXCEPT ![r] = @ \ {f}]
  /\ UNCHANGED <<script, lost, modeVars, pc, skip, at, failed>>

\* What a part that fails may have loaded: analytical mode has no rollback.
Leftovers(r, part) == IF Pool(r) THEN SUBSET part ELSE {{}, part}

(* One part raises, committed or not.  A full load ends there; a pool has  *)
(* the rest of its parts still to run, and the exception waits for them.   *)
Fail(r) ==
  /\ \E f \in flying[r] :
       /\ \E some \in Leftovers(r, f[2]) : Load(r, f[1], some)
       /\ flying' = [flying EXCEPT ![r] = @ \ {f}]
  /\ \/ pc[r] \in Phases /\ ~Pool(r) /\ Exits(r, "raised")
     \/ /\ pc[r] \in Phases /\ Pool(r)
        /\ failed' = [failed EXCEPT ![r] = TRUE]
        /\ UNCHANGED <<pc, skip, at>>
     \/ pc[r] = "killed" /\ UNCHANGED <<pc, skip, at, failed>>
  /\ UNCHANGED <<script, lost, modeVars>>

(* One part is refused after RUN was answered.  LOAD CSV consumes its      *)
(* result; the others leave theirs to the session, which drops the error   *)
(* when it closes, and the part passes for loaded.                         *)
Refused(r) ==
  /\ pc[r] \in Phases
  /\ script[r] # "loadcsv"
  /\ \E f \in flying[r] : \E some \in Leftovers(r, f[2]) :
       /\ Load(r, f[1], some)
       /\ lost' = [lost EXCEPT ![f[1]] = @ \cup (f[2] \ some)]
       /\ flying' = [flying EXCEPT ![r] = @ \ {f}]
  /\ UNCHANGED <<script, modeVars, pc, skip, at, failed>>

\* The edges come after the nodes; a pool has its mode to switch back.
NextPhase(r) ==
  IF pc[r] = "edges" /\ ~Pool(r)
  THEN Exits(r, "done")
  ELSE /\ Goto(r, IF pc[r] = "nodes" THEN "edges" ELSE "finish")
       /\ at' = [at EXCEPT ![r] = 1]
       /\ UNCHANGED <<skip, failed>>

\* Mutant: a phase ends when its last part is sent.
EndPhase_NoWait(r) ==
  /\ pc[r] \in Phases
  /\ Past(r, at[r])
  /\ IF failed[r] THEN Exits(r, "raised") ELSE NextPhase(r)
  /\ UNCHANGED <<script, graphVars, modeVars, flying>>

\* Mutant: future.result() is not called, so nobody sees the exception.
EndPhase_Unseen(r) ==
  /\ pc[r] \in Phases
  /\ Past(r, at[r])
  /\ flying[r] = {}
  /\ NextPhase(r)
  /\ UNCHANGED <<script, graphVars, modeVars, flying>>

\* Every part is answered: the other phase, the end, or the exception.
EndPhase(r) ==
  /\ pc[r] \in Phases
  /\ Past(r, at[r])
  /\ flying[r] = {}
  /\ IF failed[r] THEN Exits(r, "raised") ELSE NextPhase(r)
  /\ UNCHANGED <<script, graphVars, modeVars, flying>>

\* STORAGE MODE IN_MEMORY_TRANSACTIONAL
SwitchBack(r) ==
  /\ pc[r] = "finish"
  /\ Goto(r, "constrain")
  /\ analytical' = FALSE
  /\ UNCHANGED <<script, graphVars, constraint, skip, at, flying, failed>>

\* The pool scripts make the constraint now, and raise if it cannot be.
Finish(r) ==
  /\ pc[r] = "constrain"
  /\ Goto(r, IF Constrains THEN "done" ELSE "raised")
  /\ constraint' = (constraint \/ Constrains)
  /\ UNCHANGED <<script, graphVars, analytical, skip, at, flying, failed>>

\* Ctrl+C, a session restart: what was sent is committed later, or never.
Killed(r) ==
  /\ pc[r] \in Phases \cup {"count", "finish", "constrain"}
  /\ Exits(r, "killed")
  /\ UNCHANGED <<script, graphVars, modeVars, flying>>

(* The graph is wiped by hand, MATCH (n) DETACH DELETE n, while no loader   *)
(* runs; neither the storage mode nor the constraint goes with it.         *)
Wipe ==
  /\ LoadedNodes # {}
  /\ \A r \in Runs : flying[r] = {} /\ pc[r] \in {"idle", "raised", "killed"}
  /\ nodes' = [i \in Rows("nodes") |-> 0]
  /\ edges' = [i \in Rows("edges") |-> 0]
  /\ lost' = NoneLost
  /\ UNCHANGED <<script, modeVars, pc, skip, at, flying, failed>>

Next ==
  \/ Wipe
  \/ \E r \in Runs :
       \/ BeginFull(r) \/ BeginPool(r) \/ CountEdges(r) \/ Send(r) \/ Commit(r) \/ Fail(r)
       \/ Refused(r) \/ EndPhase(r) \/ SwitchBack(r) \/ Finish(r) \/ Killed(r)

Spec == Init /\ [][Next]_vars

-----------------------------------------------------------------------------
Copies(phase) == IF phase = "nodes" THEN nodes ELSE edges

\* Row i was refused unseen, or an end of it was: MATCH finds no such node.
Excused(phase, i) ==
  \/ i \in lost[phase]
  \/ phase = "edges" /\ \E e \in lost["nodes"] : e \in {Ends[i][1], Ends[i][2]}

(* A load that finishes has loaded every row once (benchmark_full_load.py, *)
(* lines 12-18: skipping as many rows as there are nodes or edges is safe, *)
(* because rows go in in CSV order and nodes are all there before edges    *)
(* start).  So it must be after any number of kills and failed batches,    *)
(* with two loads at once, however the parts of a pool finish, and after   *)
(* whatever another script left behind.  The one exception is what write   *)
(* queries nobody asks the result of (benchmark_full_load.py, line 76,     *)
(* benchmark_parallel_load.py, line 66) let pass: a row refused unseen, or *)
(* an edge of one, may be missing.  Nothing else is, and LOAD CSV, which   *)
(* consumes its results (benchmark_loadcsv.py, line 93), misses nothing.   *)
LoadedOnce ==
  \A r \in Runs :
    pc[r] = "done" =>
      \A phase \in Phases : \A i \in Rows(phase) :
        \/ Copies(phase)[i] = 1
        \/ Copies(phase)[i] = 0 /\ script[r] # "loadcsv" /\ Excused(phase, i)

(* What makes skipping by a count safe: outside analytical mode the nodes  *)
(* and the edges in the graph are each a prefix of their CSV but for rows  *)
(* excused, so that no row is skipped that was never sent.  A pool that    *)
(* raised did not end so, and leaves the database in analytical mode       *)
(* (benchmark_loadcsv.py, lines 97-106 and 195-196), where the constraint  *)
(* that a full load creates first is refused.                              *)
HolesAreAnalytical ==
  \/ analytical
  \/ \A phase \in Phases : \A i, k \in Rows(phase) :
       k < i /\ Copies(phase)[i] > 0 => Copies(phase)[k] > 0 \/ Excused(phase, k)
=============================================================================
