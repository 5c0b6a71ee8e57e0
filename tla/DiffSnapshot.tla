---------------------------- MODULE DiffSnapshot ----------------------------
(***************************************************************************)
(* diff_snapshot (infra/graph/snapshot_export.py): a sorted merge of the   *)
(* txIds in Memgraph, _stream_memgraph_txids, and of those archived for a  *)
(* snapshot, Neo4jArchiveStore.stream_snapshot_txids.  Both are generators *)
(* that page through their store, one query a page, while the live stream  *)
(* adds nodes and an export may add rows.                                  *)
(*                                                                         *)
(* Only which txIds exist matters here, so a store is a set.  Neither ever *)
(* loses one.                                                              *)
(***************************************************************************)
EXTENDS Integers, FiniteSets

CONSTANTS
  MaxTx,        \* the txIds are 1 .. MaxTx; 0 is None
  ChunkSize,    \* _DIFF_CHUNK_SIZE and _STREAM_CHUNK_SIZE
  SampleLimit   \* sample_limit

ASSUME DiffSnapshotAssumption ==
  /\ MaxTx \in Nat
  /\ ChunkSize \in Nat \ {0}
  /\ SampleLimit \in Nat

TxIds == 1 .. MaxTx

Sides == {"source", "target"}

Other(side) == IF side = "source" THEN "target" ELSE "source"

VARIABLES
  store,    \* the txIds in each store
  first,    \* history: the txIds in each store when the diff began
  pc,       \* "merge", "done", "raised"
  base,     \* the txIds in a store when its current query began
  asking,   \* a query is under way
  chunk,    \* what a generator has fetched and not yielded
  last,     \* last_tx_id of a generator
  short,    \* its last chunk was not a full one
  wanted,   \* next() has been called on the generator and not returned
  cur,      \* s and t
  count,    \* missing_count ("source") and extra_count ("target")
  only,     \* history: the txIds counted
  sample    \* missing_sample and extra_sample

streamVars == <<base, asking, chunk, last, short>>
mergeVars == <<wanted, cur>>
resultVars == <<count, only, sample>>
vars == <<store, first, pc, streamVars, mergeVars, resultVars>>

TypeOK ==
  /\ store \in [Sides -> SUBSET TxIds]
  /\ first \in [Sides -> SUBSET TxIds]
  /\ pc \in {"merge", "done", "raised"}
  /\ base \in [Sides -> SUBSET TxIds]
  /\ asking \in [Sides -> BOOLEAN]
  /\ chunk \in [Sides -> SUBSET TxIds]
  /\ last \in [Sides -> 0 .. MaxTx]
  /\ short \in [Sides -> BOOLEAN]
  /\ wanted \in [Sides -> BOOLEAN]
  /\ cur \in [Sides -> 0 .. MaxTx]
  /\ count \in [Sides -> 0 .. MaxTx]
  /\ only \in [Sides -> SUBSET TxIds]
  /\ sample \in [Sides -> SUBSET TxIds]

Init ==
  /\ store \in [Sides -> SUBSET TxIds]
  /\ first = store
  /\ pc = "merge"
  /\ base = [x \in Sides |-> {}]
  /\ asking = [x \in Sides |-> FALSE]
  /\ chunk = [x \in Sides |-> {}]
  /\ last = [x \in Sides |-> 0]
  /\ short = [x \in Sides |-> FALSE]
  /\ wanted = [x \in Sides |-> TRUE]
  /\ cur = [x \in Sides |-> 0]
  /\ count = [x \in Sides |-> 0]
  /\ only = [x \in Sides |-> {}]
  /\ sample = [x \in Sides |-> {}]

-----------------------------------------------------------------------------
\* The live stream adds a node, or an export a row.
StoreGrows(side, t) ==
  /\ t \notin store[side]
  /\ store' = [store EXCEPT ![side] = @ \cup {t}]
  /\ UNCHANGED <<first, pc, streamVars, mergeVars, resultVars>>

-----------------------------------------------------------------------------
(* The generators.                                                         *)

\* next() is running on this side: s is advanced before t.
Running(side) ==
  /\ pc = "merge"
  /\ wanted[side]
  /\ side = "target" => ~wanted["source"]

\* The chunk is used up: the next page is asked for, in a session of its own.
QueryBegins(side) ==
  /\ Running(side)
  /\ chunk[side] = {}
  /\ ~short[side]
  /\ ~asking[side]
  /\ asking' = [asking EXCEPT ![side] = TRUE]
  /\ base' = [base EXCEPT ![side] = store[side]]
  /\ UNCHANGED <<store, first, pc, chunk, last, short, mergeVars, resultVars>>

\* Mutant: >=, so a page begins with the last txId of the one before.
After_AtLeast(side, S) == {t \in S : t >= last[side]}

\* WHERE txId > $lastTxId ... ORDER BY txId LIMIT $limit
After(side, S) == {t \in S : t > last[side]}
Page(S) == {t \in S : Cardinality({u \in S : u < t}) < ChunkSize}

Largest(S) == CHOOSE t \in S : \A u \in S : u <= t
Smallest(S) == CHOOSE t \in S : \A u \in S : t <= u

\* Mutant: a full page is taken for the last one.
QueryReturns_FullIsLast(side) ==
  /\ asking[side]
  /\ asking' = [asking EXCEPT ![side] = FALSE]
  /\ \E seen \in SUBSET store[side] :
       /\ base[side] \subseteq seen
       /\ LET page == Page(After(side, seen)) IN
            /\ chunk' = [chunk EXCEPT ![side] = page]
            /\ last' = [last EXCEPT ![side] = IF page = {} THEN @ ELSE Largest(page)]
            /\ short' = [short EXCEPT ![side] = Cardinality(page) <= ChunkSize]
  /\ UNCHANGED <<store, first, pc, base, mergeVars, resultVars>>

(* The page: it misses nothing that was there when the query began and may *)
(* or may not have what came later.  A short page is the last one.         *)
QueryReturns(side) ==
  /\ asking[side]
  /\ asking' = [asking EXCEPT ![side] = FALSE]
  /\ \E seen \in SUBSET store[side] :
       /\ base[side] \subseteq seen
       /\ LET page == Page(After(side, seen)) IN
            /\ chunk' = [chunk EXCEPT ![side] = page]
            /\ last' = [last EXCEPT ![side] = IF page = {} THEN @ ELSE Largest(page)]
            /\ short' = [short EXCEPT ![side] = Cardinality(page) < ChunkSize]
  /\ UNCHANGED <<store, first, pc, base, mergeVars, resultVars>>

\* The driver raises out of next(), and diff_snapshot with it.
QueryRaises(side) ==
  /\ asking[side]
  /\ asking' = [asking EXCEPT ![side] = FALSE]
  /\ pc' = "raised"
  /\ UNCHANGED <<store, first, base, chunk, last, short, mergeVars, resultVars>>

\* next() returns the next txId of the chunk.
Yield(side) ==
  /\ Running(side)
  /\ chunk[side] # {}
  /\ cur' = [cur EXCEPT ![side] = Smallest(chunk[side])]
  /\ chunk' = [chunk EXCEPT ![side] = @ \ {Smallest(chunk[side])}]
  /\ wanted' = [wanted EXCEPT ![side] = FALSE]
  /\ UNCHANGED <<store, first, pc, base, asking, last, short, resultVars>>

\* next() returns its default, None.
Exhaust(side) ==
  /\ Running(side)
  /\ chunk[side] = {}
  /\ short[side]
  /\ cur' = [cur EXCEPT ![side] = 0]
  /\ wanted' = [wanted EXCEPT ![side] = FALSE]
  /\ UNCHANGED <<store, first, pc, streamVars, resultVars>>

-----------------------------------------------------------------------------
(* The merge.                                                              *)

Merging == pc = "merge" /\ \A side \in Sides : ~wanted[side]

\* This side's txId is the lower one, or the other side has none left.
Ahead(side) ==
  cur[side] # 0 /\ (cur[Other(side)] = 0 \/ cur[side] < cur[Other(side)])

\* Mutant: the sample has room for one more.
OnlyHere_OneMore(side) ==
  /\ Merging
  /\ Ahead(side)
  /\ count' = [count EXCEPT ![side] = @ + 1]
  /\ only' = [only EXCEPT ![side] = @ \cup {cur[side]}]
  /\ sample' = [sample EXCEPT ![side] =
                  IF Cardinality(@) <= SampleLimit THEN @ \cup {cur[side]} ELSE @]
  /\ wanted' = [wanted EXCEPT ![side] = TRUE]
  /\ UNCHANGED <<store, first, pc, streamVars, cur>>

\* In this store only: counted, and sampled while the sample has room.
OnlyHere(side) ==
  /\ Merging
  /\ Ahead(side)
  /\ count' = [count EXCEPT ![side] = @ + 1]
  /\ only' = [only EXCEPT ![side] = @ \cup {cur[side]}]
  /\ sample' = [sample EXCEPT ![side] =
                  IF Cardinality(@) < SampleLimit THEN @ \cup {cur[side]} ELSE @]
  /\ wanted' = [wanted EXCEPT ![side] = TRUE]
  /\ UNCHANGED <<store, first, pc, streamVars, cur>>

InBoth ==
  /\ Merging
  /\ cur["source"] = cur["target"]
  /\ cur["source"] # 0
  /\ wanted' = [side \in Sides |-> TRUE]
  /\ UNCHANGED <<store, first, pc, streamVars, cur, resultVars>>

Done ==
  /\ Merging
  /\ \A side \in Sides : cur[side] = 0
  /\ pc' = "done"
  /\ UNCHANGED <<store, first, streamVars, mergeVars, resultVars>>

-----------------------------------------------------------------------------
Next ==
  \/ \E side \in Sides :
       \/ \E t \in TxIds : StoreGrows(side, t)
       \/ QueryBegins(side) \/ QueryReturns(side) \/ QueryRaises(side)
       \/ Yield(side) \/ Exhaust(side)
       \/ OnlyHere(side)
  \/ InBoth
  \/ Done

Spec == Init /\ [][Next]_vars

-----------------------------------------------------------------------------
(* A finished diff of moving stores (lines 286-289) reports every txId     *)
(* that was in this store all along and never reached the other, and none  *)
(* that never was here or was in the other all along.                      *)
DiffBounds ==
  pc = "done" =>
    \A side \in Sides :
      /\ first[side] \ store[Other(side)] \subseteq only[side]
      /\ only[side] \subseteq store[side] \ first[Other(side)]

(* The two counts are counts of txIds (lines 303, 308): pages overlap      *)
(* nowhere, so no txId is counted twice, and none on both sides.           *)
CountsAreIds ==
  /\ \A side \in Sides : count[side] = Cardinality(only[side])
  /\ only["source"] \cap only["target"] = {}

(* A sample is the lowest sample_limit of the txIds counted (lines         *)
(* 304-305, 309-310), and all of them when they are no more than that.     *)
SamplesAreLowest ==
  \A side \in Sides :
    /\ sample[side] \subseteq only[side]
    /\ \A t \in sample[side], u \in only[side] \ sample[side] : t < u
    /\ only[side] # sample[side] => Cardinality(sample[side]) = SampleLimit
=============================================================================
