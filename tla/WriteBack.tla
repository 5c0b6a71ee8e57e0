------------------------------ MODULE WriteBack ------------------------------
(***************************************************************************)
(* write_back_snapshot (infra/graph/write_back.py): one call applies the   *)
(* archived rows of a snapshot to Memgraph.  A daemon reader thread        *)
(* streams the rows in txId order, page by page, into a bounded queue; the *)
(* calling thread hands each batch to MemgraphStore.write_back_batch,      *)
(* whose guard is the archiveWrittenAt property, and gives up at a         *)
(* deadline.  There is no checkpoint: a call that failed is made again     *)
(* from the start.                                                         *)
(*                                                                         *)
(* A run is one call.  Calls may overlap, of one snapshot or of several.   *)
(* The live stream writes to Memgraph throughout, and exports write to the *)
(* archive throughout, as ArchivePromise lets them: SnapshotExportRefines  *)
(* shows that they do.                                                     *)
(***************************************************************************)
EXTENDS ArchivePromise, FiniteSets

CONSTANTS
  Runs,        \* calls of write_back_snapshot
  Graphs,      \* bound on Memgraph's graph when the first call begins
  Archives,    \* bound on the archive then
  Exports,     \* bound on the batches exports write meanwhile
  BatchSize,   \* BATCH_SIZE
  ChunkSize,   \* _STREAM_CHUNK_SIZE
  QueueMax,    \* QUEUE_MAXSIZE
  Live         \* bound on the live stream: the txIds it writes

ASSUME WriteBackAssumption ==
  /\ Snaps # {}
  /\ Graphs \subseteq Graph
  /\ \A a \in Archives :
       /\ a.rows \in [Snaps -> [TxIds -> {NoRow} \cup [class : TxClass, at : Instants]]]
       /\ a.owed \in [Snaps -> SUBSET TxIds]
       /\ \A s \in a.declared : s \in Snaps /\ a.owed[s] \subseteq Archived(a.rows[s])
  /\ Exports \subseteq [snap : Snaps, batch : Batches, at : Instants]
  /\ BatchSize \in Nat \ {0}
  /\ ChunkSize \in Nat \ {0}
  /\ QueueMax \in Nat \ {0}
  /\ Live \subseteq TxIds

Sentinel == << >>

VARIABLES
  node,      \* Memgraph's graph
  stamp,     \* archiveWrittenAt of each node, 0 where it is NULL
  by,        \* history: who set the class of a node last
  ever,      \* history: the rows the archive has had
  pc,        \* where the calling thread of a run is
  snap,      \* snapshot_id
  batch,     \* the batch taken off the queue
  base,      \* history: the snapshot's rows when the call began
  whole,     \* history: the snapshot was declared complete then
  rpc,       \* where the reader thread of a run is
  queue,     \* q
  stop,      \* the stop event
  page,      \* chunk: what is fetched and not yet yielded
  last,      \* last_tx_id
  short,     \* the chunk was not a full one
  rbatch,    \* the reader's unfinished batch
  failed     \* the reader's query raised

graphVars == <<node, stamp, by>>
archiveVars == <<promise, ever>>
callVars == <<pc, snap, batch, base, whole>>
readVars == <<rpc, page, last, short, rbatch, failed>>
chanVars == <<queue, stop>>
vars == <<graphVars, archiveVars, callVars, readVars, chanVars>>

Over == {"complete", "deadline", "raised", "crashed"}
CallPcs == {"idle", "loop", "write"} \cup Over
ReadPcs == {"none", "scan", "fetch", "put", "putLast", "putNone", "exited", "killed"}

\* A row as stream_snapshot_rows yields it, exported_at included.
BackRow == [tx : TxIds, class : TxClass, at : Instants]

\* The rows of a snapshot, as such.
BackRows(s) ==
  {[tx |-> t, class |-> rows[s][t].class, at |-> rows[s][t].at] : t \in Archived(rows[s])}

TypeOK ==
  /\ PromiseTypeOK
  /\ node \in Graph
  /\ stamp \in [TxIds -> Instants \cup {0}]
  /\ by \in [TxIds -> {"live", "archive"}]
  /\ ever \subseteq BackRow
  /\ pc \in [Runs -> CallPcs]
  /\ snap \in [Runs -> Snaps]
  /\ batch \in [Runs -> Seq(BackRow)]
  /\ base \in [Runs -> SUBSET BackRow]
  /\ whole \in [Runs -> BOOLEAN]
  /\ rpc \in [Runs -> ReadPcs]
  /\ queue \in [Runs -> Seq(Seq(BackRow))]
  /\ stop \in [Runs -> BOOLEAN]
  /\ page \in [Runs -> Seq(BackRow)]
  /\ last \in [Runs -> 0 .. MaxTx]
  /\ short \in [Runs -> BOOLEAN]
  /\ rbatch \in [Runs -> Seq(BackRow)]
  /\ failed \in [Runs -> BOOLEAN]

Init ==
  /\ \E a \in Archives : rows = a.rows /\ owed = a.owed /\ declared = a.declared
  /\ mark = [s \in Snaps |-> 0]
  /\ begun = Snaps
  /\ node \in Graphs
  /\ stamp = [t \in TxIds |-> 0]
  /\ by = [t \in TxIds |-> "live"]
  /\ ever = UNION {BackRows(s) : s \in Snaps}
  /\ pc = [r \in Runs |-> "idle"]
  /\ snap \in [Runs -> Snaps]
  /\ batch = [r \in Runs |-> << >>]
  /\ base = [r \in Runs |-> {}]
  /\ whole = [r \in Runs |-> FALSE]
  /\ rpc = [r \in Runs |-> "none"]
  /\ queue = [r \in Runs |-> << >>]
  /\ stop = [r \in Runs |-> FALSE]
  /\ page = [r \in Runs |-> << >>]
  /\ last = [r \in Runs |-> 0]
  /\ short = [r \in Runs |-> FALSE]
  /\ rbatch = [r \in Runs |-> << >>]
  /\ failed = [r \in Runs |-> FALSE]

Goto(r, l) == pc' = [pc EXCEPT ![r] = l]
ReaderGoto(r, l) == rpc' = [rpc EXCEPT ![r] = l]

-----------------------------------------------------------------------------
(* The live stream, which knows nothing of archiveWrittenAt.               *)

IngestTransaction(t, c) ==
  /\ node' = UpsertTransaction(node, t, c)
  /\ by' = [by EXCEPT ![t] = "live"]
  /\ UNCHANGED <<stamp, archiveVars, callVars, readVars, chanVars>>

IngestEdge(from, to) ==
  /\ node' = UpsertEdge(node, from, to)
  /\ UNCHANGED <<stamp, by, archiveVars, callVars, readVars, chanVars>>

-----------------------------------------------------------------------------
(* Exports, which change the archive as ArchivePromise says.  Checkpoints  *)
(* are nothing to a write-back.                                            *)

ExportWrites(e) ==
  /\ WriteSnapshot(e.snap, e.batch, e.at)
  /\ ever' = ever \cup UNION {BackRows(s)' : s \in Snaps}
  /\ UNCHANGED <<graphVars, callVars, readVars, chanVars>>

ExportCompletes(s) ==
  /\ Declare(s)
  /\ UNCHANGED <<graphVars, ever, callVars, readVars, chanVars>>

-----------------------------------------------------------------------------
(* The calling thread.                                                     *)

\* The queue and the stop event are made and the reader is started.
Begin(r) ==
  /\ pc[r] = "idle"
  /\ Goto(r, "loop")
  /\ ReaderGoto(r, "fetch")
  /\ base' = [base EXCEPT ![r] = BackRows(snap[r])]
  /\ whole' = [whole EXCEPT ![r] = snap[r] \in declared]
  /\ UNCHANGED <<graphVars, archiveVars, snap, batch, page, last, short, rbatch, failed,
                 chanVars>>

\* The top of the loop finds the deadline gone by.
RaiseDeadline(r) ==
  /\ pc[r] = "loop"
  /\ Goto(r, "deadline")
  /\ stop' = [stop EXCEPT ![r] = TRUE]
  /\ UNCHANGED <<graphVars, archiveVars, snap, batch, base, whole, readVars, queue>>

GetBatch(r) ==
  /\ pc[r] = "loop"
  /\ queue[r] # << >>
  /\ Head(queue[r]) # Sentinel
  /\ Goto(r, "write")
  /\ batch' = [batch EXCEPT ![r] = Head(queue[r])]
  /\ queue' = [queue EXCEPT ![r] = Tail(@)]
  /\ UNCHANGED <<graphVars, archiveVars, snap, base, whole, readVars, stop>>

\* The sentinel: reader.join(timeout=2.0), and a WriteBackResult.
GetNone(r) ==
  /\ pc[r] = "loop"
  /\ queue[r] # << >>
  /\ Head(queue[r]) = Sentinel
  /\ Goto(r, "complete")
  /\ queue' = [queue EXCEPT ![r] = Tail(@)]
  /\ UNCHANGED <<graphVars, archiveVars, snap, batch, base, whole, readVars, stop>>

\* Mutant: every row is applied.
Applies_Always(t, at) == TRUE

\* t.archiveWrittenAt IS NULL OR row.written_at >= t.archiveWrittenAt
Applies(t, at) == stamp[t] = 0 \/ at >= stamp[t]

\* The txIds of a batch whose rows the guard lets through.
Applied(r) == {t \in Txs(batch[r]) :
                 \E i \in 1 .. Len(batch[r]) :
                   batch[r][i].tx = t /\ Applies(t, batch[r][i].at)}

AtIn(b, t) == LET i == CHOOSE j \in 1 .. Len(b) : b[j].tx = t IN b[i].at

\* Mutant: the class is outside the CASE, only the stamp is guarded.
Restored_ClassUnguarded(r) ==
  /\ node' = [t \in TxIds |-> IF t \in Txs(batch[r]) THEN ClassIn(batch[r], t) ELSE node[t]]
  /\ stamp' = [t \in TxIds |-> IF t \in Applied(r) THEN AtIn(batch[r], t) ELSE stamp[t]]
  /\ by' = [t \in TxIds |-> IF t \in Txs(batch[r]) THEN "archive" ELSE by[t]]

(* One UNWIND in one transaction.  MERGE makes the nodes there are none    *)
(* of; SET overwrites class and stamp together where the guard allows.     *)
Restored(r) ==
  /\ node' = [t \in TxIds |-> IF t \in Applied(r) THEN ClassIn(batch[r], t) ELSE node[t]]
  /\ stamp' = [t \in TxIds |-> IF t \in Applied(r) THEN AtIn(batch[r], t) ELSE stamp[t]]
  /\ by' = [t \in TxIds |-> IF t \in Applied(r) THEN "archive" ELSE by[t]]

WriteBackBatch(r) ==
  /\ pc[r] = "write"
  /\ Goto(r, "loop")
  /\ Restored(r)
  /\ batch' = [batch EXCEPT ![r] = << >>]
  /\ UNCHANGED <<archiveVars, snap, base, whole, readVars, chanVars>>

\* The driver raises; the batch may have been committed.
CallRaises(r) ==
  /\ pc[r] = "write"
  /\ Goto(r, "raised")
  /\ Restored(r) \/ UNCHANGED graphVars
  /\ batch' = [batch EXCEPT ![r] = << >>]
  /\ UNCHANGED <<archiveVars, snap, base, whole, readVars, chanVars>>

ProcessDies(r) ==
  /\ \/ pc[r] \notin Over \cup {"idle"}
     \/ pc[r] \in Over /\ rpc[r] \notin {"none", "exited", "killed"}
  /\ Goto(r, IF pc[r] \in Over THEN pc[r] ELSE "crashed")
  /\ ReaderGoto(r, IF rpc[r] \in {"none", "exited"} THEN rpc[r] ELSE "killed")
  /\ batch' = [batch EXCEPT ![r] = << >>]
  /\ rbatch' = [rbatch EXCEPT ![r] = << >>]
  /\ queue' = [queue EXCEPT ![r] = << >>]
  /\ UNCHANGED <<graphVars, archiveVars, snap, base, whole, page, last, short, failed, stop>>

-----------------------------------------------------------------------------
(* The reader thread, and stream_snapshot_rows, which runs in it.          *)

\* Mutant: the query is not limited to the rows of the snapshot.
After_AnyRow(r) == {t \in TxIds : t > last[r]}

\* WHERE t.txId > $lastTxId
After(r) == {t \in Archived(rows[snap[r]]) : t > last[r]}

\* Mutant: a full chunk is taken for the last one.
FetchRow_FullIsLast(r) ==
  /\ rpc[r] = "fetch"
  /\ \E t \in After(r) :
       /\ \A u \in After(r) : t <= u
       /\ last' = [last EXCEPT ![r] = t]
       /\ page' = [page EXCEPT ![r] =
            Append(@, [tx |-> t, class |-> rows[snap[r]][t].class, at |-> rows[snap[r]][t].at])]
  /\ ReaderGoto(r, IF Len(page[r]) + 1 = ChunkSize THEN "scan" ELSE "fetch")
  /\ short' = [short EXCEPT ![r] = Len(page[r]) + 1 = ChunkSize]
  /\ UNCHANGED <<graphVars, archiveVars, callVars, rbatch, failed, chanVars>>

(* A query runs: ORDER BY txId LIMIT walks the index, and an export that   *)
(* commits meanwhile shows in what is still to be read.                    *)
FetchRow(r) ==
  /\ rpc[r] = "fetch"
  /\ \E t \in After(r) :
       /\ \A u \in After(r) : t <= u
       /\ last' = [last EXCEPT ![r] = t]
       /\ page' = [page EXCEPT ![r] =
            Append(@, [tx |-> t, class |-> rows[snap[r]][t].class, at |-> rows[snap[r]][t].at])]
  /\ ReaderGoto(r, IF Len(page[r]) + 1 = ChunkSize THEN "scan" ELSE "fetch")
  /\ UNCHANGED <<graphVars, archiveVars, callVars, short, rbatch, failed, chanVars>>

\* len(chunk) < _STREAM_CHUNK_SIZE: no other query will be made.
FetchEnds(r) ==
  /\ rpc[r] = "fetch"
  /\ After(r) = {}
  /\ ReaderGoto(r, "scan")
  /\ short' = [short EXCEPT ![r] = TRUE]
  /\ UNCHANGED <<graphVars, archiveVars, callVars, page, last, rbatch, failed, chanVars>>

\* for row in archive_store.stream_snapshot_rows(snapshot_id)
ReaderTakes(r) ==
  /\ rpc[r] = "scan"
  /\ page[r] # << >>
  /\ IF stop[r]
     THEN ReaderGoto(r, "putNone") /\ UNCHANGED <<page, rbatch>>
     ELSE /\ rbatch' = [rbatch EXCEPT ![r] = Append(@, Head(page[r]))]
          /\ page' = [page EXCEPT ![r] = Tail(@)]
          /\ ReaderGoto(r, IF Len(rbatch[r]) + 1 >= BatchSize THEN "put" ELSE "scan")
  /\ UNCHANGED <<graphVars, archiveVars, callVars, last, short, failed, chanVars>>

\* The chunk is used up: another query, in a session of its own.
AskForMore(r) ==
  /\ rpc[r] = "scan"
  /\ page[r] = << >>
  /\ ~short[r]
  /\ ReaderGoto(r, "fetch")
  /\ UNCHANGED <<graphVars, archiveVars, callVars, page, last, short, rbatch, failed, chanVars>>

ReaderEnds(r) ==
  /\ rpc[r] = "scan"
  /\ page[r] = << >>
  /\ short[r]
  /\ ReaderGoto(r, IF rbatch[r] # << >> /\ ~stop[r] THEN "putLast" ELSE "putNone")
  /\ UNCHANGED <<graphVars, archiveVars, callVars, page, last, short, rbatch, failed, chanVars>>

ReaderPuts(r) ==
  /\ rpc[r] \in {"put", "putLast"}
  /\ Len(queue[r]) < QueueMax
  /\ queue' = [queue EXCEPT ![r] = Append(@, rbatch[r])]
  /\ rbatch' = [rbatch EXCEPT ![r] = << >>]
  /\ ReaderGoto(r, IF rpc[r] = "put" THEN "scan" ELSE "putNone")
  /\ UNCHANGED <<graphVars, archiveVars, callVars, page, last, short, failed, stop>>

\* The driver raises; the finally block leaves the sentinel all the same.
ReaderRaises(r) ==
  /\ rpc[r] = "fetch"
  /\ ReaderGoto(r, "putNone")
  /\ failed' = [failed EXCEPT ![r] = TRUE]
  /\ UNCHANGED <<graphVars, archiveVars, callVars, page, last, short, rbatch, chanVars>>

ReaderPutsNone(r) ==
  /\ rpc[r] = "putNone"
  /\ Len(queue[r]) < QueueMax
  /\ queue' = [queue EXCEPT ![r] = Append(@, Sentinel)]
  /\ ReaderGoto(r, "exited")
  /\ UNCHANGED <<graphVars, archiveVars, callVars, page, last, short, rbatch, failed, stop>>

-----------------------------------------------------------------------------
CallStep(r) ==
  \/ Begin(r) \/ RaiseDeadline(r) \/ GetBatch(r) \/ GetNone(r)
  \/ WriteBackBatch(r) \/ CallRaises(r)

ReaderStep(r) ==
  \/ FetchRow(r) \/ FetchEnds(r) \/ ReaderTakes(r) \/ AskForMore(r) \/ ReaderEnds(r)
  \/ ReaderPuts(r)
  \/ ReaderRaises(r) \/ ReaderPutsNone(r)

Next ==
  \/ \E t \in Live, c \in TxClass : IngestTransaction(t, c)
  \/ \E from, to \in Live : IngestEdge(from, to)
  \/ \E e \in Exports : ExportWrites(e)
  \/ \E e \in Exports : ExportCompletes(e.snap)
  \/ \E r \in Runs : CallStep(r) \/ ReaderStep(r) \/ ProcessDies(r)

Spec == Init /\ [][Next]_vars

-----------------------------------------------------------------------------
(* The two halves of the guard stay in step (memgraph_client.py, lines     *)
(* 104-111): where the archive set a node's class last, class and          *)
(* archiveWrittenAt are those of one and the same archived row, whichever  *)
(* runs wrote it, in whatever order, and however often.                    *)
ClassHasItsStamp ==
  \A t \in TxIds :
    by[t] = "archive" => [tx |-> t, class |-> node[t], at |-> stamp[t]] \in ever

(* A finished write-back whose reader did not fail has left out no row of  *)
(* those there were when it began (write_back.py, lines 48-58 and 91-99),  *)
(* exports that write the snapshot meanwhile notwithstanding: each is      *)
(* applied, or a newer one was there; and no other run, however late,      *)
(* undoes that (line 85 of memgraph_client.py: a stale or out-of-order     *)
(* write-back changes nothing).                                            *)
RestoreCovers ==
  \A r \in Runs :
    pc[r] = "complete" /\ ~failed[r] =>
      \A row \in base[r] : stamp[row.tx] >= row.at /\ row.tx \in Classed(node)

(* From the hot store to the archive and back: when a snapshot was         *)
(* declared complete before a write-back of it began, a write-back that    *)
(* finishes with a healthy reader leaves in Memgraph, with a class, every  *)
(* node the snapshot owed when it was begun, page breaks and overlapping   *)
(* exports notwithstanding (neo4j_client.py, lines 152-187).               *)
RoundTrip ==
  \A r \in Runs :
    pc[r] = "complete" /\ ~failed[r] /\ whole[r] => owed[snap[r]] \subseteq Classed(node)
=============================================================================
