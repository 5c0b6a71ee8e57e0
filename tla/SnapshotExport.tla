--------------------------- MODULE SnapshotExport ---------------------------
(***************************************************************************)
(* export_snapshot (infra/graph/snapshot_export.py): one call copies the   *)
(* classed Transaction nodes of Memgraph into one snapshot of the archive. *)
(* A daemon reader thread streams nodes in txId order into a bounded       *)
(* queue; the calling thread takes batches off it, writes each one, saves  *)
(* a checkpoint after each write, and gives up at a deadline.              *)
(*                                                                         *)
(* A run is one call, in a process of its own.  Calls may overlap, on the  *)
(* same snapshot too: nothing in the code excludes it.  The live stream    *)
(* writes to Memgraph throughout.  Any store call may raise, with or       *)
(* without having had its effect, and any process may be killed.           *)
(***************************************************************************)
EXTENDS Archive, FiniteSets

CONSTANTS
  Runs,        \* calls of export_snapshot
  BatchSize,   \* BATCH_SIZE
  QueueMax,    \* QUEUE_MAXSIZE
  MaxNow,      \* bound on the wall clock
  Live         \* bound on the live stream: the txIds it writes

ASSUME SnapshotExportAssumption ==
  /\ BatchSize \in Nat \ {0}
  /\ QueueMax \in Nat \ {0}
  /\ MaxNow \in Nat \ {0}
  /\ Live \subseteq TxIds

Times == 1 .. MaxNow

\* snap-{int(time.time() * 1000)}: a snapshot is named after its millisecond.
SnapIds == Times

\* The None a reader leaves on the queue.  A batch put there is never empty.
Sentinel == << >>

VARIABLES
  node,        \* Memgraph's graph
  now,         \* time.time()
  archive,     \* Neo4j: the rows of each snapshot
  checkpoint,  \* Neo4j: SnapshotCheckpoint.lastTxId, 0 where there is none
  pc,          \* where the calling thread of a run is
  snap,        \* snapshot_id
  resumeFrom,  \* resume_from
  counted,     \* the nodes count(t) counted; the code keeps their number
  exportedAt,  \* exported_at
  batch,       \* the batch taken off the queue
  reconciled,  \* SnapshotResult.reconciled
  rpc,         \* where the reader thread of a run is
  queue,       \* q
  stop,        \* the stop event
  view,        \* the graph when the reader's query began
  rcur,        \* the txId of the last record the reader took
  rbatch,      \* the reader's unfinished batch
  failed,      \* the reader's query or its connection raised
  due          \* history: what a snapshot owes, the nodes that were classed
               \* when its first run began

storeVars == <<node, now, archive, checkpoint, due>>
callVars == <<pc, snap, resumeFrom, counted, exportedAt, batch, reconciled>>
readVars == <<rpc, view, rcur, rbatch, failed>>
chanVars == <<queue, stop>>
vars == <<storeVars, callVars, readVars, chanVars>>

Over == {"complete", "deadline", "raised", "crashed"}
CallPcs == {"idle", "count", "spawn", "loop", "write", "save", "clear", "verify"} \cup Over
ReadPcs == {"none", "open", "scan", "put", "putLast", "putNone", "exited", "killed"}

Begun(s) == \E r \in Runs : pc[r] # "idle" /\ snap[r] = s

Goto(r, l) == pc' = [pc EXCEPT ![r] = l]
ReaderGoto(r, l) == rpc' = [rpc EXCEPT ![r] = l]

TypeOK ==
  /\ node \in Graph
  /\ now \in Times
  /\ archive \in [SnapIds -> [TxIds -> [class : TxClass \cup {Absent}, at : 0 .. MaxNow]]]
  /\ checkpoint \in [SnapIds -> 0 .. MaxTx]
  /\ pc \in [Runs -> CallPcs]
  /\ snap \in [Runs -> SnapIds]
  /\ resumeFrom \in [Runs -> 0 .. MaxTx]
  /\ counted \in [Runs -> SUBSET TxIds]
  /\ exportedAt \in [Runs -> Times]
  /\ batch \in [Runs -> Seq(Row)]
  /\ reconciled \in [Runs -> BOOLEAN]
  /\ rpc \in [Runs -> ReadPcs]
  /\ queue \in [Runs -> Seq(Seq(Row))]
  /\ stop \in [Runs -> BOOLEAN]
  /\ view \in [Runs -> Graph]
  /\ rcur \in [Runs -> 0 .. MaxTx]
  /\ rbatch \in [Runs -> Seq(Row)]
  /\ failed \in [Runs -> BOOLEAN]
  /\ due \in [SnapIds -> SUBSET TxIds]

Init ==
  /\ node \in Graph
  /\ now = 1
  /\ archive = [s \in SnapIds |-> [t \in TxIds |-> NoRow]]
  /\ checkpoint = [s \in SnapIds |-> 0]
  /\ pc = [r \in Runs |-> "idle"]
  /\ snap = [r \in Runs |-> 1]
  /\ resumeFrom = [r \in Runs |-> 0]
  /\ counted = [r \in Runs |-> {}]
  /\ exportedAt = [r \in Runs |-> 1]
  /\ batch = [r \in Runs |-> << >>]
  /\ reconciled = [r \in Runs |-> FALSE]
  /\ rpc = [r \in Runs |-> "none"]
  /\ queue = [r \in Runs |-> << >>]
  /\ stop = [r \in Runs |-> FALSE]
  /\ view = [r \in Runs |-> [t \in TxIds |-> Absent]]
  /\ rcur = [r \in Runs |-> 0]
  /\ rbatch = [r \in Runs |-> << >>]
  /\ failed = [r \in Runs |-> FALSE]
  /\ due = [s \in SnapIds |-> {}]

-----------------------------------------------------------------------------
(* The live stream and the clock.                                          *)

IngestTransaction(t, c) ==
  /\ node' = UpsertTransaction(node, t, c)
  /\ UNCHANGED <<now, archive, checkpoint, due, callVars, readVars, chanVars>>

IngestEdge(from, to) ==
  /\ node' = UpsertEdge(node, from, to)
  /\ UNCHANGED <<now, archive, checkpoint, due, callVars, readVars, chanVars>>

Tick ==
  /\ now < MaxNow
  /\ now' = now + 1
  /\ UNCHANGED <<node, archive, checkpoint, due, callVars, readVars, chanVars>>

-----------------------------------------------------------------------------
(* The calling thread.                                                     *)

(* snapshot_id=None: a new snapshot, named after the current millisecond.  *)
(* Two calls in the same millisecond share the name.                       *)
BeginNew(r) ==
  /\ pc[r] = "idle"
  /\ Goto(r, "count")
  /\ snap' = [snap EXCEPT ![r] = now]
  /\ due' = IF Begun(now) THEN due ELSE [due EXCEPT ![now] = Classed(node)]
  /\ UNCHANGED <<node, now, archive, checkpoint, resumeFrom, counted, exportedAt,
                 batch, reconciled, readVars, chanVars>>

(* A snapshot_id a caller can have: an earlier call reported it, in its    *)
(* result or in SnapshotDeadlineExceeded, or the archive shows it.         *)
Known(s) ==
  \/ \E r \in Runs : snap[r] = s /\ pc[r] \in {"complete", "deadline"}
  \/ checkpoint[s] # 0
  \/ Archived(archive[s]) # {}

(* snapshot_id given: resume from the durable checkpoint, or from the      *)
(* start when there is none.                                               *)
BeginResume(r, s) ==
  /\ pc[r] = "idle"
  /\ Known(s)
  /\ Goto(r, "count")
  /\ snap' = [snap EXCEPT ![r] = s]
  /\ resumeFrom' = [resumeFrom EXCEPT ![r] = checkpoint[s]]
  /\ UNCHANGED <<storeVars, counted, exportedAt, batch, reconciled, readVars, chanVars>>

CountSource(r) ==
  /\ pc[r] = "count"
  /\ Goto(r, "spawn")
  /\ counted' = [counted EXCEPT ![r] = Nodes(node)]
  /\ UNCHANGED <<storeVars, snap, resumeFrom, exportedAt, batch, reconciled,
                 readVars, chanVars>>

\* exported_at = time.time(), the queue and the stop event, reader.start().
StartReader(r) ==
  /\ pc[r] = "spawn"
  /\ Goto(r, "loop")
  /\ exportedAt' = [exportedAt EXCEPT ![r] = now]
  /\ ReaderGoto(r, "open")
  /\ UNCHANGED <<storeVars, snap, resumeFrom, counted, batch, reconciled,
                 view, rcur, rbatch, failed, chanVars>>

\* Mutant: q.get() without a timeout.
RaiseDeadline_BlockingGet(r) ==
  /\ pc[r] = "loop"
  /\ queue[r] # << >>
  /\ Goto(r, "deadline")
  /\ stop' = [stop EXCEPT ![r] = TRUE]
  /\ UNCHANGED <<storeVars, snap, resumeFrom, counted, exportedAt, batch, reconciled,
                 readVars, queue>>

(* The top of the loop finds the deadline gone by; at which pass is not    *)
(* the code's choice.  The reader is told to stop and is not waited for.   *)
RaiseDeadline(r) ==
  /\ pc[r] = "loop"
  /\ Goto(r, "deadline")
  /\ stop' = [stop EXCEPT ![r] = TRUE]
  /\ UNCHANGED <<storeVars, snap, resumeFrom, counted, exportedAt, batch, reconciled,
                 readVars, queue>>

(* q.get(timeout=0.1).  On an empty queue the poll comes back to the top   *)
(* of the loop with nothing changed.                                       *)
GetBatch(r) ==
  /\ pc[r] = "loop"
  /\ queue[r] # << >>
  /\ Head(queue[r]) # Sentinel
  /\ Goto(r, "write")
  /\ batch' = [batch EXCEPT ![r] = Head(queue[r])]
  /\ queue' = [queue EXCEPT ![r] = Tail(@)]
  /\ UNCHANGED <<storeVars, snap, resumeFrom, counted, exportedAt, reconciled,
                 readVars, stop>>

GetNone(r) ==
  /\ pc[r] = "loop"
  /\ queue[r] # << >>
  /\ Head(queue[r]) = Sentinel
  /\ Goto(r, "clear")
  /\ queue' = [queue EXCEPT ![r] = Tail(@)]
  /\ UNCHANGED <<storeVars, snap, resumeFrom, counted, exportedAt, batch, reconciled,
                 readVars, stop>>

Written(r) ==
  [archive EXCEPT ![snap[r]] = WriteBatch(@, batch[r], exportedAt[r])]

WriteRows(r) ==
  /\ pc[r] = "write"
  /\ Goto(r, "save")
  /\ archive' = Written(r)
  /\ UNCHANGED <<node, now, checkpoint, due, snap, resumeFrom, counted, exportedAt,
                 batch, reconciled, readVars, chanVars>>

\* Mutants: the checkpoint is one past the batch; it is the reader's cursor.
Saved_OnePast(r) == [checkpoint EXCEPT ![snap[r]] = LastTx(batch[r]) + 1]
Saved_ReadCursor(r) == [checkpoint EXCEPT ![snap[r]] = rcur[r]]

Saved(r) == [checkpoint EXCEPT ![snap[r]] = LastTx(batch[r])]

SaveCheckpoint(r) ==
  /\ pc[r] = "save"
  /\ Goto(r, "loop")
  /\ checkpoint' = Saved(r)
  /\ batch' = [batch EXCEPT ![r] = << >>]
  /\ UNCHANGED <<node, now, archive, due, snap, resumeFrom, counted, exportedAt,
                 reconciled, readVars, chanVars>>

\* After the sentinel: reader.join(timeout=2.0), clear_checkpoint.
ClearCheckpoint(r) ==
  /\ pc[r] = "clear"
  /\ Goto(r, "verify")
  /\ checkpoint' = [checkpoint EXCEPT ![snap[r]] = 0]
  /\ UNCHANGED <<node, now, archive, due, snap, resumeFrom, counted, exportedAt,
                 batch, reconciled, readVars, chanVars>>

\* Mutant: target_count <= source_count.
Finish_AtMost(r) ==
  /\ pc[r] = "verify"
  /\ Goto(r, "complete")
  /\ reconciled' = [reconciled EXCEPT ![r] =
       Cardinality(Archived(archive[snap[r]])) <= Cardinality(counted[r])]
  /\ UNCHANGED <<storeVars, snap, resumeFrom, counted, exportedAt, batch,
                 readVars, chanVars>>

\* count_snapshot against source_count, and complete=True.
Finish(r) ==
  /\ pc[r] = "verify"
  /\ Goto(r, "complete")
  /\ reconciled' = [reconciled EXCEPT ![r] =
       Cardinality(Archived(archive[snap[r]])) = Cardinality(counted[r])]
  /\ UNCHANGED <<storeVars, snap, resumeFrom, counted, exportedAt, batch,
                 readVars, chanVars>>

(* A store call raises out of export_snapshot; its effect may have been    *)
(* committed.  Nobody sets the stop event.                                 *)
CallRaises(r) ==
  /\ pc[r] \in {"count", "write", "save", "clear", "verify"}
  /\ Goto(r, "raised")
  /\ archive' \in {archive} \cup (IF pc[r] = "write" THEN {Written(r)} ELSE {})
  /\ checkpoint' \in {checkpoint} \cup
       (CASE pc[r] = "save"  -> {Saved(r)}
          [] pc[r] = "clear" -> {[checkpoint EXCEPT ![snap[r]] = 0]}
          [] OTHER           -> {})
  /\ UNCHANGED <<node, now, due, snap, resumeFrom, counted, exportedAt, batch,
                 reconciled, readVars, chanVars>>

(* The process is killed, or exits after the call: its threads and all     *)
(* they hold go with it.                                                   *)
ProcessDies(r) ==
  /\ \/ pc[r] \notin Over \cup {"idle"}
     \/ pc[r] \in Over /\ rpc[r] \notin {"none", "exited", "killed"}
  /\ Goto(r, IF pc[r] \in Over THEN pc[r] ELSE "crashed")
  /\ ReaderGoto(r, IF rpc[r] \in {"none", "exited"} THEN rpc[r] ELSE "killed")
  /\ batch' = [batch EXCEPT ![r] = << >>]
  /\ rbatch' = [rbatch EXCEPT ![r] = << >>]
  /\ queue' = [queue EXCEPT ![r] = << >>]
  /\ UNCHANGED <<storeVars, snap, resumeFrom, counted, exportedAt, reconciled,
                 view, rcur, failed, stop>>

-----------------------------------------------------------------------------
(* The reader thread.                                                      *)

ReaderOpens(r) ==
  /\ rpc[r] = "open"
  /\ ReaderGoto(r, "scan")
  /\ view' = [view EXCEPT ![r] = node]
  /\ rcur' = [rcur EXCEPT ![r] = resumeFrom[r]]
  /\ UNCHANGED <<storeVars, callVars, rbatch, failed, chanVars>>

(* The records the stream may yield next.  The query returns nodes after   *)
(* the checkpoint in txId order while writes go on: it misses no node that *)
(* was there when it began, may or may not see a later one, and shows each *)
(* node as it was then or as it is now.                                    *)
NextRecords(r) ==
  {t \in TxIds :
     /\ t > rcur[r]
     /\ t \in Nodes(node)
     /\ \A u \in Nodes(view[r]) : u > rcur[r] => t <= u}

ReaderTakes(r, t) ==
  /\ rpc[r] = "scan"
  /\ t \in NextRecords(r)
  /\ IF stop[r]
     THEN /\ ReaderGoto(r, "putNone")
          /\ UNCHANGED <<rcur, rbatch>>
     ELSE /\ rcur' = [rcur EXCEPT ![r] = t]
          /\ \E c \in {view[r][t], node[t]} \ {Absent} :
               IF c = Null
               THEN /\ ReaderGoto(r, "scan")
                    /\ UNCHANGED rbatch
               ELSE /\ rbatch' = [rbatch EXCEPT ![r] = Append(@, [tx |-> t, class |-> c])]
                    /\ ReaderGoto(r, IF Len(rbatch[r]) + 1 >= BatchSize THEN "put" ELSE "scan")
  /\ UNCHANGED <<storeVars, callVars, view, failed, chanVars>>

\* Mutant: the last, short batch is not put.
ReaderEnds_DropsTail(r) ==
  /\ rpc[r] = "scan"
  /\ \A u \in Nodes(view[r]) : u <= rcur[r]
  /\ ReaderGoto(r, "putNone")
  /\ UNCHANGED <<storeVars, callVars, view, rcur, rbatch, failed, chanVars>>

\* The stream ends: no node of the query's beginning is left.
ReaderEnds(r) ==
  /\ rpc[r] = "scan"
  /\ \A u \in Nodes(view[r]) : u <= rcur[r]
  /\ ReaderGoto(r, IF rbatch[r] # << >> /\ ~stop[r] THEN "putLast" ELSE "putNone")
  /\ UNCHANGED <<storeVars, callVars, view, rcur, rbatch, failed, chanVars>>

\* q.put(batch) blocks while the queue is full.
ReaderPuts(r) ==
  /\ rpc[r] \in {"put", "putLast"}
  /\ Len(queue[r]) < QueueMax
  /\ queue' = [queue EXCEPT ![r] = Append(@, rbatch[r])]
  /\ rbatch' = [rbatch EXCEPT ![r] = << >>]
  /\ ReaderGoto(r, IF rpc[r] = "put" THEN "scan" ELSE "putNone")
  /\ UNCHANGED <<storeVars, callVars, view, rcur, failed, stop>>

\* Mutant: no finally, an exception ends the thread without a sentinel.
ReaderRaises_NoFinally(r) ==
  /\ rpc[r] \in {"open", "scan"}
  /\ ReaderGoto(r, "exited")
  /\ failed' = [failed EXCEPT ![r] = TRUE]
  /\ UNCHANGED <<storeVars, callVars, view, rcur, rbatch, chanVars>>

(* The driver raises: connection lost, transaction timeout.  The finally   *)
(* block runs, so the calling thread sees the sentinel and nothing else.   *)
ReaderRaises(r) ==
  /\ rpc[r] \in {"open", "scan"}
  /\ ReaderGoto(r, "putNone")
  /\ failed' = [failed EXCEPT ![r] = TRUE]
  /\ UNCHANGED <<storeVars, callVars, view, rcur, rbatch, chanVars>>

(* The reader ends without a sentinel: GraphDatabase.driver raises before  *)
(* the try, or driver.close() does in the finally block.                   *)
ReaderDies(r) ==
  /\ rpc[r] \in {"open", "putNone"}
  /\ ReaderGoto(r, "killed")
  /\ UNCHANGED <<storeVars, callVars, view, rcur, rbatch, failed, chanVars>>

\* driver.close(); q.put(None), which blocks like any other put.
ReaderPutsNone(r) ==
  /\ rpc[r] = "putNone"
  /\ Len(queue[r]) < QueueMax
  /\ queue' = [queue EXCEPT ![r] = Append(@, Sentinel)]
  /\ ReaderGoto(r, "exited")
  /\ UNCHANGED <<storeVars, callVars, view, rcur, rbatch, failed, stop>>

-----------------------------------------------------------------------------
CallStep(r) ==
  \/ CountSource(r) \/ StartReader(r) \/ GetBatch(r) \/ GetNone(r)
  \/ WriteRows(r) \/ SaveCheckpoint(r) \/ ClearCheckpoint(r) \/ Finish(r)

ReaderStep(r) ==
  \/ ReaderOpens(r) \/ (\E t \in TxIds : ReaderTakes(r, t)) \/ ReaderEnds(r)
  \/ ReaderPuts(r) \/ ReaderPutsNone(r)

Next ==
  \/ \E t \in Live, c \in TxClass : IngestTransaction(t, c)
  \/ \E from, to \in Live : IngestEdge(from, to)
  \/ Tick
  \/ \E r \in Runs :
       \/ BeginNew(r)
       \/ \E s \in SnapIds : BeginResume(r, s)
       \/ CallStep(r)
       \/ RaiseDeadline(r)
       \/ CallRaises(r)
       \/ ProcessDies(r)
       \/ ReaderStep(r)
       \/ ReaderRaises(r)
       \/ ReaderDies(r)

Spec == Init /\ [][Next]_vars

(* The calling thread runs on: its store calls return or raise.            *)
FairSpec == Spec /\ \A r \in Runs : WF_vars(CallStep(r))

(* A call that stays in its loop outlasts its deadline.                    *)
TimeRunsOut == \A r \in Runs : WF_vars(RaiseDeadline(r))

(* Memgraph answers or raises, and the reader thread runs on.              *)
ReadersRunOn == \A r \in Runs : WF_vars(ReaderStep(r))

HealthySpec == FairSpec /\ ReadersRunOn

-----------------------------------------------------------------------------
(* What a checkpoint is for (export_snapshot, lines 189-191 and 213-215):  *)
(* whatever a resumed run will skip is in the archive already, whichever   *)
(* runs were cut short and wherever, and whichever of them saved it.       *)
CheckpointCovers ==
  \A s \in SnapIds : \A t \in due[s] : t <= checkpoint[s] => t \in Archived(archive[s])

(* What a complete snapshot is (lines 218-234): when a run whose reader    *)
(* did not fail returns complete=True, every node that was classed when    *)
(* the snapshot was begun has a row, the ones earlier runs exported and    *)
(* the reader's last, short batch included.                                *)
CompleteCovers ==
  \A r \in Runs :
    pc[r] = "complete" /\ ~failed[r] => due[snap[r]] \subseteq Archived(archive[snap[r]])

(* Which version of a row a complete run leaves (write_batch's             *)
(* exportedAt guard): every due row past the run's resume point is dated   *)
(* at or after the run's own exported_at, even when an older run of the    *)
(* same snapshot is still writing.                                         *)
CompleteIsFresh ==
  \A r \in Runs :
    pc[r] = "complete" /\ ~failed[r] =>
      \A t \in due[snap[r]] :
        t > resumeFrom[r] => archive[snap[r]][t].at >= exportedAt[r]

(* What reconciled=True proves (line 232): the code compares two counts.   *)
(* If the hot graph has no node the run did not count, a snapshot that     *)
(* reconciles has a row for exactly the nodes that were counted.           *)
ReconciledIsExact ==
  \A r \in Runs :
    /\ pc[r] = "complete"
    /\ reconciled[r]
    /\ Nodes(node) = counted[r]
    => Archived(archive[snap[r]]) = counted[r]

(* An archived row is never lost and never replaced by an older export     *)
(* (write_batch, lines 60-62), whatever the order runs write in.           *)
ArchiveMonotone ==
  [][\A s \in SnapIds, t \in TxIds : archive'[s][t].at >= archive[s][t].at]_vars

(* The deadline works (lines 181-192, 201-208): a call in its loop ends,   *)
(* in a result or an exception, even when the reader never says another    *)
(* word.  Nothing is assumed of Memgraph or of the reader thread.          *)
DeadlineEnds ==
  TimeRunsOut => \A r \in Runs : pc[r] = "loop" ~> pc[r] \in Over

(* The bounded queue never wedges the pair (lines 124-130, 201-210): when  *)
(* Memgraph answers or raises, a call needs no deadline to end, and one    *)
(* that completes leaves no reader behind, unless the reader died without  *)
(* a sentinel: then DeadlineEnds is all there is.                          *)
QueueDrains ==
  ReadersRunOn =>
    \A r \in Runs :
      pc[r] = "loop" ~> \/ pc[r] = "complete" /\ rpc[r] = "exited"
                       \/ pc[r] \in Over \ {"complete"}
                       \/ rpc[r] = "killed"

-----------------------------------------------------------------------------
(* What the documentation says and the code does not do.                   *)

(* "a caller resumes with the SAME snapshot_id until                       *)
(* SnapshotResult.complete is True" (lines 24-25): a complete snapshot     *)
(* needs no more resuming, so nothing due is missing from it.              *)
CompleteMeansComplete ==
  \A r \in Runs :
    pc[r] = "complete" => due[snap[r]] \subseteq Archived(archive[snap[r]])

(* "The reader is a daemon thread; it exits on its own once its call       *)
(* returns or errors" (lines 187-189).                                     *)
AbandonedReaderExits ==
  \A r \in Runs : pc[r] = "deadline" ~> rpc[r] \in {"exited", "killed"}

(* "resuming an already-complete snapshot_id just re-verifies (no-op       *)
(* export, fresh reconciliation)" (lines 145-147): a call that was not     *)
(* under way when a snapshot was complete writes no row of it.  In a later *)
(* millisecond only a resume can name that snapshot.                       *)
ResumeOfCompleteIsNoOp ==
  \A r, q \in Runs :
    [](pc[r] = "complete" /\ ~failed[r] /\ pc[q] = "idle" /\ now > snap[r]
         => [](snap[q] = snap[r] => pc[q] # "write"))
=============================================================================
