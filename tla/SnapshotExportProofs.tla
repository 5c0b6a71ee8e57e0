------------------------ MODULE SnapshotExportProofs ------------------------
(***************************************************************************)
(* SnapshotExport for every number of transactions, runs and ticks, every  *)
(* batch size and every queue: its variables keep their types, checkpoints *)
(* cover, complete runs are complete and fresh, and a reconciled one is    *)
(* exact where no node has come since it counted.                          *)
(***************************************************************************)
EXTENDS SnapshotExportInv, SequenceTheorems, FiniteSetTheorems, TLAPS

USE HotGraphAssumption, SnapshotExportAssumption

-----------------------------------------------------------------------------
(* Batches and archive rows.                                               *)

\* An empty batch names nobody.
LEMMA TxsOfEmpty == Txs(<< >>) = {}
BY DEF Txs

\* A batch names txIds, and its last one is among them.
LEMMA BatchTypes ==
  ASSUME NEW b \in Seq(Row)
  PROVE  /\ Txs(b) \subseteq TxIds
         /\ b # << >> => LastTx(b) \in TxIds
         /\ \A t \in Txs(b) : ClassIn(b, t) \in TxClass
<1>. USE DEF Row
<1>0. \A i \in 1 .. Len(b) : b[i] \in Row
  BY ElementOfSeq
<1>1. Txs(b) \subseteq TxIds
  BY <1>0 DEF Txs
<1>2. ASSUME b # << >> PROVE LastTx(b) \in TxIds
  <2>1. Len(b) \in 1 .. Len(b)
    BY <1>2, EmptySeq
  <2>. QED BY <1>0, <2>1 DEF LastTx
<1>3. ASSUME NEW t \in Txs(b) PROVE ClassIn(b, t) \in TxClass
  <2>1. \E j \in 1 .. Len(b) : b[j].tx = t
    BY DEF Txs
  <2>2. (CHOOSE j \in 1 .. Len(b) : b[j].tx = t) \in 1 .. Len(b)
    BY <2>1
  <2>. QED BY <1>0, <2>2 DEF ClassIn
<1>. QED BY <1>1, <1>2, <1>3

\* Appending a row (_reader_thread, line 122) adds its txId, as the last.
LEMMA BatchAppend ==
  ASSUME NEW b \in Seq(Row), NEW row \in Row
  PROVE  /\ Append(b, row) \in Seq(Row)
         /\ Append(b, row) # << >>
         /\ Txs(Append(b, row)) = Txs(b) \cup {row.tx}
         /\ LastTx(Append(b, row)) = row.tx
<1>1. /\ Append(b, row) \in Seq(Row)
      /\ Append(b, row) # << >>
      /\ Len(Append(b, row)) = Len(b) + 1
      /\ \A i \in 1 .. Len(b) : Append(b, row)[i] = b[i]
      /\ Append(b, row)[Len(b) + 1] = row
  BY AppendProperties
<1>2. Txs(Append(b, row)) = Txs(b) \cup {row.tx}
  BY <1>1 DEF Txs
<1>. QED BY <1>1, <1>2 DEF LastTx

Rows == [TxIds -> [class : TxClass \cup {Absent}, at : 0 .. MaxNow]]

\* write_batch archives the batch's rows and loses none.
LEMMA WriteArchives ==
  ASSUME NEW rows \in Rows, NEW b \in Seq(Row), NEW at \in Times
  PROVE  /\ WriteBatch(rows, b, at) \in Rows
         /\ Archived(WriteBatch(rows, b, at)) = Archived(rows) \cup Txs(b)
         /\ \A t \in TxIds : WriteBatch(rows, b, at)[t].at >= rows[t].at
<1>. DEFINE new == WriteBatch(rows, b, at)
<1>1. ASSUME NEW t \in TxIds
      PROVE  /\ new[t] \in [class : TxClass \cup {Absent}, at : 0 .. MaxNow]
             /\ new[t].at # 0 <=> (rows[t].at # 0 \/ t \in Txs(b))
             /\ new[t].at >= rows[t].at
  <2>1. rows[t] \in [class : TxClass \cup {Absent}, at : 0 .. MaxNow]
    BY DEF Rows
  <2>2. CASE t \in Txs(b)
    <3>1. new[t] = MergeRow(rows[t], ClassIn(b, t), at)
      BY <2>2 DEF WriteBatch
    <3>2. ClassIn(b, t) \in TxClass
      BY <2>2, BatchTypes
    <3>. QED BY <2>1, <2>2, <3>1, <3>2 DEF MergeRow, Times
  <2>3. CASE t \notin Txs(b)
    <3>1. new[t] = rows[t]
      BY <2>3 DEF WriteBatch
    <3>. QED BY <2>1, <2>3, <3>1
  <2>. QED BY <2>2, <2>3
<1>2. new \in Rows
  BY <1>1 DEF Rows, WriteBatch
<1>3. Txs(b) \subseteq TxIds
  BY BatchTypes
<1>. QED BY <1>1, <1>2, <1>3 DEF Archived

-----------------------------------------------------------------------------
(* Type correctness.                                                       *)

LEMMA TypeInit == Init => TypeInv
BY EmptySeq DEF Init, TypeInv, HasBatch, TypeOK, NoRow, Graph, Rows, Times, SnapIds, CallPcs, ReadPcs

\* Type correctness is inductive: one step per action.
LEMMA TypeStep == TypeInv /\ [Next]_vars => TypeOK'
<1>. SUFFICES ASSUME TypeOK, HasBatch, [Next]_vars PROVE TypeOK'
  BY DEF TypeInv
<1>. USE DEF TypeOK, SnapIds, Times
<1>1. ASSUME NEW t \in Live, NEW c \in TxClass, IngestTransaction(t, c) PROVE TypeOK'
  <2>1. node' \in Graph
    BY <1>1 DEF IngestTransaction, UpsertTransaction, Graph
  <2>. QED BY <1>1, <2>1 DEF IngestTransaction, callVars, readVars, chanVars
<1>2. ASSUME NEW from \in Live, NEW to \in Live, IngestEdge(from, to) PROVE TypeOK'
  <2>1. node' \in Graph
    BY <1>2 DEF IngestEdge, UpsertEdge, Graph
  <2>. QED BY <1>2, <2>1 DEF IngestEdge, callVars, readVars, chanVars
<1>3. ASSUME Tick PROVE TypeOK'
  <2>1. now' \in Times
    BY <1>3 DEF Tick
  <2>. QED BY <1>3, <2>1 DEF Tick, callVars, readVars, chanVars
<1>4. ASSUME NEW r \in Runs, BeginNew(r) PROVE TypeOK'
  <2>1. pc' \in [Runs -> CallPcs]
    BY <1>4 DEF BeginNew, Goto, CallPcs, Over
  <2>2. due' \in [SnapIds -> SUBSET TxIds]
    BY <1>4 DEF BeginNew, Classed
  <2>. QED BY <1>4, <2>1, <2>2 DEF BeginNew, readVars, chanVars
<1>5. ASSUME NEW r \in Runs, NEW s \in SnapIds, BeginResume(r, s) PROVE TypeOK'
  <2>1. pc' \in [Runs -> CallPcs]
    BY <1>5 DEF BeginResume, Goto, CallPcs, Over
  <2>. QED BY <1>5, <2>1 DEF BeginResume, storeVars, readVars, chanVars
<1>6. ASSUME NEW r \in Runs, CountSource(r) PROVE TypeOK'
  <2>1. pc' \in [Runs -> CallPcs]
    BY <1>6 DEF CountSource, Goto, CallPcs, Over
  <2>2. counted' \in [Runs -> SUBSET TxIds]
    BY <1>6 DEF CountSource, Nodes
  <2>. QED BY <1>6, <2>1, <2>2 DEF CountSource, storeVars, readVars, chanVars
<1>7. ASSUME NEW r \in Runs, StartReader(r) PROVE TypeOK'
  <2>1. pc' \in [Runs -> CallPcs]
    BY <1>7 DEF StartReader, Goto, CallPcs, Over
  <2>2. rpc' \in [Runs -> ReadPcs]
    BY <1>7 DEF StartReader, ReaderGoto, ReadPcs
  <2>. QED BY <1>7, <2>1, <2>2 DEF StartReader, storeVars, chanVars
<1>8. ASSUME NEW r \in Runs, RaiseDeadline(r) PROVE TypeOK'
  <2>1. pc' \in [Runs -> CallPcs]
    BY <1>8 DEF RaiseDeadline, Goto, CallPcs, Over
  <2>. QED BY <1>8, <2>1 DEF RaiseDeadline, storeVars, readVars
<1>9. ASSUME NEW r \in Runs, GetBatch(r) PROVE TypeOK'
  <2>1. pc' \in [Runs -> CallPcs]
    BY <1>9 DEF GetBatch, Goto, CallPcs, Over
  <2>2. Head(queue[r]) \in Seq(Row) /\ Tail(queue[r]) \in Seq(Seq(Row))
    BY <1>9, HeadTailProperties DEF GetBatch, GetNone
  <2>. QED BY <1>9, <2>1, <2>2 DEF GetBatch, storeVars, readVars
<1>10. ASSUME NEW r \in Runs, GetNone(r) PROVE TypeOK'
  <2>1. pc' \in [Runs -> CallPcs]
    BY <1>10 DEF GetNone, Goto, CallPcs, Over
  <2>2. Head(queue[r]) \in Seq(Row) /\ Tail(queue[r]) \in Seq(Seq(Row))
    BY <1>10, HeadTailProperties DEF GetBatch, GetNone
  <2>. QED BY <1>10, <2>1, <2>2 DEF GetNone, storeVars, readVars
<1>11. ASSUME NEW r \in Runs, WriteRows(r) PROVE TypeOK'
  <2>1. pc' \in [Runs -> CallPcs]
    BY <1>11 DEF WriteRows, Goto, CallPcs, Over
  <2>2. Written(r) \in [SnapIds -> Rows]
    BY WriteArchives DEF Written, Rows
  <2>. QED BY <1>11, <2>1, <2>2 DEF WriteRows, Rows, readVars, chanVars
<1>12. ASSUME NEW r \in Runs, SaveCheckpoint(r) PROVE TypeOK'
  <2>1. pc' \in [Runs -> CallPcs]
    BY <1>12 DEF SaveCheckpoint, Goto, CallPcs, Over
  <2>2. LastTx(batch[r]) \in 0 .. MaxTx
    BY <1>12, BatchTypes DEF SaveCheckpoint, HasBatch, TxIds
  <2>3. checkpoint' \in [SnapIds -> 0 .. MaxTx]
    BY <1>12, <2>2 DEF SaveCheckpoint, Saved
  <2>4. batch' \in [Runs -> Seq(Row)]
    BY <1>12, EmptySeq DEF SaveCheckpoint
  <2>. QED BY <1>12, <2>1, <2>2, <2>3, <2>4 DEF SaveCheckpoint, readVars, chanVars
<1>13. ASSUME NEW r \in Runs, ClearCheckpoint(r) PROVE TypeOK'
  <2>1. pc' \in [Runs -> CallPcs]
    BY <1>13 DEF ClearCheckpoint, Goto, CallPcs, Over
  <2>2. checkpoint' \in [SnapIds -> 0 .. MaxTx]
    BY <1>13 DEF ClearCheckpoint
  <2>. QED BY <1>13, <2>1, <2>2 DEF ClearCheckpoint, readVars, chanVars
<1>14. ASSUME NEW r \in Runs, Finish(r) PROVE TypeOK'
  <2>1. pc' \in [Runs -> CallPcs]
    BY <1>14 DEF Finish, Goto, CallPcs, Over
  <2>2. reconciled' \in [Runs -> BOOLEAN]
    BY <1>14 DEF Finish
  <2>. QED BY <1>14, <2>1, <2>2 DEF Finish, storeVars, readVars, chanVars
<1>15. ASSUME NEW r \in Runs, CallRaises(r) PROVE TypeOK'
  <2>1. pc' \in [Runs -> CallPcs]
    BY <1>15 DEF CallRaises, Goto, CallPcs, Over
  <2>2. Written(r) \in [SnapIds -> Rows]
    BY WriteArchives DEF Written, Rows
  <2>3. pc[r] = "save" => LastTx(batch[r]) \in 0 .. MaxTx
    BY BatchTypes DEF HasBatch, TxIds
  <2>4. archive' \in [SnapIds -> Rows]
    BY <1>15, <2>2 DEF CallRaises, Rows
  <2>5. checkpoint' \in [SnapIds -> 0 .. MaxTx]
    <3>1. CASE checkpoint' = checkpoint
      BY <3>1
    <3>2. CASE pc[r] = "save" /\ checkpoint' = Saved(r)
      BY <2>3, <3>2 DEF Saved
    <3>3. CASE pc[r] = "clear" /\ checkpoint' = [checkpoint EXCEPT ![snap[r]] = 0]
      BY <3>3
    <3>. QED BY <1>15, <3>1, <3>2, <3>3 DEF CallRaises
  <2>. QED BY <1>15, <2>1, <2>2, <2>3, <2>4, <2>5 DEF CallRaises, Rows, readVars, chanVars
<1>16. ASSUME NEW r \in Runs, ProcessDies(r) PROVE TypeOK'
  <2>1. pc' \in [Runs -> CallPcs]
    BY <1>16 DEF ProcessDies, Goto, CallPcs, Over
  <2>2. rpc' \in [Runs -> ReadPcs]
    BY <1>16 DEF ProcessDies, ReaderGoto, ReadPcs
  <2>3. /\ batch' \in [Runs -> Seq(Row)] /\ rbatch' \in [Runs -> Seq(Row)]
       /\ queue' \in [Runs -> Seq(Seq(Row))]
    BY <1>16, EmptySeq DEF ProcessDies
  <2>. QED BY <1>16, <2>1, <2>2, <2>3 DEF ProcessDies, storeVars
<1>17. ASSUME NEW r \in Runs, ReaderOpens(r) PROVE TypeOK'
  <2>1. rpc' \in [Runs -> ReadPcs]
    BY <1>17 DEF ReaderOpens, ReaderGoto, ReadPcs
  <2>. QED BY <1>17, <2>1 DEF ReaderOpens, storeVars, callVars, chanVars
<1>18. ASSUME NEW r \in Runs, NEW t \in TxIds, ReaderTakes(r, t) PROVE TypeOK'
  <2>1. rpc' \in [Runs -> ReadPcs]
    BY <1>18 DEF ReaderTakes, ReaderGoto, ReadPcs
  <2>2. rcur' \in [Runs -> 0 .. MaxTx]
    <3>1. rcur' = rcur \/ rcur' = [rcur EXCEPT ![r] = t]
      BY <1>18 DEF ReaderTakes
    <3>2. t \in 0 .. MaxTx
      BY DEF TxIds
    <3>3. CASE rcur' = rcur
      BY <3>3
    <3>4. CASE rcur' = [rcur EXCEPT ![r] = t]
      BY <3>2, <3>4
    <3>. QED BY <3>1, <3>3, <3>4
  <2>3. rbatch' \in [Runs -> Seq(Row)]
    <3>1. CASE rbatch' = rbatch
      BY <3>1
    <3>2. ASSUME NEW c \in {view[r][t], node[t]} \ {Absent}, c # Null,
                 rbatch' = [rbatch EXCEPT ![r] = Append(@, [tx |-> t, class |-> c])]
          PROVE  rbatch' \in [Runs -> Seq(Row)]
      <4>1. [tx |-> t, class |-> c] \in Row
        BY <3>2 DEF Graph, Row
      <4>. QED BY <3>2, <4>1, BatchAppend
    <3>. QED BY <1>18, <3>1, <3>2 DEF ReaderTakes
  <2>. QED BY <1>18, <2>1, <2>2, <2>3 DEF ReaderTakes, storeVars, callVars, chanVars
<1>19. ASSUME NEW r \in Runs, ReaderEnds(r) PROVE TypeOK'
  <2>1. rpc' \in [Runs -> ReadPcs]
    BY <1>19 DEF ReaderEnds, ReaderGoto, ReadPcs
  <2>. QED BY <1>19, <2>1 DEF ReaderEnds, storeVars, callVars, chanVars
<1>20. ASSUME NEW r \in Runs, ReaderPuts(r) PROVE TypeOK'
  <2>1. rpc' \in [Runs -> ReadPcs]
    BY <1>20 DEF ReaderPuts, ReaderGoto, ReadPcs
  <2>2. queue' \in [Runs -> Seq(Seq(Row))]
    BY <1>20, AppendProperties DEF ReaderPuts
  <2>3. rbatch' \in [Runs -> Seq(Row)]
    BY <1>20, EmptySeq DEF ReaderPuts
  <2>. QED BY <1>20, <2>1, <2>2, <2>3 DEF ReaderPuts, storeVars, callVars
<1>21. ASSUME NEW r \in Runs, ReaderRaises(r) PROVE TypeOK'
  <2>1. rpc' \in [Runs -> ReadPcs]
    BY <1>21 DEF ReaderRaises, ReaderGoto, ReadPcs
  <2>. QED BY <1>21, <2>1 DEF ReaderRaises, storeVars, callVars, chanVars
<1>22. ASSUME NEW r \in Runs, ReaderPutsNone(r) PROVE TypeOK'
  <2>1. rpc' \in [Runs -> ReadPcs]
    BY <1>22 DEF ReaderPutsNone, ReaderGoto, ReadPcs
  <2>2. Sentinel \in Seq(Row)
    BY EmptySeq DEF Sentinel
  <2>3. queue' \in [Runs -> Seq(Seq(Row))]
    BY <1>22, <2>2, AppendProperties DEF ReaderPutsNone
  <2>. QED BY <1>22, <2>1, <2>2, <2>3 DEF ReaderPutsNone, storeVars, callVars
<1>23. ASSUME UNCHANGED vars PROVE TypeOK'
  BY <1>23 DEF vars, storeVars, callVars, readVars, chanVars
<1>24. ASSUME NEW r \in Runs, ReaderDies(r) PROVE TypeOK'
  <2>1. rpc' \in [Runs -> ReadPcs]
    BY <1>24 DEF ReaderDies, ReaderGoto, ReadPcs
  <2>. QED BY <1>24, <2>1 DEF ReaderDies, storeVars, callVars, chanVars
<1>. QED
  BY <1>1, <1>2, <1>3, <1>4, <1>5, <1>6, <1>7, <1>8, <1>9, <1>10, <1>11,
     <1>12, <1>13, <1>14, <1>15, <1>16, <1>17, <1>18, <1>19, <1>20, <1>21,
     <1>22, <1>23, <1>24
  DEF Next, CallStep, ReaderStep

\* A batch is in hand wherever one is written or its checkpoint saved.
LEMMA BatchStep == TypeInv /\ [Next]_vars => HasBatch'
<1>. SUFFICES ASSUME TypeInv, [Next]_vars, NEW q \in Runs, pc'[q] \in {"write", "save"}
              PROVE  batch'[q] # << >>
  BY DEF HasBatch
<1>0. /\ pc \in [Runs -> CallPcs] /\ batch \in [Runs -> Seq(Row)]
      /\ pc[q] \in {"write", "save"} => batch[q] # << >>
  BY DEF TypeInv, TypeOK, HasBatch
<1>. USE DEF Goto, ReaderGoto, Over
<1>1. CASE \E r \in Runs : GetBatch(r)
  BY <1>0, <1>1 DEF GetBatch, Sentinel
<1>2. CASE UNCHANGED <<pc, batch>>
  BY <1>0, <1>2
<1>3. CASE \E r \in Runs : pc' = [pc EXCEPT ![r] = "save"] /\ pc[r] = "write" /\ batch' = batch
  BY <1>0, <1>3
<1>4. CASE \E r \in Runs, l \in CallPcs \ {"write", "save"} :
             /\ pc' = [pc EXCEPT ![r] = l]
             /\ batch' \in {batch, [batch EXCEPT ![r] = << >>]}
  BY <1>0, <1>4
<1>5. ASSUME NEW r \in Runs, CallStep(r) PROVE batch'[q] # << >>
  BY <1>1, <1>3, <1>4, <1>5
  DEF CallStep, CallPcs, CountSource, StartReader, GetNone, WriteRows, SaveCheckpoint,
      ClearCheckpoint, Finish
<1>6. ASSUME NEW r \in Runs, ReaderStep(r) PROVE batch'[q] # << >>
  BY <1>2, <1>6
  DEF ReaderStep, ReaderOpens, ReaderTakes, ReaderEnds, ReaderPuts, ReaderPutsNone, callVars
<1>7. ASSUME NEW r \in Runs, ProcessDies(r) PROVE batch'[q] # << >>
  BY <1>0, <1>7 DEF ProcessDies
<1>. QED
  BY <1>2, <1>4, <1>5, <1>6, <1>7
  DEF Next, CallPcs, vars, callVars, IngestTransaction, IngestEdge, Tick, BeginNew, BeginResume,
      RaiseDeadline, CallRaises, ReaderRaises, ReaderDies

(* Every variable keeps its type: no checkpoint, cursor or row is ever     *)
(* anything but a txId of the graph, and no queue holds anything but       *)
(* batches of rows and sentinels.                                          *)
THEOREM TypeCorrect == Spec => []TypeOK
<1>1. TypeInv => TypeOK
  BY DEF TypeInv
<1>2. TypeInv /\ [Next]_vars => TypeInv'
  BY TypeStep, BatchStep DEF TypeInv
<1>. QED BY <1>1, <1>2, TypeInit, PTL DEF Spec

-----------------------------------------------------------------------------
(* What a step does to the archive and to what is due.                     *)

\* No step of anybody makes a row older or takes one away.
LEMMA ArchiveStep ==
  TypeInv /\ [Next]_vars =>
    \A s \in SnapIds, t \in TxIds : archive'[s][t].at >= archive[s][t].at
<1>. SUFFICES ASSUME TypeInv, [Next]_vars, NEW s \in SnapIds, NEW t \in TxIds
              PROVE  archive'[s][t].at >= archive[s][t].at
  OBVIOUS
<1>0. /\ archive \in [SnapIds -> Rows]
      /\ snap \in [Runs -> SnapIds]
      /\ batch \in [Runs -> Seq(Row)]
      /\ exportedAt \in [Runs -> Times]
  BY DEF TypeInv, TypeOK, Rows
<1>1. archive[s][t].at \in Int
  BY <1>0 DEF Rows
<1>2. CASE archive' = archive
  BY <1>1, <1>2
<1>3. CASE \E r \in Runs : archive' = Written(r)
  <2>1. PICK r \in Runs : archive' = Written(r)
    BY <1>3
  <2>2. CASE s = snap[r]
    <3>1. archive'[s] = WriteBatch(archive[s], batch[r], exportedAt[r])
      BY <1>0, <2>1, <2>2 DEF Written
    <3>. QED BY <1>0, <3>1, WriteArchives
  <2>3. CASE s # snap[r]
    <3>1. archive'[s] = archive[s]
      BY <1>0, <2>1, <2>3 DEF Written
    <3>. QED BY <1>1, <3>1
  <2>. QED BY <2>2, <2>3
<1>4. ASSUME NEW r \in Runs, CallStep(r) PROVE archive'[s][t].at >= archive[s][t].at
  BY <1>2, <1>3, <1>4
  DEF CallStep, CountSource, StartReader, GetBatch, GetNone, WriteRows, SaveCheckpoint,
      ClearCheckpoint, Finish, storeVars
<1>5. ASSUME NEW r \in Runs, ReaderStep(r) PROVE archive'[s][t].at >= archive[s][t].at
  BY <1>2, <1>5
  DEF ReaderStep, ReaderOpens, ReaderTakes, ReaderEnds, ReaderPuts, ReaderPutsNone, storeVars
<1>6. ASSUME NEW r \in Runs, CallRaises(r) PROVE archive'[s][t].at >= archive[s][t].at
  BY <1>2, <1>3, <1>6 DEF CallRaises
<1>. QED
  BY <1>2, <1>4, <1>5, <1>6
  DEF Next, vars, storeVars, IngestTransaction, IngestEdge, Tick, BeginNew, BeginResume,
      RaiseDeadline, ProcessDies, ReaderRaises, ReaderDies

(* An archived row is never lost and never replaced by an older export,    *)
(* however many runs write the snapshot and in whatever order.             *)
THEOREM ArchiveNeverRegresses == Spec => ArchiveMonotone
<1>1. TypeInv /\ [Next]_vars => TypeInv'
  BY TypeStep, BatchStep DEF TypeInv
<1>. QED BY <1>1, TypeInit, ArchiveStep, PTL DEF Spec, ArchiveMonotone

\* A step keeps what is archived.
LEMMA KeptGrows ==
  ASSUME TypeInv, TypeInv', [Next]_vars, NEW s \in SnapIds
  PROVE  Archived(archive[s]) \subseteq Archived(archive'[s])
<1>. SUFFICES ASSUME NEW t \in TxIds, archive[s][t].at # 0 PROVE archive'[s][t].at # 0
  BY DEF Archived
<1>1. archive \in [SnapIds -> Rows] /\ archive' \in [SnapIds -> Rows]
  BY DEF TypeInv, TypeOK, Rows
<1>2. archive[s][t].at \in Nat /\ archive'[s][t].at \in Nat
  BY <1>1 DEF Rows
<1>. QED BY <1>2, ArchiveStep

\* Once a snapshot is begun it stays begun, and what it owes is settled.
LEMMA DueSettled ==
  ASSUME TypeInv, [Next]_vars, NEW s \in SnapIds, Begun(s)
  PROVE  Begun(s)' /\ due'[s] = due[s]
<1>. PICK r \in Runs : pc[r] # "idle" /\ snap[r] = s
  BY DEF Begun
<1>0. /\ pc \in [Runs -> CallPcs] /\ snap \in [Runs -> SnapIds] /\ now \in SnapIds
      /\ due \in [SnapIds -> SUBSET TxIds]
  BY DEF TypeInv, TypeOK, SnapIds
<1>. USE DEF Goto
<1>1. due'[s] = due[s]
  <2>1. CASE due' = due
    BY <2>1
  <2>2. ASSUME NEW q \in Runs, BeginNew(q) PROVE due'[s] = due[s]
    BY <1>0, <2>2 DEF BeginNew
  <2>3. ASSUME NEW q \in Runs, CallStep(q) PROVE due' = due
    BY <2>3
    DEF CallStep, CountSource, StartReader, GetBatch, GetNone, WriteRows, SaveCheckpoint,
        ClearCheckpoint, Finish, storeVars
  <2>4. ASSUME NEW q \in Runs, ReaderStep(q) PROVE due' = due
    BY <2>4
    DEF ReaderStep, ReaderOpens, ReaderTakes, ReaderEnds, ReaderPuts, ReaderPutsNone, storeVars
  <2>. QED
    BY <2>1, <2>2, <2>3, <2>4
    DEF Next, vars, storeVars, IngestTransaction, IngestEdge, Tick, BeginResume,
        RaiseDeadline, CallRaises, ProcessDies, ReaderRaises, ReaderDies
<1>2. pc'[r] # "idle" /\ snap'[r] = s
  <2>1. CASE UNCHANGED <<pc, snap>>
    BY <2>1
  <2>2. ASSUME NEW q \in Runs, NEW l, l # "idle", pc' = [pc EXCEPT ![q] = l], snap' = snap
        PROVE  pc'[r] # "idle" /\ snap'[r] = s
    BY <1>0, <2>2
  <2>3. ASSUME NEW q \in Runs, pc[q] = "idle", Goto(q, "count"),
               \E x \in SnapIds : snap' = [snap EXCEPT ![q] = x]
        PROVE  pc'[r] # "idle" /\ snap'[r] = s
    BY <1>0, <2>3
  <2>4. ASSUME NEW q \in Runs, CallStep(q) PROVE pc'[r] # "idle" /\ snap'[r] = s
    BY <2>2, <2>4
    DEF CallStep, CountSource, StartReader, GetBatch, GetNone, WriteRows,
        SaveCheckpoint, ClearCheckpoint, Finish
  <2>5. ASSUME NEW q \in Runs, ReaderStep(q) PROVE UNCHANGED <<pc, snap>>
    BY <2>5
    DEF ReaderStep, ReaderOpens, ReaderTakes, ReaderEnds, ReaderPuts, ReaderPutsNone, callVars
  <2>6. ASSUME NEW q \in Runs, ProcessDies(q) PROVE pc'[r] # "idle" /\ snap'[r] = s
    BY <1>0, <2>6 DEF ProcessDies, Over
  <2>7. ASSUME NEW q \in Runs, BeginNew(q) \/ \E x \in SnapIds : BeginResume(q, x)
        PROVE  pc'[r] # "idle" /\ snap'[r] = s
    BY <1>0, <2>3, <2>7 DEF BeginNew, BeginResume
  <2>. QED
    BY <2>1, <2>2, <2>4, <2>5, <2>6, <2>7
    DEF Next, vars, callVars, IngestTransaction, IngestEdge, Tick,
        RaiseDeadline, CallRaises, ReaderRaises, ReaderDies
<1>. QED BY <1>1, <1>2 DEF Begun

-----------------------------------------------------------------------------
(* Queues of batches.                                                      *)

\* What it is to be in one of a queue's first batches.
LEMMA InTxsUpTo ==
  ASSUME NEW q, NEW i, NEW x
  PROVE  x \in TxsUpTo(q, i) <=> \E j \in 1 .. i : x \in Txs(q[j])
BY DEF TxsUpTo

\* q.put(b): the new batch is last and adds its txIds.
LEMMA QueuePut ==
  ASSUME NEW q \in Seq(Seq(Row)), NEW b \in Seq(Row)
  PROVE  /\ Len(Append(q, b)) = Len(q) + 1
         /\ Append(q, b)[Len(q) + 1] = b
         /\ \A i \in 1 .. Len(q) :
              Append(q, b)[i] = q[i] /\ TxsUpTo(Append(q, b), i) = TxsUpTo(q, i)
         /\ TxsUpTo(Append(q, b), Len(q) + 1) = AllTxs(q) \cup Txs(b)
         /\ AllTxs(Append(q, b)) = AllTxs(q) \cup Txs(b)
<1>. DEFINE p == Append(q, b)
<1>1. /\ Len(p) = Len(q) + 1
      /\ p[Len(q) + 1] = b
      /\ \A i \in 1 .. Len(q) : p[i] = q[i]
      /\ Len(q) \in Nat
  BY AppendProperties
<1>. HIDE DEF p
<1>2. ASSUME NEW i \in 1 .. Len(q) PROVE TxsUpTo(p, i) = TxsUpTo(q, i)
  <2>1. \A j \in 1 .. i : p[j] = q[j]
    BY <1>1
  <2>. QED BY <2>1 DEF TxsUpTo
<1>3. TxsUpTo(p, Len(q) + 1) = AllTxs(q) \cup Txs(b)
  <2>1. ASSUME NEW x \in TxsUpTo(p, Len(q) + 1) PROVE x \in AllTxs(q) \cup Txs(b)
    <3>1. PICK j \in 1 .. Len(q) + 1 : x \in Txs(p[j])
      BY InTxsUpTo
    <3>2. CASE j = Len(q) + 1
      BY <1>1, <3>1, <3>2
    <3>3. CASE j \in 1 .. Len(q)
      BY <1>1, <3>1, <3>3, InTxsUpTo DEF AllTxs
    <3>. QED BY <1>1, <3>2, <3>3
  <2>2. ASSUME NEW x \in AllTxs(q) PROVE x \in TxsUpTo(p, Len(q) + 1)
    <3>1. PICK j \in 1 .. Len(q) : x \in Txs(q[j])
      BY InTxsUpTo DEF AllTxs
    <3>2. j \in 1 .. Len(q) + 1 /\ x \in Txs(p[j])
      BY <1>1, <3>1
    <3>. QED BY <3>2, InTxsUpTo
  <2>3. ASSUME NEW x \in Txs(b) PROVE x \in TxsUpTo(p, Len(q) + 1)
    <3>1. Len(q) + 1 \in 1 .. Len(q) + 1
      BY <1>1
    <3>. QED BY <1>1, <2>3, <3>1, InTxsUpTo
  <2>. QED BY <2>1, <2>2, <2>3
<1>4. AllTxs(p) = AllTxs(q) \cup Txs(b)
  BY <1>1, <1>3 DEF AllTxs
<1>. QED BY <1>1, <1>2, <1>3, <1>4 DEF p

\* q.get(): the first batch takes its txIds along.
LEMMA QueueGet ==
  ASSUME NEW q \in Seq(Seq(Row)), q # << >>
  PROVE  /\ Len(Tail(q)) = Len(q) - 1
         /\ Len(q) \in Nat \ {0}
         /\ Head(q) = q[1]
         /\ TxsUpTo(q, 1) = Txs(Head(q))
         /\ AllTxs(q) = Txs(Head(q)) \cup AllTxs(Tail(q))
         /\ \A i \in 1 .. Len(Tail(q)) :
              /\ Tail(q)[i] = q[i + 1]
              /\ TxsUpTo(q, i + 1) = Txs(Head(q)) \cup TxsUpTo(Tail(q), i)
<1>. DEFINE p == Tail(q)
<1>1. /\ Len(p) = Len(q) - 1
      /\ Len(q) \in Nat \ {0}
      /\ Head(q) = q[1]
      /\ \A i \in 1 .. Len(p) : p[i] = q[i + 1]
  BY HeadTailProperties, EmptySeq
<1>2. TxsUpTo(q, 1) = Txs(Head(q))
  BY <1>1 DEF TxsUpTo
<1>. HIDE DEF p
<1>3. ASSUME NEW i \in 0 .. Len(p)
      PROVE  TxsUpTo(q, i + 1) = Txs(Head(q)) \cup TxsUpTo(p, i)
  <2>1. \A j \in 1 .. i : p[j] = q[j + 1]
    BY <1>1
  <2>2. \A j \in 1 .. i + 1 : j = 1 \/ (j - 1 \in 1 .. i /\ q[j] = p[j - 1])
    BY <1>1, <2>1
  <2>3. ASSUME NEW x \in TxsUpTo(q, i + 1) PROVE x \in Txs(Head(q)) \cup TxsUpTo(p, i)
    <3>1. PICK j \in 1 .. i + 1 : x \in Txs(q[j])
      BY InTxsUpTo
    <3>2. CASE j = 1
      BY <1>1, <3>1, <3>2
    <3>3. CASE j # 1
      <4>1. j - 1 \in 1 .. i /\ x \in Txs(p[j - 1])
        BY <2>2, <3>1, <3>3
      <4>. QED BY <4>1, InTxsUpTo
    <3>. QED BY <3>2, <3>3
  <2>4. ASSUME NEW x \in TxsUpTo(p, i) PROVE x \in TxsUpTo(q, i + 1)
    <3>1. PICK j \in 1 .. i : x \in Txs(p[j])
      BY DEF TxsUpTo
    <3>2. j + 1 \in 1 .. i + 1 /\ x \in Txs(q[j + 1])
      BY <2>1, <3>1
    <3>. QED BY <3>2 DEF TxsUpTo
  <2>5. Txs(Head(q)) \subseteq TxsUpTo(q, i + 1)
    BY <1>1 DEF TxsUpTo
  <2>. QED BY <2>3, <2>4, <2>5
<1>4. AllTxs(q) = Txs(Head(q)) \cup AllTxs(p)
  <2>1. Len(p) \in 0 .. Len(p) /\ Len(p) + 1 = Len(q)
    BY <1>1
  <2>. QED BY <1>3, <2>1 DEF AllTxs
<1>. QED BY <1>1, <1>2, <1>3, <1>4 DEF p

\* Nothing is in an empty queue.
LEMMA QueueEmpty == AllTxs(<< >>) = {}
BY EmptySeq DEF AllTxs, TxsUpTo

-----------------------------------------------------------------------------
(* A run that does not move.                                               *)

\* What others do to the archive and to the snapshots nobody has begun.
LEMMA RunAtRest ==
  ASSUME TypeInv, TypeInv', [Next]_vars, NEW q \in Runs, RunInv(q), UNCHANGED locals(q)
  PROVE  RunInv(q)'
<1>1. /\ pc'[q] = pc[q] /\ snap'[q] = snap[q] /\ resumeFrom'[q] = resumeFrom[q]
      /\ batch'[q] = batch[q] /\ rpc'[q] = rpc[q] /\ view'[q] = view[q]
      /\ rcur'[q] = rcur[q] /\ rbatch'[q] = rbatch[q] /\ failed'[q] = failed[q]
      /\ queue'[q] = queue[q] /\ stop'[q] = stop[q]
  BY DEF locals
<1>2. Kept(q) \subseteq Kept(q)'
  BY <1>1, KeptGrows DEF Kept, TypeInv, TypeOK
<1>3. Taken(q) \subseteq Taken(q)' /\ Handed(q) \subseteq Handed(q)'
  BY <1>1, <1>2 DEF Taken, Handed
<1>4. CASE pc[q] # "idle"
  <2>1. Due(q)' = Due(q)
    BY <1>1, <1>4, DueSettled DEF Due, Begun, TypeInv, TypeOK
  <2>2. BeforeReader(q)' /\ SentinelIsLast(q)'
    BY <1>1 DEF RunInv, BeforeReader, SentinelIsLast, Sentinel
  <2>3. ResumeIsCovered(q)'
    BY <1>1, <1>2, <2>1 DEF RunInv, ResumeIsCovered
  <2>4. CursorIsCovered(q)'
    BY <1>1, <1>3, <2>1 DEF RunInv, CursorIsCovered
  <2>5. QueueIsCovered(q)'
    BY <1>1, <1>3, <2>1 DEF RunInv, QueueIsCovered, Sentinel
  <2>6. BatchIsCovered(q)'
    BY <1>1, <1>2, <1>3, <2>1 DEF RunInv, BatchIsCovered
  <2>7. EndIsCovered(q)'
    BY <1>1, <1>2, <1>3, <2>1 DEF RunInv, EndIsCovered
  <2>. QED BY <2>2, <2>3, <2>4, <2>5, <2>6, <2>7 DEF RunInv
<1>5. CASE pc[q] = "idle"
  <2>1. /\ rpc[q] = "none" /\ queue[q] = << >> /\ resumeFrom[q] = 0
        /\ batch[q] = << >> /\ rbatch[q] = << >> /\ ~stop[q]
    BY <1>5 DEF RunInv, BeforeReader
  <2>2. Due(q)' \subseteq TxIds
    BY DEF Due, TypeInv, TypeOK
  <2>3. Len(queue'[q]) = 0
    BY <1>1, <2>1
  <2>. QED
    BY <1>1, <1>5, <2>1, <2>2, <2>3
    DEF RunInv, BeforeReader, SentinelIsLast, ResumeIsCovered, CursorIsCovered,
        QueueIsCovered, BatchIsCovered, EndIsCovered, Reading, TxIds
<1>. QED BY <1>4, <1>5

-----------------------------------------------------------------------------
(* A run that moves.                                                       *)

\* A run under way keeps its snapshot, what it owes and what it has kept.
LEMMA Mover ==
  ASSUME TypeInv, TypeInv', [Next]_vars, NEW r \in Runs, pc[r] # "idle", snap'[r] = snap[r]
  PROVE  Due(r)' = Due(r) /\ Kept(r) \subseteq Kept(r)'
<1>1. snap[r] \in SnapIds /\ Begun(snap[r])
  BY DEF Begun, TypeInv, TypeOK
<1>. QED BY <1>1, DueSettled, KeptGrows DEF Due, Kept

\* The calling thread before the reader exists.
LEMMA BeginRun ==
  ASSUME TypeInv, TypeInv', [Next]_vars, CheckpointCovers, NEW r \in Runs, RunInv(r),
         BeginNew(r) \/ \E s \in SnapIds : BeginResume(r, s)
  PROVE  RunInv(r)'
<1>0. /\ pc \in [Runs -> CallPcs] /\ snap \in [Runs -> SnapIds]
      /\ resumeFrom \in [Runs -> 0 .. MaxTx]
  BY DEF TypeInv, TypeOK
<1>1. /\ pc[r] = "idle" /\ pc'[r] = "count"
      /\ UNCHANGED <<batch, rpc, view, rcur, rbatch, failed, queue, stop>>
  BY <1>0 DEF BeginNew, BeginResume, Goto, readVars, chanVars
<1>2. /\ rpc[r] = "none" /\ queue[r] = << >> /\ resumeFrom[r] = 0
      /\ batch[r] = << >> /\ rbatch[r] = << >> /\ ~stop[r]
  BY <1>1 DEF RunInv, BeforeReader
<1>3. Due(r)' \subseteq TxIds
  BY DEF Due, TypeInv, TypeOK
<1>4. ResumeIsCovered(r)'
  <2>1. CASE BeginNew(r)
    BY <1>2, <1>3, <2>1 DEF BeginNew, ResumeIsCovered, TxIds
  <2>2. ASSUME NEW s \in SnapIds, BeginResume(r, s) PROVE ResumeIsCovered(r)'
    <3>1. snap'[r] = s /\ resumeFrom'[r] = checkpoint[s] /\ due' = due /\ archive' = archive
      BY <1>0, <2>2 DEF BeginResume, storeVars
    <3>. QED BY <3>1 DEF ResumeIsCovered, Due, Kept, CheckpointCovers
  <2>. QED BY <2>1, <2>2
<1>5. Len(queue'[r]) = 0
  BY <1>1, <1>2
<1>. QED
  BY <1>1, <1>2, <1>4, <1>5
  DEF RunInv, BeforeReader, SentinelIsLast, CursorIsCovered, QueueIsCovered, BatchIsCovered,
      EndIsCovered, Reading

\* Steps that only move the calling thread on: nothing changes hands.
LEMMA CallMovesOn ==
  ASSUME TypeInv, TypeInv', [Next]_vars, NEW r \in Runs, RunInv(r),
         CountSource(r) \/ StartReader(r) \/ RaiseDeadline(r) \/ ClearCheckpoint(r)
           \/ Finish(r) \/ CallRaises(r)
  PROVE  RunInv(r)'
<1>0. /\ pc \in [Runs -> CallPcs] /\ rpc \in [Runs -> ReadPcs] /\ stop \in [Runs -> BOOLEAN]
  BY DEF TypeInv, TypeOK
<1>1. /\ pc[r] # "idle" /\ pc'[r] # "idle"
      /\ UNCHANGED <<snap, resumeFrom, batch, view, rcur, rbatch, failed, queue>>
  BY <1>0
  DEF CountSource, StartReader, RaiseDeadline, ClearCheckpoint, Finish, CallRaises, Goto,
      readVars, chanVars
<1>2. /\ pc'[r] \in {"count", "spawn"} => pc[r] = "count"
      /\ pc'[r] \in {"verify", "complete"} => pc[r] \in {"clear", "verify"}
      /\ pc'[r] = "loop" => pc[r] = "spawn" /\ rpc'[r] = "open"
      /\ pc'[r] \notin {"write", "save", "clear"}
      /\ pc'[r] # "raised" => pc[r] \notin {"write", "save", "raised"}
  BY <1>0
  DEF CountSource, StartReader, RaiseDeadline, ClearCheckpoint, Finish, CallRaises, Goto,
      ReaderGoto
<1>3. \/ rpc' = rpc
      \/ pc[r] = "spawn" /\ pc'[r] = "loop" /\ rpc'[r] = "open"
  BY <1>0
  DEF CountSource, StartReader, RaiseDeadline, ClearCheckpoint, Finish, CallRaises, Goto,
      ReaderGoto, readVars
<1>4. \/ stop'[r] = stop[r] /\ pc[r] # "deadline"
      \/ pc'[r] = "deadline"
  BY <1>0
  DEF CountSource, StartReader, RaiseDeadline, ClearCheckpoint, Finish, CallRaises, Goto,
      chanVars
<1>5. Due(r)' = Due(r) /\ Kept(r) \subseteq Kept(r)'
  BY <1>1, Mover
<1>6. Taken(r) \subseteq Taken(r)' /\ Handed(r) \subseteq Handed(r)'
  BY <1>1, <1>5 DEF Taken, Handed
<1>7. BeforeReader(r)'
  BY <1>1, <1>2, <1>3, <1>4 DEF RunInv, BeforeReader
<1>8. SentinelIsLast(r)'
  BY <1>1, <1>3 DEF RunInv, BeforeReader, SentinelIsLast, Sentinel
<1>9. ResumeIsCovered(r)'
  BY <1>1, <1>5 DEF RunInv, ResumeIsCovered
<1>10. CursorIsCovered(r)'
  BY <1>1, <1>3, <1>5, <1>6 DEF RunInv, BeforeReader, CursorIsCovered, Reading
<1>11. QueueIsCovered(r)'
  BY <1>1, <1>5, <1>6 DEF RunInv, QueueIsCovered, Sentinel
<1>12. BatchIsCovered(r)'
  BY <1>2 DEF BatchIsCovered
<1>13. EndIsCovered(r)'
  BY <1>1, <1>2, <1>3, <1>5, <1>6 DEF RunInv, BeforeReader, EndIsCovered
<1>. QED
  BY <1>7, <1>8, <1>9, <1>10, <1>11, <1>12, <1>13 DEF RunInv

\* A batch leaves the queue: what was handed over stays handed over.
LEMMA BatchTaken ==
  ASSUME TypeInv, TypeInv', [Next]_vars, NEW r \in Runs, RunInv(r), GetBatch(r)
  PROVE  RunInv(r)'
<1>0. /\ pc \in [Runs -> CallPcs] /\ batch \in [Runs -> Seq(Row)]
      /\ queue \in [Runs -> Seq(Seq(Row))]
  BY DEF TypeInv, TypeOK
<1>1. /\ pc[r] = "loop" /\ pc'[r] = "write"
      /\ queue[r] # << >> /\ Head(queue[r]) # Sentinel
      /\ batch'[r] = Head(queue[r]) /\ queue'[r] = Tail(queue[r])
      /\ UNCHANGED <<snap, resumeFrom, rpc, view, rcur, rbatch, failed, stop>>
  BY <1>0 DEF GetBatch, Goto, readVars
<1>2. batch[r] = << >> /\ ~stop[r]
  BY <1>1 DEF RunInv, BeforeReader
<1>3. Due(r)' = Due(r) /\ Kept(r) \subseteq Kept(r)'
  BY <1>1, Mover
<1>4. /\ Len(queue'[r]) = Len(queue[r]) - 1
      /\ Len(queue[r]) \in Nat \ {0}
      /\ Head(queue[r]) = queue[r][1]
      /\ TxsUpTo(queue[r], 1) = Txs(batch'[r])
      /\ AllTxs(queue[r]) = Txs(batch'[r]) \cup AllTxs(queue'[r])
      /\ \A i \in 1 .. Len(queue'[r]) :
           /\ queue'[r][i] = queue[r][i + 1]
           /\ TxsUpTo(queue[r], i + 1) = Txs(batch'[r]) \cup TxsUpTo(queue'[r], i)
  <2>1. queue[r] \in Seq(Seq(Row))
    BY <1>0
  <2>. QED BY <1>1, <2>1, QueueGet
<1>5. Taken(r) = Kept(r) /\ Handed(r) \subseteq Handed(r)'
  BY <1>2, <1>3, <1>4, TxsOfEmpty DEF Taken, Handed
<1>6. BeforeReader(r)'
  BY <1>1, <1>2 DEF RunInv, BeforeReader
<1>7. SentinelIsLast(r)'
  <2>. SUFFICES ASSUME NEW i \in 1 .. Len(queue'[r]), queue'[r][i] = Sentinel
                PROVE  rpc'[r] = "exited" /\ i = Len(queue'[r])
    BY DEF SentinelIsLast, Sentinel
  <2>1. i + 1 \in 1 .. Len(queue[r]) /\ queue[r][i + 1] = Sentinel
    BY <1>4
  <2>2. rpc[r] = "exited" /\ i + 1 = Len(queue[r])
    BY <2>1 DEF RunInv, SentinelIsLast
  <2>. QED BY <1>1, <1>4, <2>2
<1>8. ResumeIsCovered(r)'
  BY <1>1, <1>3 DEF RunInv, ResumeIsCovered
<1>9. CursorIsCovered(r)'
  BY <1>1, <1>3, <1>5 DEF RunInv, CursorIsCovered
<1>10. QueueIsCovered(r)'
  <2>. SUFFICES ASSUME NEW i \in 1 .. Len(queue'[r]), queue'[r][i] # << >>,
                       NEW t \in Due(r), t <= LastTx(queue'[r][i])
                PROVE  t \in Taken(r)' \cup TxsUpTo(queue'[r], i)
    BY <1>3 DEF QueueIsCovered, Sentinel
  <2>1. i + 1 \in 1 .. Len(queue[r])
    BY <1>4
  <2>2. t \in Taken(r) \cup TxsUpTo(queue[r], i + 1)
    BY <1>4, <2>1 DEF RunInv, QueueIsCovered, Sentinel
  <2>. QED BY <1>3, <1>4, <1>5, <2>2 DEF Taken
<1>11. BatchIsCovered(r)'
  <2>. SUFFICES ASSUME NEW t \in Due(r), t <= LastTx(batch'[r]) PROVE t \in Taken(r)'
    BY <1>1, <1>3 DEF BatchIsCovered
  <2>1. 1 \in 1 .. Len(queue[r]) /\ queue[r][1] # Sentinel /\ batch'[r] = queue[r][1]
    BY <1>1, <1>4
  <2>2. t \in Taken(r) \cup TxsUpTo(queue[r], 1)
    BY <2>1 DEF RunInv, QueueIsCovered
  <2>. QED BY <1>3, <1>4, <1>5, <2>2 DEF Taken
<1>12. EndIsCovered(r)'
  BY <1>1, <1>3, <1>5 DEF RunInv, EndIsCovered
<1>. QED
  BY <1>6, <1>7, <1>8, <1>9, <1>10, <1>11, <1>12 DEF RunInv

\* The sentinel leaves the queue: it was alone in it, and nothing is missing.
LEMMA SentinelTaken ==
  ASSUME TypeInv, TypeInv', [Next]_vars, NEW r \in Runs, RunInv(r), GetNone(r)
  PROVE  RunInv(r)'
<1>0. /\ pc \in [Runs -> CallPcs] /\ batch \in [Runs -> Seq(Row)]
      /\ queue \in [Runs -> Seq(Seq(Row))]
  BY DEF TypeInv, TypeOK
<1>1. /\ pc[r] = "loop" /\ pc'[r] = "clear"
      /\ queue[r] # << >> /\ Head(queue[r]) = Sentinel /\ queue'[r] = Tail(queue[r])
      /\ UNCHANGED <<snap, resumeFrom, batch, rpc, view, rcur, rbatch, failed, stop>>
  BY <1>0 DEF GetNone, Goto, readVars
<1>2. batch[r] = << >> /\ ~stop[r]
  BY <1>1 DEF RunInv, BeforeReader
<1>3. Due(r)' = Due(r) /\ Kept(r) \subseteq Kept(r)'
  BY <1>1, Mover
<1>4. rpc[r] = "exited" /\ Len(queue[r]) = 1
  <2>1. Len(queue[r]) \in Nat \ {0} /\ queue[r][1] = Sentinel
    BY <1>0, <1>1, QueueGet
  <2>2. 1 \in 1 .. Len(queue[r])
    BY <2>1
  <2>. QED BY <2>1, <2>2 DEF RunInv, SentinelIsLast
<1>5. Len(queue'[r]) = 0 /\ AllTxs(queue[r]) = {}
  <2>1. /\ Len(queue'[r]) = Len(queue[r]) - 1
        /\ AllTxs(queue[r]) = Txs(Sentinel) \cup AllTxs(queue'[r])
    BY <1>0, <1>1, QueueGet
  <2>2. queue'[r] = << >>
    BY <1>4, <2>1, EmptySeq DEF TypeInv, TypeOK
  <2>. QED BY <1>4, <2>1, <2>2, QueueEmpty, TxsOfEmpty DEF Sentinel
<1>6. Handed(r) = Kept(r)
  BY <1>2, <1>5, TxsOfEmpty DEF Handed, Taken
<1>7. EndIsCovered(r)'
  BY <1>1, <1>3, <1>4, <1>6 DEF RunInv, EndIsCovered
<1>8. CursorIsCovered(r)'
  BY <1>1, <1>4 DEF RunInv, CursorIsCovered, Reading
<1>. QED
  BY <1>1, <1>2, <1>3, <1>4, <1>5, <1>7, <1>8
  DEF RunInv, BeforeReader, SentinelIsLast, ResumeIsCovered, QueueIsCovered, BatchIsCovered

\* write_batch: the batch in hand is kept.
LEMMA BatchWritten ==
  ASSUME TypeInv, TypeInv', [Next]_vars, NEW r \in Runs, RunInv(r), WriteRows(r)
  PROVE  RunInv(r)'
<1>0. /\ pc \in [Runs -> CallPcs] /\ archive \in [SnapIds -> Rows] /\ snap[r] \in SnapIds
      /\ batch[r] \in Seq(Row) /\ exportedAt[r] \in Times
  BY DEF TypeInv, TypeOK, Rows
<1>1. /\ pc[r] = "write" /\ pc'[r] = "save" /\ archive' = Written(r)
      /\ UNCHANGED <<snap, resumeFrom, batch, rpc, view, rcur, rbatch, failed, queue, stop>>
  BY <1>0 DEF WriteRows, Goto, readVars, chanVars
<1>2. Due(r)' = Due(r) /\ Kept(r) \subseteq Kept(r)'
  BY <1>1, Mover
<1>3. Txs(batch[r]) \subseteq Kept(r)'
  <2>1. archive'[snap'[r]] = WriteBatch(archive[snap[r]], batch[r], exportedAt[r])
    BY <1>0, <1>1 DEF Written
  <2>. QED BY <1>0, <2>1, WriteArchives DEF Kept
<1>4. Taken(r) \subseteq Taken(r)' /\ Handed(r) \subseteq Handed(r)'
  BY <1>1, <1>2 DEF Taken, Handed
<1>5. BeforeReader(r)' /\ SentinelIsLast(r)'
  BY <1>1 DEF RunInv, BeforeReader, SentinelIsLast
<1>6. ResumeIsCovered(r)' /\ CursorIsCovered(r)'
  BY <1>1, <1>2, <1>4 DEF RunInv, ResumeIsCovered, CursorIsCovered
<1>7. QueueIsCovered(r)'
  BY <1>1, <1>2, <1>4 DEF RunInv, QueueIsCovered
<1>8. BatchIsCovered(r)'
  BY <1>1, <1>2, <1>3, <1>4 DEF RunInv, BatchIsCovered
<1>9. EndIsCovered(r)'
  BY <1>1, <1>2, <1>4 DEF RunInv, EndIsCovered
<1>. QED BY <1>5, <1>6, <1>7, <1>8, <1>9 DEF RunInv

\* save_checkpoint: the batch is let go of, kept as it is.
LEMMA BatchSaved ==
  ASSUME TypeInv, TypeInv', [Next]_vars, NEW r \in Runs, RunInv(r), SaveCheckpoint(r)
  PROVE  RunInv(r)'
<1>0. pc \in [Runs -> CallPcs] /\ batch \in [Runs -> Seq(Row)]
  BY DEF TypeInv, TypeOK
<1>1. /\ pc[r] = "save" /\ pc'[r] = "loop" /\ batch'[r] = << >>
      /\ UNCHANGED <<snap, resumeFrom, rpc, view, rcur, rbatch, failed, queue, stop>>
  BY <1>0 DEF SaveCheckpoint, Goto, readVars, chanVars
<1>2. Due(r)' = Due(r) /\ Kept(r) \subseteq Kept(r)'
  BY <1>1, Mover
<1>3. Taken(r) \subseteq Taken(r)' /\ Handed(r) \subseteq Handed(r)'
  BY <1>1, <1>2 DEF RunInv, BatchIsCovered, Taken, Handed
<1>4. BeforeReader(r)' /\ SentinelIsLast(r)'
  BY <1>1 DEF RunInv, BeforeReader, SentinelIsLast
<1>5. ResumeIsCovered(r)' /\ CursorIsCovered(r)'
  BY <1>1, <1>2, <1>3 DEF RunInv, ResumeIsCovered, CursorIsCovered
<1>6. QueueIsCovered(r)'
  BY <1>1, <1>2, <1>3 DEF RunInv, QueueIsCovered
<1>7. BatchIsCovered(r)' /\ EndIsCovered(r)'
  BY <1>1, <1>2, <1>3 DEF RunInv, BatchIsCovered, EndIsCovered
<1>. QED BY <1>4, <1>5, <1>6, <1>7 DEF RunInv

\* A process that is gone holds nothing and claims nothing.
LEMMA RunDies ==
  ASSUME TypeInv, TypeInv', [Next]_vars, NEW r \in Runs, RunInv(r), ProcessDies(r)
  PROVE  RunInv(r)'
<1>0. /\ pc \in [Runs -> CallPcs] /\ rpc \in [Runs -> ReadPcs] /\ batch \in [Runs -> Seq(Row)]
      /\ rbatch \in [Runs -> Seq(Row)] /\ queue \in [Runs -> Seq(Seq(Row))]
  BY DEF TypeInv, TypeOK
<1>1. /\ pc[r] # "idle" /\ pc'[r] \in Over
      /\ pc'[r] \in {"complete", "deadline"} => pc[r] = pc'[r]
      /\ pc[r] = "deadline" => pc'[r] = "deadline"
      /\ rpc'[r] \in {"none", "exited", "killed"}
      /\ batch'[r] = << >> /\ rbatch'[r] = << >> /\ queue'[r] = << >>
      /\ UNCHANGED <<snap, resumeFrom, view, rcur, failed, stop>>
  BY <1>0 DEF ProcessDies, Goto, ReaderGoto, Over
<1>2. Due(r)' = Due(r) /\ Kept(r) \subseteq Kept(r)'
  BY <1>1, Mover
<1>3. Len(queue'[r]) = 0
  BY <1>1
<1>4. BeforeReader(r)'
  BY <1>1 DEF RunInv, BeforeReader, Over
<1>5. EndIsCovered(r)'
  BY <1>1, <1>2 DEF RunInv, EndIsCovered, Over
<1>. QED
  BY <1>1, <1>2, <1>3, <1>4, <1>5
  DEF RunInv, SentinelIsLast, ResumeIsCovered, CursorIsCovered, QueueIsCovered,
      BatchIsCovered, Reading, Over

\* The query opens after the resume point; every due node is in view.
LEMMA QueryOpened ==
  ASSUME TypeInv, TypeInv', [Next]_vars, DueIsClassed, NEW r \in Runs, RunInv(r), ReaderOpens(r)
  PROVE  RunInv(r)'
<1>0. /\ rpc \in [Runs -> ReadPcs] /\ view \in [Runs -> Graph] /\ rcur \in [Runs -> 0 .. MaxTx]
      /\ snap[r] \in SnapIds
  BY DEF TypeInv, TypeOK
<1>1. /\ rpc[r] = "open" /\ rpc'[r] = "scan" /\ view'[r] = node /\ rcur'[r] = resumeFrom[r]
      /\ UNCHANGED <<pc, snap, resumeFrom, batch, rbatch, failed, queue, stop>>
  BY <1>0 DEF ReaderOpens, ReaderGoto, callVars, chanVars
<1>2. pc[r] # "idle" /\ rbatch[r] = << >> /\ pc[r] \notin {"count", "spawn"}
  BY <1>1 DEF RunInv, BeforeReader
<1>3. Due(r)' = Due(r) /\ Kept(r) \subseteq Kept(r)'
  BY <1>1, <1>2, Mover
<1>4. Taken(r) \subseteq Taken(r)' /\ Handed(r) \subseteq Handed(r)' /\ Kept(r)' \subseteq Handed(r)'
  BY <1>1, <1>3 DEF Taken, Handed
<1>5. Due(r)' \subseteq Classed(view'[r])
  BY <1>0, <1>1, <1>3 DEF DueIsClassed, Due
<1>6. CursorIsCovered(r)'
  BY <1>1, <1>2, <1>3, <1>4, <1>5 DEF RunInv, ResumeIsCovered, CursorIsCovered
<1>7. BeforeReader(r)' /\ SentinelIsLast(r)'
  BY <1>1, <1>2 DEF RunInv, BeforeReader, SentinelIsLast
<1>8. ResumeIsCovered(r)' /\ QueueIsCovered(r)'
  BY <1>1, <1>3, <1>4 DEF RunInv, ResumeIsCovered, QueueIsCovered
<1>9. BatchIsCovered(r)' /\ EndIsCovered(r)'
  BY <1>1, <1>3, <1>4 DEF RunInv, BatchIsCovered, EndIsCovered
<1>. QED BY <1>6, <1>7, <1>8, <1>9 DEF RunInv

\* The reader takes a record: between two records lies no due node, and a
\* due node's record is kept.
LEMMA RecordTaken ==
  ASSUME TypeInv, TypeInv', [Next]_vars, DueIsClassed, NEW r \in Runs, RunInv(r),
         NEW t \in TxIds, ReaderTakes(r, t)
  PROVE  RunInv(r)'
<1>0. /\ rpc \in [Runs -> ReadPcs] /\ view \in [Runs -> Graph] /\ rcur \in [Runs -> 0 .. MaxTx]
      /\ rbatch \in [Runs -> Seq(Row)] /\ snap[r] \in SnapIds /\ node \in Graph
      /\ Due(r) \subseteq TxIds
  BY DEF TypeInv, TypeOK, Due
<1>1. /\ rpc[r] = "scan" /\ t \in NextRecords(r)
      /\ UNCHANGED <<archive, pc, snap, resumeFrom, batch, view, failed, queue, stop>>
  BY DEF ReaderTakes, storeVars, callVars, chanVars
<1>2. pc[r] # "idle" /\ pc[r] \notin {"count", "spawn"}
  BY <1>1 DEF RunInv, BeforeReader
<1>3. Due(r)' = Due(r) /\ Kept(r)' = Kept(r)
  BY <1>1, <1>2, Mover DEF Kept
<1>4. Taken(r)' = Taken(r) /\ Handed(r)' = Handed(r)
  BY <1>1, <1>3 DEF Taken, Handed
<1>5. rpc'[r] \in {"scan", "put", "putNone"} /\ (rpc'[r] = "putNone" => stop[r])
  BY <1>0, <1>1 DEF ReaderTakes, ReaderGoto
<1>6. CursorIsCovered(r)'
  <2>1. CASE stop[r]
    <3>1. rpc'[r] = "putNone" /\ rcur' = rcur /\ rbatch' = rbatch
      BY <1>0, <2>1 DEF ReaderTakes, ReaderGoto
    <3>. QED BY <1>1, <3>1 DEF RunInv, CursorIsCovered, Reading
  <2>2. CASE ~stop[r]
    <3>1. rcur'[r] = t
      BY <1>0, <2>2 DEF ReaderTakes
    <3>2. \A u \in Due(r) : u <= t => u <= rcur[r] \/ u = t
      <4>1. Due(r) \subseteq Classed(view[r])
        BY <1>1 DEF RunInv, CursorIsCovered, Reading
      <4>2. \A u \in Due(r) : u \in Nodes(view[r])
        BY <1>0, <4>1, HotGraphAssumption DEF Classed, Nodes
      <4>3. \A u \in Nodes(view[r]) : u > rcur[r] => t <= u
        BY <1>1 DEF NextRecords
      <4>4. rcur[r] \in Int /\ t \in Int /\ \A u \in Due(r) : u \in Int
        BY <1>0 DEF TxIds
      <4>. QED BY <4>2, <4>3, <4>4
    <3>3. PICK c \in {view[r][t], node[t]} \ {Absent} :
            IF c = Null
            THEN ReaderGoto(r, "scan") /\ UNCHANGED rbatch
            ELSE /\ rbatch' = [rbatch EXCEPT ![r] = Append(@, [tx |-> t, class |-> c])]
                 /\ ReaderGoto(r, IF Len(rbatch[r]) + 1 >= BatchSize THEN "put" ELSE "scan")
      BY <2>2 DEF ReaderTakes
    <3>4. CASE c = Null
      <4>1. t \notin Due(r)
        <5>1. t \in Due(r) => t \in Classed(view[r]) /\ t \in Classed(node)
          BY <1>0, <1>1 DEF RunInv, CursorIsCovered, Reading, DueIsClassed, Due
        <5>. QED BY <3>4, <5>1, HotGraphAssumption DEF Classed
      <4>2. rpc'[r] = "scan" /\ rbatch' = rbatch
        BY <1>0, <3>3, <3>4 DEF ReaderGoto
      <4>3. rbatch[r] # << >> => LastTx(rbatch[r]) <= rcur[r]
        BY DEF RunInv, CursorIsCovered
      <4>4. rbatch[r] # << >> => LastTx(rbatch[r]) <= t
        <5>1. rbatch[r] # << >> => LastTx(rbatch[r]) \in TxIds
          BY <1>0, BatchTypes
        <5>2. rcur[r] < t /\ rcur[r] \in Int /\ t \in Int
          BY <1>0, <1>1 DEF NextRecords, TxIds
        <5>. QED BY <4>3, <5>1, <5>2 DEF TxIds
      <4>. QED
        BY <1>1, <1>3, <1>4, <3>1, <3>2, <4>1, <4>2, <4>4 DEF RunInv, CursorIsCovered, Reading
    <3>5. CASE c # Null
      <4>1. [tx |-> t, class |-> c] \in Row
        BY <1>0, <3>5 DEF Graph, Row
      <4>2. rbatch'[r] = Append(rbatch[r], [tx |-> t, class |-> c])
        BY <1>0, <3>3, <3>5
      <4>3. /\ rbatch'[r] # << >>
            /\ Txs(rbatch'[r]) = Txs(rbatch[r]) \cup {t}
            /\ LastTx(rbatch'[r]) = t
        <5>1. rbatch[r] \in Seq(Row) /\ [tx |-> t, class |-> c].tx = t
          BY <1>0
        <5>. QED BY <4>1, <4>2, <5>1, BatchAppend
      <4>4. t <= t
        BY DEF TxIds
      <4>5. rpc'[r] \in {"scan", "put"}
        BY <1>0, <3>3, <3>5 DEF ReaderGoto
      <4>. QED
        BY <1>1, <1>3, <1>4, <3>1, <3>2, <4>3, <4>4, <4>5 DEF RunInv, CursorIsCovered, Reading
    <3>. QED BY <3>4, <3>5
  <2>. QED BY <2>1, <2>2
<1>7. BeforeReader(r)' /\ SentinelIsLast(r)'
  BY <1>1, <1>2, <1>5 DEF RunInv, BeforeReader, SentinelIsLast
<1>8. ResumeIsCovered(r)' /\ QueueIsCovered(r)'
  BY <1>1, <1>3, <1>4 DEF RunInv, ResumeIsCovered, QueueIsCovered
<1>9. BatchIsCovered(r)' /\ EndIsCovered(r)'
  BY <1>1, <1>3, <1>4, <1>5 DEF RunInv, BeforeReader, BatchIsCovered, EndIsCovered
<1>. QED BY <1>6, <1>7, <1>8, <1>9 DEF RunInv

\* The stream ends: every due node has been passed.
LEMMA StreamEnded ==
  ASSUME TypeInv, TypeInv', [Next]_vars, NEW r \in Runs, RunInv(r), ReaderEnds(r)
  PROVE  RunInv(r)'
<1>0. /\ rpc \in [Runs -> ReadPcs] /\ view \in [Runs -> Graph] /\ rcur \in [Runs -> 0 .. MaxTx]
  BY DEF TypeInv, TypeOK
<1>1. /\ rpc[r] = "scan"
      /\ rpc'[r] = IF rbatch[r] # << >> /\ ~stop[r] THEN "putLast" ELSE "putNone"
      /\ UNCHANGED <<archive, pc, snap, resumeFrom, batch, view, rcur, rbatch, failed, queue, stop>>
  BY <1>0 DEF ReaderEnds, ReaderGoto, storeVars, callVars, chanVars
<1>2. pc[r] # "idle" /\ pc[r] \notin {"count", "spawn"}
  BY <1>1 DEF RunInv, BeforeReader
<1>3. Due(r)' = Due(r) /\ Kept(r)' = Kept(r)
  BY <1>1, <1>2, Mover DEF Kept
<1>4. Taken(r)' = Taken(r) /\ Handed(r)' = Handed(r)
  BY <1>1, <1>3 DEF Taken, Handed
<1>5. Due(r) \subseteq Handed(r) \cup Txs(rbatch[r])
  <2>1. \A u \in Due(r) : u \in Nodes(view[r])
    BY <1>1, HotGraphAssumption DEF RunInv, CursorIsCovered, Reading, Classed, Nodes
  <2>2. \A u \in Due(r) : u <= rcur[r]
    BY <2>1 DEF ReaderEnds
  <2>. QED BY <1>1, <2>2 DEF RunInv, CursorIsCovered, Reading
<1>6. rbatch[r] = << >> => Due(r) \subseteq Handed(r)
  BY <1>5, TxsOfEmpty
<1>7. pc[r] \in {"loop", "write", "save"} => ~stop[r]
  BY DEF RunInv, BeforeReader
<1>8. EndIsCovered(r)'
  BY <1>1, <1>3, <1>4, <1>5, <1>6, <1>7 DEF RunInv, EndIsCovered
<1>9. CursorIsCovered(r)'
  BY <1>1, <1>3, <1>4 DEF RunInv, CursorIsCovered, Reading
<1>10. BeforeReader(r)' /\ SentinelIsLast(r)'
  BY <1>1, <1>2 DEF RunInv, BeforeReader, SentinelIsLast
<1>11. ResumeIsCovered(r)' /\ QueueIsCovered(r)' /\ BatchIsCovered(r)'
  BY <1>1, <1>3, <1>4 DEF RunInv, ResumeIsCovered, QueueIsCovered, BatchIsCovered
<1>. QED BY <1>8, <1>9, <1>10, <1>11 DEF RunInv

\* A failure ends the reading and promises nothing.
LEMMA ReadingFailed ==
  ASSUME TypeInv, TypeInv', [Next]_vars, NEW r \in Runs, RunInv(r),
         ReaderRaises(r) \/ ReaderDies(r)
  PROVE  RunInv(r)'
<1>0. rpc \in [Runs -> ReadPcs] /\ failed \in [Runs -> BOOLEAN]
  BY DEF TypeInv, TypeOK
<1>1. /\ rpc[r] \in {"open", "scan", "putNone"}
      /\ \/ rpc'[r] = "putNone" /\ failed'[r]
         \/ rpc'[r] = "killed" /\ failed'[r] = failed[r]
      /\ UNCHANGED <<archive, pc, snap, resumeFrom, batch, view, rcur, rbatch, queue, stop>>
  BY <1>0 DEF ReaderRaises, ReaderDies, ReaderGoto, storeVars, callVars, chanVars
<1>2. pc[r] # "idle" /\ pc[r] \notin {"count", "spawn"}
  BY <1>1 DEF RunInv, BeforeReader
<1>3. Due(r)' = Due(r) /\ Kept(r)' = Kept(r)
  BY <1>1, <1>2, Mover DEF Kept
<1>4. Taken(r)' = Taken(r)
  BY <1>1, <1>3 DEF Taken
<1>5. BeforeReader(r)' /\ SentinelIsLast(r)'
  BY <1>1, <1>2 DEF RunInv, BeforeReader, SentinelIsLast
<1>6. CursorIsCovered(r)' /\ EndIsCovered(r)'
  BY <1>1, <1>3 DEF RunInv, CursorIsCovered, EndIsCovered, Reading
<1>7. ResumeIsCovered(r)' /\ QueueIsCovered(r)' /\ BatchIsCovered(r)'
  BY <1>1, <1>3, <1>4 DEF RunInv, ResumeIsCovered, QueueIsCovered, BatchIsCovered
<1>. QED BY <1>5, <1>6, <1>7 DEF RunInv

\* q.put: the reader's batch joins the queue, of either kind.
LEMMA BatchPut ==
  ASSUME TypeInv, TypeInv', [Next]_vars, NEW r \in Runs, RunInv(r),
         ReaderPuts(r) \/ ReaderPutsNone(r)
  PROVE  RunInv(r)'
<1>0. /\ rpc \in [Runs -> ReadPcs] /\ rbatch \in [Runs -> Seq(Row)]
      /\ queue \in [Runs -> Seq(Seq(Row))] /\ rcur \in [Runs -> 0 .. MaxTx]
      /\ Due(r) \subseteq TxIds
  BY DEF TypeInv, TypeOK, Due
<1>1. UNCHANGED <<archive, pc, snap, resumeFrom, batch, view, rcur, failed, stop>>
  BY DEF ReaderPuts, ReaderPutsNone, storeVars, callVars
<1>2. PICK b \in Seq(Row) :
        /\ queue'[r] = Append(queue[r], b)
        /\ \/ /\ rpc[r] = "put" /\ rpc'[r] = "scan"
              /\ b = rbatch[r] /\ rbatch'[r] = << >>
           \/ /\ rpc[r] = "putLast" /\ rpc'[r] = "putNone"
              /\ b = rbatch[r] /\ rbatch'[r] = << >>
           \/ /\ rpc[r] = "putNone" /\ rpc'[r] = "exited"
              /\ b = << >> /\ rbatch'[r] = rbatch[r]
  <2>1. CASE ReaderPuts(r)
    <3>1. /\ queue'[r] = Append(queue[r], rbatch[r])
          /\ rbatch'[r] = << >>
          /\ \/ rpc[r] = "put" /\ rpc'[r] = "scan"
             \/ rpc[r] = "putLast" /\ rpc'[r] = "putNone"
      BY <1>0, <2>1 DEF ReaderPuts, ReaderGoto
    <3>. QED BY <1>0, <3>1
  <2>2. CASE ReaderPutsNone(r)
    <3>1. /\ queue'[r] = Append(queue[r], << >>)
          /\ rbatch'[r] = rbatch[r]
          /\ rpc[r] = "putNone" /\ rpc'[r] = "exited"
      BY <1>0, <2>2 DEF ReaderPutsNone, ReaderGoto, Sentinel
    <3>. QED BY <3>1, EmptySeq
  <2>. QED BY <2>1, <2>2
<1>3. pc[r] # "idle" /\ pc[r] \notin {"count", "spawn"}
  BY <1>2 DEF RunInv, BeforeReader
<1>4. Due(r)' = Due(r) /\ Kept(r)' = Kept(r)
  BY <1>1, <1>3, Mover DEF Kept
<1>5. Taken(r)' = Taken(r)
  BY <1>1, <1>4 DEF Taken
<1>6. /\ Len(queue[r]) \in Nat
      /\ Len(queue'[r]) = Len(queue[r]) + 1
      /\ queue'[r][Len(queue[r]) + 1] = b
      /\ \A i \in 1 .. Len(queue[r]) :
           queue'[r][i] = queue[r][i] /\ TxsUpTo(queue'[r], i) = TxsUpTo(queue[r], i)
      /\ TxsUpTo(queue'[r], Len(queue[r]) + 1) = AllTxs(queue[r]) \cup Txs(b)
      /\ AllTxs(queue'[r]) = AllTxs(queue[r]) \cup Txs(b)
  <2>1. queue[r] \in Seq(Seq(Row)) /\ queue'[r] = Append(queue[r], b)
    BY <1>0, <1>2
  <2>2. Len(queue[r]) \in Nat
    BY <2>1, LenProperties
  <2>. DEFINE p == Append(queue[r], b)
  <2>3. /\ Len(p) = Len(queue[r]) + 1
        /\ p[Len(queue[r]) + 1] = b
        /\ \A i \in 1 .. Len(queue[r]) :
             p[i] = queue[r][i] /\ TxsUpTo(p, i) = TxsUpTo(queue[r], i)
        /\ TxsUpTo(p, Len(queue[r]) + 1) = AllTxs(queue[r]) \cup Txs(b)
        /\ AllTxs(p) = AllTxs(queue[r]) \cup Txs(b)
    BY <2>1, QueuePut
  <2>4. queue'[r] = p
    BY <2>1
  <2>. HIDE DEF p
  <2>. QED BY <2>2, <2>3, <2>4
<1>7. Handed(r)' = Handed(r) \cup Txs(b)
  BY <1>1, <1>5, <1>6 DEF Handed
<1>8. b # << >> => /\ b = rbatch[r] /\ rpc[r] \in {"put", "putLast"}
                   /\ LastTx(b) <= rcur[r] /\ LastTx(b) \in TxIds
  BY <1>0, <1>2, BatchTypes DEF RunInv, CursorIsCovered
<1>9. rpc[r] \in {"put", "putLast"} => b # << >>
  BY <1>2 DEF RunInv, CursorIsCovered
<1>10. SentinelIsLast(r)'
  <2>. SUFFICES ASSUME NEW i \in 1 .. Len(queue'[r]), queue'[r][i] = << >>
                PROVE  rpc'[r] = "exited" /\ i = Len(queue'[r])
    BY DEF SentinelIsLast, Sentinel
  <2>1. CASE i \in 1 .. Len(queue[r])
    BY <1>2, <1>6, <2>1 DEF RunInv, SentinelIsLast, Sentinel
  <2>2. CASE i = Len(queue[r]) + 1
    BY <1>2, <1>6, <1>9, <2>2
  <2>. QED BY <1>6, <2>1, <2>2
<1>11. QueueIsCovered(r)'
  <2>. SUFFICES ASSUME NEW i \in 1 .. Len(queue'[r]), queue'[r][i] # << >>,
                       NEW u \in Due(r), u <= LastTx(queue'[r][i])
                PROVE  u \in Taken(r) \cup TxsUpTo(queue'[r], i)
    BY <1>4, <1>5 DEF QueueIsCovered, Sentinel
  <2>1. CASE i \in 1 .. Len(queue[r])
    BY <1>6, <2>1 DEF RunInv, QueueIsCovered, Sentinel
  <2>2. CASE i = Len(queue[r]) + 1
    <3>1. u <= rcur[r]
      BY <1>0, <1>6, <1>8, <2>2 DEF TxIds
    <3>2. u \in Handed(r) \cup Txs(b)
      BY <1>6, <1>8, <2>2, <3>1 DEF RunInv, CursorIsCovered, Reading
    <3>. QED BY <1>6, <2>2, <3>2 DEF Handed
  <2>. QED BY <1>6, <2>1, <2>2
<1>12. CursorIsCovered(r)'
  BY <1>1, <1>2, <1>4, <1>7 DEF RunInv, CursorIsCovered, Reading
<1>13. EndIsCovered(r)'
  BY <1>1, <1>2, <1>4, <1>7 DEF RunInv, EndIsCovered
<1>14. BeforeReader(r)'
  BY <1>1, <1>2, <1>3 DEF RunInv, BeforeReader
<1>15. ResumeIsCovered(r)' /\ BatchIsCovered(r)'
  BY <1>1, <1>4, <1>5 DEF RunInv, ResumeIsCovered, BatchIsCovered
<1>. QED BY <1>10, <1>11, <1>12, <1>13, <1>14, <1>15 DEF RunInv

-----------------------------------------------------------------------------
(* The invariant.                                                          *)

\* A step of one run leaves what another holds alone.
LEMMA RunsAreApart ==
  ASSUME TypeInv, NEW r \in Runs, NEW q \in Runs, q # r,
         \/ BeginNew(r) \/ (\E s \in SnapIds : BeginResume(r, s)) \/ CallStep(r)
         \/ RaiseDeadline(r) \/ CallRaises(r) \/ ProcessDies(r) \/ ReaderStep(r)
         \/ ReaderRaises(r) \/ ReaderDies(r)
  PROVE  UNCHANGED locals(q)
<1>0. /\ pc \in [Runs -> CallPcs] /\ snap \in [Runs -> SnapIds]
      /\ resumeFrom \in [Runs -> 0 .. MaxTx] /\ batch \in [Runs -> Seq(Row)]
      /\ rpc \in [Runs -> ReadPcs] /\ view \in [Runs -> Graph] /\ rcur \in [Runs -> 0 .. MaxTx]
      /\ rbatch \in [Runs -> Seq(Row)] /\ failed \in [Runs -> BOOLEAN]
      /\ queue \in [Runs -> Seq(Seq(Row))] /\ stop \in [Runs -> BOOLEAN]
  BY DEF TypeInv, TypeOK
<1>. USE <1>0 DEF locals, Goto, ReaderGoto, callVars, readVars, chanVars
<1>1. CASE BeginNew(r) \/ \E s \in SnapIds : BeginResume(r, s)
  BY <1>1 DEF BeginNew, BeginResume
<1>2. CASE CountSource(r) \/ StartReader(r) \/ GetBatch(r) \/ GetNone(r)
  BY <1>2 DEF CountSource, StartReader, GetBatch, GetNone
<1>3. CASE WriteRows(r) \/ SaveCheckpoint(r) \/ ClearCheckpoint(r) \/ Finish(r)
  BY <1>3 DEF WriteRows, SaveCheckpoint, ClearCheckpoint, Finish
<1>4. CASE RaiseDeadline(r) \/ CallRaises(r)
  BY <1>4 DEF RaiseDeadline, CallRaises
<1>5. CASE ProcessDies(r)
  BY <1>5 DEF ProcessDies
<1>6. CASE ReaderOpens(r) \/ ReaderEnds(r) \/ ReaderRaises(r) \/ ReaderDies(r)
  BY <1>6 DEF ReaderOpens, ReaderEnds, ReaderRaises, ReaderDies
<1>7. ASSUME NEW t \in TxIds, ReaderTakes(r, t) PROVE UNCHANGED locals(q)
  <2>1. rcur'[q] = rcur[q] /\ rbatch'[q] = rbatch[q] /\ rpc'[q] = rpc[q]
    BY <1>7 DEF ReaderTakes
  <2>. QED BY <1>7, <2>1 DEF ReaderTakes
<1>8. CASE ReaderPuts(r) \/ ReaderPutsNone(r)
  BY <1>8 DEF ReaderPuts, ReaderPutsNone
<1>. QED
  BY <1>1, <1>2, <1>3, <1>4, <1>5, <1>6, <1>7, <1>8 DEF CallStep, ReaderStep

\* A checkpoint moves only to the end of a batch that was written, or goes.
LEMMA CheckpointMoves ==
  ASSUME TypeInv, [Next]_vars, NEW s \in SnapIds, checkpoint'[s] # checkpoint[s]
  PROVE  \E r \in Runs :
           /\ snap[r] = s
           /\ \/ pc[r] = "save" /\ checkpoint'[s] = LastTx(batch[r])
              \/ pc[r] = "clear" /\ checkpoint'[s] = 0
<1>0. checkpoint \in [SnapIds -> 0 .. MaxTx] /\ snap \in [Runs -> SnapIds]
  BY DEF TypeInv, TypeOK
<1>1. ASSUME NEW r \in Runs, pc[r] = "save", checkpoint' = Saved(r)
      PROVE  snap[r] = s /\ checkpoint'[s] = LastTx(batch[r])
  BY <1>0, <1>1 DEF Saved
<1>2. ASSUME NEW r \in Runs, pc[r] = "clear", checkpoint' = [checkpoint EXCEPT ![snap[r]] = 0]
      PROVE  snap[r] = s /\ checkpoint'[s] = 0
  BY <1>0, <1>2
<1>3. \E r \in Runs :
        \/ pc[r] = "save" /\ checkpoint' = Saved(r)
        \/ pc[r] = "clear" /\ checkpoint' = [checkpoint EXCEPT ![snap[r]] = 0]
  <2>0. checkpoint' # checkpoint
    OBVIOUS
  <2>1. ASSUME NEW r \in Runs, CallStep(r)
        PROVE  \/ pc[r] = "save" /\ checkpoint' = Saved(r)
               \/ pc[r] = "clear" /\ checkpoint' = [checkpoint EXCEPT ![snap[r]] = 0]
    BY <2>0, <2>1
    DEF CallStep, CountSource, StartReader, GetBatch, GetNone, WriteRows, SaveCheckpoint,
        ClearCheckpoint, Finish, storeVars
  <2>2. ASSUME NEW r \in Runs, CallRaises(r)
        PROVE  \/ pc[r] = "save" /\ checkpoint' = Saved(r)
               \/ pc[r] = "clear" /\ checkpoint' = [checkpoint EXCEPT ![snap[r]] = 0]
    BY <2>0, <2>2 DEF CallRaises
  <2>3. ASSUME NEW r \in Runs, ReaderStep(r) PROVE FALSE
    BY <2>0, <2>3
    DEF ReaderStep, ReaderOpens, ReaderTakes, ReaderEnds, ReaderPuts, ReaderPutsNone, storeVars
  <2>. QED
    BY <2>0, <2>1, <2>2, <2>3
    DEF Next, vars, storeVars, IngestTransaction, IngestEdge, Tick, BeginNew, BeginResume,
        RaiseDeadline, ProcessDies, ReaderRaises, ReaderDies
<1>. QED BY <1>1, <1>2, <1>3

\* The live stream never takes a class away; a new debt is what is classed.
LEMMA DueStep ==
  ASSUME TypeInv, [Next]_vars, DueIsClassed
  PROVE  DueIsClassed'
<1>0. /\ node \in Graph /\ now \in SnapIds /\ due \in [SnapIds -> SUBSET TxIds]
  BY DEF TypeInv, TypeOK, SnapIds
<1>1. CASE UNCHANGED <<node, due>>
  BY <1>1 DEF DueIsClassed, Classed
<1>2. ASSUME NEW r \in Runs, BeginNew(r) PROVE DueIsClassed'
  <2>1. node' = node /\ (due' = due \/ due' = [due EXCEPT ![now] = Classed(node)])
    BY <1>2 DEF BeginNew
  <2>. QED BY <1>0, <2>1 DEF DueIsClassed, Classed
<1>3. ASSUME NEW t \in TxIds, NEW c \in TxClass, IngestTransaction(t, c) PROVE DueIsClassed'
  <2>1. Classed(node) \subseteq Classed(node')
    BY <1>0, <1>3 DEF IngestTransaction, UpsertTransaction, Classed, Graph
  <2>. QED BY <1>3, <2>1 DEF IngestTransaction, DueIsClassed
<1>4. ASSUME NEW from \in TxIds, NEW to \in TxIds, IngestEdge(from, to) PROVE DueIsClassed'
  <2>1. Classed(node) \subseteq Classed(node')
    BY <1>0, <1>4, HotGraphAssumption DEF IngestEdge, UpsertEdge, Classed, Graph
  <2>. QED BY <1>4, <2>1 DEF IngestEdge, DueIsClassed
<1>5. ASSUME NEW r \in Runs, CallStep(r) PROVE UNCHANGED <<node, due>>
  BY <1>5
  DEF CallStep, CountSource, StartReader, GetBatch, GetNone, WriteRows, SaveCheckpoint,
      ClearCheckpoint, Finish, storeVars
<1>6. ASSUME NEW r \in Runs, ReaderStep(r) PROVE UNCHANGED <<node, due>>
  BY <1>6
  DEF ReaderStep, ReaderOpens, ReaderTakes, ReaderEnds, ReaderPuts, ReaderPutsNone, storeVars
<1>7. Live \subseteq TxIds
  BY SnapshotExportAssumption
<1>. QED
  BY <1>1, <1>2, <1>3, <1>4, <1>5, <1>6, <1>7
  DEF Next, vars, storeVars, Tick, BeginResume, RaiseDeadline, CallRaises, ProcessDies,
      ReaderRaises, ReaderDies

LEMMA InvInit == Init => IInv
<1>. SUFFICES ASSUME Init PROVE IInv
  OBVIOUS
<1>1. TypeInv
  BY TypeInit
<1>2. DueIsClassed /\ NoStrayCheckpoint /\ CheckpointCovers
  BY DEF Init, DueIsClassed, NoStrayCheckpoint, CheckpointCovers, SnapIds
<1>3. ASSUME NEW r \in Runs PROVE RunInv(r)
  <2>1. /\ pc[r] = "idle" /\ rpc[r] = "none" /\ resumeFrom[r] = 0 /\ batch[r] = << >>
        /\ rbatch[r] = << >> /\ queue[r] = << >> /\ ~stop[r] /\ Due(r) = {}
    BY SnapshotExportAssumption DEF Init, Due, SnapIds, Times
  <2>2. Len(queue[r]) = 0
    BY <2>1
  <2>. QED
    BY <2>1, <2>2
    DEF RunInv, BeforeReader, SentinelIsLast, ResumeIsCovered, CursorIsCovered,
        QueueIsCovered, BatchIsCovered, EndIsCovered, Reading
<1>. QED BY <1>1, <1>2, <1>3 DEF IInv

\* The invariant is inductive.
LEMMA InvStep == IInv /\ [Next]_vars => IInv'
<1>. SUFFICES ASSUME IInv, [Next]_vars PROVE IInv'
  OBVIOUS
<1>1. TypeInv /\ TypeInv'
  BY TypeStep, BatchStep DEF IInv, TypeInv
<1>2. DueIsClassed'
  BY <1>1, DueStep DEF IInv
<1>3. NoStrayCheckpoint'
  <2>. SUFFICES ASSUME NEW s \in SnapIds, checkpoint'[s] # 0 PROVE Begun(s)'
    BY DEF NoStrayCheckpoint
  <2>1. Begun(s)
    <3>1. CASE checkpoint'[s] = checkpoint[s]
      BY <3>1 DEF IInv, NoStrayCheckpoint
    <3>2. CASE checkpoint'[s] # checkpoint[s]
      BY <1>1, <3>2, CheckpointMoves DEF Begun
    <3>. QED BY <3>1, <3>2
  <2>. QED BY <1>1, <2>1, DueSettled
<1>4. CheckpointCovers'
  <2>. SUFFICES ASSUME NEW s \in SnapIds, NEW t \in due'[s], t <= checkpoint'[s]
                PROVE  t \in Archived(archive'[s])
    BY DEF CheckpointCovers
  <2>0. t \in TxIds
    BY <1>1 DEF TypeInv, TypeOK
  <2>1. Archived(archive[s]) \subseteq Archived(archive'[s])
    BY <1>1, KeptGrows
  <2>2. checkpoint'[s] # 0
    BY <2>0 DEF TxIds
  <2>3. CASE checkpoint'[s] = checkpoint[s]
    <3>1. due'[s] = due[s]
      BY <1>1, <2>2, <2>3, DueSettled DEF IInv, NoStrayCheckpoint
    <3>. QED BY <2>1, <2>3, <3>1 DEF IInv, CheckpointCovers
  <2>4. CASE checkpoint'[s] # checkpoint[s]
    <3>1. PICK r \in Runs : snap[r] = s /\ pc[r] = "save" /\ checkpoint'[s] = LastTx(batch[r])
      BY <1>1, <2>2, <2>4, CheckpointMoves
    <3>2. due'[s] = due[s]
      BY <1>1, <3>1, DueSettled DEF Begun
    <3>3. t \in Taken(r) /\ Txs(batch[r]) \subseteq Kept(r)
      BY <3>1, <3>2 DEF IInv, RunInv, BatchIsCovered, Due
    <3>. QED BY <2>1, <3>1, <3>3 DEF Taken, Kept
  <2>. QED BY <2>3, <2>4
<1>5. ASSUME NEW q \in Runs PROVE RunInv(q)'
  <2>0. RunInv(q) /\ DueIsClassed /\ CheckpointCovers
    BY DEF IInv
  <2>1. CASE UNCHANGED locals(q)
    BY <1>1, <2>0, <2>1, RunAtRest
  <2>2. ASSUME NEW r \in Runs,
               \/ BeginNew(r) \/ (\E s \in SnapIds : BeginResume(r, s)) \/ CallStep(r)
               \/ RaiseDeadline(r) \/ CallRaises(r) \/ ProcessDies(r) \/ ReaderStep(r)
               \/ ReaderRaises(r) \/ ReaderDies(r)
        PROVE  RunInv(q)'
    <3>1. CASE q # r
      BY <1>1, <2>1, <2>2, <3>1, RunsAreApart
    <3>2. CASE q = r
      <4>1. CASE BeginNew(q) \/ \E s \in SnapIds : BeginResume(q, s)
        BY <1>1, <2>0, <4>1, BeginRun
      <4>2. CASE CountSource(q) \/ StartReader(q) \/ RaiseDeadline(q) \/ ClearCheckpoint(q)
                   \/ Finish(q) \/ CallRaises(q)
        BY <1>1, <2>0, <4>2, CallMovesOn
      <4>3. CASE GetBatch(q) \/ GetNone(q)
        BY <1>1, <2>0, <4>3, BatchTaken, SentinelTaken
      <4>4. CASE WriteRows(q) \/ SaveCheckpoint(q) \/ ProcessDies(q)
        BY <1>1, <2>0, <4>4, BatchWritten, BatchSaved, RunDies
      <4>5. CASE ReaderOpens(q) \/ \E t \in TxIds : ReaderTakes(q, t)
        BY <1>1, <2>0, <4>5, QueryOpened, RecordTaken
      <4>6. CASE ReaderEnds(q) \/ ReaderRaises(q) \/ ReaderDies(q)
        BY <1>1, <2>0, <4>6, StreamEnded, ReadingFailed
      <4>7. CASE ReaderPuts(q) \/ ReaderPutsNone(q)
        BY <1>1, <2>0, <4>7, BatchPut
      <4>. QED
        BY <2>2, <3>2, <4>1, <4>2, <4>3, <4>4, <4>5, <4>6, <4>7 DEF CallStep, ReaderStep
    <3>. QED BY <3>1, <3>2
  <2>3. CASE UNCHANGED <<callVars, readVars, chanVars>>
    BY <2>1, <2>3 DEF locals, callVars, readVars, chanVars
  <2>. QED
    BY <2>2, <2>3 DEF Next, vars, IngestTransaction, IngestEdge, Tick
<1>. QED BY <1>1, <1>2, <1>3, <1>4, <1>5 DEF IInv

\* The invariant holds throughout.
THEOREM Invariant == Spec => []IInv
BY InvInit, InvStep, PTL DEF Spec

(* Whatever a resumed run skips is archived: crashes, deadlines, failing   *)
(* store calls and overlapping runs notwithstanding.                       *)
THEOREM CheckpointsCover == Spec => []CheckpointCovers
<1>1. IInv => CheckpointCovers
  BY DEF IInv
<1>. QED BY <1>1, Invariant, PTL

(* A run that completes with a healthy reader leaves a row for every node  *)
(* that was classed when its snapshot was begun.                           *)
THEOREM CompleteRunsCover == Spec => []CompleteCovers
<1>1. IInv => CompleteCovers
  BY DEF IInv, RunInv, EndIsCovered, CompleteCovers, Due, Kept
<1>. QED BY <1>1, Invariant, PTL

-----------------------------------------------------------------------------
(* Fresh rows.                                                             *)

\* Rows only become fresher: no export replaces a newer one.
LEMMA FreshGrows ==
  ASSUME TypeInv, TypeInv', [Next]_vars, NEW r \in Runs,
         snap'[r] = snap[r], resumeFrom'[r] = resumeFrom[r], exportedAt'[r] = exportedAt[r]
  PROVE  Fresh(r) \subseteq Fresh(r)'
<1>. SUFFICES ASSUME NEW t \in TxIds, archive[snap[r]][t].at >= exportedAt[r]
              PROVE  archive'[snap[r]][t].at >= exportedAt[r]
  BY DEF Fresh
<1>1. /\ snap[r] \in SnapIds /\ exportedAt[r] \in Int
      /\ archive \in [SnapIds -> Rows] /\ archive' \in [SnapIds -> Rows]
  BY DEF TypeInv, TypeOK, Rows, Times
<1>2. archive[snap[r]][t].at \in Int /\ archive'[snap[r]][t].at \in Int
  BY <1>1 DEF Rows
<1>3. archive'[snap[r]][t].at >= archive[snap[r]][t].at
  BY <1>1, ArchiveStep
<1>. QED BY <1>1, <1>2, <1>3

\* A run under way that keeps what it holds.
LEMMA FreshMover ==
  ASSUME TypeInv, TypeInv', [Next]_vars, NEW r \in Runs, pc[r] # "idle",
         snap'[r] = snap[r], resumeFrom'[r] = resumeFrom[r], exportedAt' = exportedAt
  PROVE  /\ Due(r)' = Due(r)
         /\ Fresh(r) \subseteq Fresh(r)'
BY Mover, FreshGrows

LEMMA FreshAtRest ==
  ASSUME TypeInv, TypeInv', [Next]_vars, NEW q \in Runs, RunInv(q), FreshRun(q),
         UNCHANGED locals(q), exportedAt'[q] = exportedAt[q]
  PROVE  FreshRun(q)'
<1>1. /\ pc'[q] = pc[q] /\ snap'[q] = snap[q] /\ resumeFrom'[q] = resumeFrom[q]
      /\ batch'[q] = batch[q] /\ rpc'[q] = rpc[q] /\ rcur'[q] = rcur[q]
      /\ rbatch'[q] = rbatch[q] /\ failed'[q] = failed[q] /\ queue'[q] = queue[q]
  BY DEF locals
<1>2. CASE pc[q] # "idle"
  <2>1. Due(q)' = Due(q)
    BY <1>1, <1>2, Mover
  <2>2. Fresh(q) \subseteq Fresh(q)'
    BY <1>1, FreshGrows
  <2>3. FreshOrHanded(q) \subseteq FreshOrHanded(q)'
    BY <1>1, <2>2 DEF FreshOrHanded
  <2>. QED BY <1>1, <2>1, <2>2, <2>3 DEF FreshRun
<1>3. CASE pc[q] = "idle"
  BY <1>1, <1>3 DEF RunInv, BeforeReader, FreshRun, Reading
<1>. QED BY <1>2, <1>3

\* Steps that only move the calling thread on: nothing changes hands.
LEMMA FreshMovesOn ==
  ASSUME TypeInv, TypeInv', [Next]_vars, NEW r \in Runs, RunInv(r), FreshRun(r),
         CountSource(r) \/ RaiseDeadline(r) \/ ClearCheckpoint(r) \/ Finish(r) \/ CallRaises(r)
  PROVE  FreshRun(r)'
<1>0. pc \in [Runs -> CallPcs]
  BY DEF TypeInv, TypeOK
<1>1. /\ pc[r] # "idle"
      /\ UNCHANGED <<snap, resumeFrom, exportedAt, batch, rpc, rcur, rbatch, failed, queue>>
  BY <1>0
  DEF CountSource, RaiseDeadline, ClearCheckpoint, Finish, CallRaises, readVars, chanVars
<1>2. /\ pc'[r] \in {"clear", "verify", "complete"} => pc[r] \in {"clear", "verify"}
      /\ pc'[r] \notin {"loop", "write", "save"}
  BY <1>0
  DEF CountSource, RaiseDeadline, ClearCheckpoint, Finish, CallRaises, Goto
<1>3. Due(r)' = Due(r) /\ Fresh(r) \subseteq Fresh(r)'
  BY <1>1, FreshMover
<1>4. FreshOrHanded(r) \subseteq FreshOrHanded(r)'
  BY <1>1, <1>3 DEF FreshOrHanded
<1>. QED BY <1>1, <1>2, <1>3, <1>4 DEF FreshRun

\* A run begins, its reader starts, or its process is gone: it holds nothing.
LEMMA FreshWithoutReader ==
  ASSUME TypeInv, TypeInv', [Next]_vars, NEW r \in Runs, RunInv(r), FreshRun(r),
         \/ BeginNew(r) \/ (\E s \in SnapIds : BeginResume(r, s))
         \/ StartReader(r) \/ ProcessDies(r)
  PROVE  FreshRun(r)'
<1>0. pc \in [Runs -> CallPcs] /\ rpc \in [Runs -> ReadPcs]
  BY DEF TypeInv, TypeOK
<1>1. CASE BeginNew(r) \/ \E s \in SnapIds : BeginResume(r, s)
  <2>1. pc[r] = "idle" /\ pc'[r] = "count" /\ rpc'[r] = rpc[r]
    BY <1>0, <1>1 DEF BeginNew, BeginResume, Goto, readVars
  <2>. QED BY <2>1 DEF RunInv, BeforeReader, FreshRun, Reading
<1>2. CASE StartReader(r)
  <2>1. pc'[r] = "loop" /\ rpc'[r] = "open"
    BY <1>0, <1>2 DEF StartReader, Goto, ReaderGoto
  <2>. QED BY <2>1 DEF FreshRun, Reading
<1>3. CASE ProcessDies(r)
  <2>1. /\ pc[r] # "idle" /\ pc'[r] \in Over /\ rpc'[r] \in {"none", "exited", "killed"}
        /\ pc'[r] = "complete" => pc[r] = "complete"
        /\ UNCHANGED <<snap, resumeFrom, exportedAt, failed>>
    BY <1>0, <1>3 DEF ProcessDies, Goto, ReaderGoto, Over
  <2>2. Due(r)' = Due(r) /\ Fresh(r) \subseteq Fresh(r)'
    BY <2>1, FreshMover
  <2>. QED BY <2>1, <2>2 DEF FreshRun, Reading, Over
<1>. QED BY <1>1, <1>2, <1>3

\* q.get(): what was handed over stays handed over, and after the sentinel
\* nothing is left in hand.
LEMMA FreshTaken ==
  ASSUME TypeInv, TypeInv', [Next]_vars, NEW r \in Runs, RunInv(r), FreshRun(r),
         GetBatch(r) \/ GetNone(r)
  PROVE  FreshRun(r)'
<1>0. /\ pc \in [Runs -> CallPcs] /\ batch \in [Runs -> Seq(Row)]
      /\ queue[r] \in Seq(Seq(Row))
  BY DEF TypeInv, TypeOK
<1>1. /\ pc[r] = "loop" /\ queue[r] # << >> /\ queue'[r] = Tail(queue[r])
      /\ UNCHANGED <<snap, resumeFrom, exportedAt, rpc, rcur, rbatch, failed>>
  BY <1>0 DEF GetBatch, GetNone, readVars, TypeInv, TypeOK
<1>2. batch[r] = << >>
  BY <1>1 DEF RunInv, BeforeReader
<1>3. Due(r)' = Due(r) /\ Fresh(r) \subseteq Fresh(r)'
  BY <1>1, FreshMover
<1>4. AllTxs(queue[r]) = Txs(Head(queue[r])) \cup AllTxs(queue'[r])
  BY <1>0, <1>1, QueueGet
<1>5. CASE GetBatch(r)
  <2>1. pc'[r] = "write" /\ batch'[r] = Head(queue[r])
    BY <1>0, <1>5 DEF GetBatch, Goto
  <2>2. FreshOrHanded(r) \subseteq FreshOrHanded(r)'
    BY <1>2, <1>3, <1>4, <2>1, TxsOfEmpty DEF FreshOrHanded
  <2>. QED BY <1>1, <1>3, <2>1, <2>2 DEF FreshRun
<1>6. CASE GetNone(r)
  <2>1. pc'[r] = "clear" /\ Head(queue[r]) = Sentinel
    BY <1>0, <1>6 DEF GetNone, Goto
  <2>2. rpc[r] = "exited" /\ Len(queue[r]) = 1
    <3>1. 1 \in 1 .. Len(queue[r]) /\ queue[r][1] = Sentinel
      BY <1>0, <1>1, <2>1, QueueGet
    <3>. QED BY <3>1 DEF RunInv, SentinelIsLast
  <2>3. AllTxs(queue[r]) = {}
    <3>1. Len(queue'[r]) = Len(queue[r]) - 1
      BY <1>0, <1>1, QueueGet
    <3>2. queue'[r] = << >>
      BY <2>2, <3>1, EmptySeq DEF TypeInv, TypeOK
    <3>. QED BY <1>4, <2>1, <3>2, QueueEmpty, TxsOfEmpty DEF Sentinel
  <2>4. FreshOrHanded(r) = Fresh(r)
    BY <1>2, <2>3, TxsOfEmpty DEF FreshOrHanded
  <2>. QED BY <1>1, <1>3, <2>1, <2>2, <2>4 DEF FreshRun, Reading
<1>. QED BY <1>5, <1>6

\* write_batch dates the batch's rows at the export, if they are not newer.
LEMMA FreshWritten ==
  ASSUME TypeInv, TypeInv', [Next]_vars, NEW r \in Runs, RunInv(r), FreshRun(r), WriteRows(r)
  PROVE  FreshRun(r)'
<1>0. /\ pc \in [Runs -> CallPcs] /\ archive \in [SnapIds -> Rows] /\ snap[r] \in SnapIds
      /\ batch[r] \in Seq(Row) /\ exportedAt[r] \in Times
  BY DEF TypeInv, TypeOK, Rows
<1>1. /\ pc[r] = "write" /\ pc'[r] = "save" /\ archive' = Written(r)
      /\ UNCHANGED <<snap, resumeFrom, exportedAt, batch, rpc, rcur, rbatch, failed, queue>>
  BY <1>0 DEF WriteRows, Goto, readVars, chanVars
<1>2. Due(r)' = Due(r) /\ Fresh(r) \subseteq Fresh(r)'
  BY <1>1, FreshMover
<1>3. Txs(batch[r]) \subseteq Fresh(r)'
  <2>. SUFFICES ASSUME NEW t \in Txs(batch[r])
                PROVE  t \in TxIds /\ archive'[snap[r]][t].at >= exportedAt[r]
    BY <1>1 DEF Fresh
  <2>1. t \in TxIds
    BY <1>0, BatchTypes
  <2>2. archive'[snap[r]][t] = MergeRow(archive[snap[r]][t], ClassIn(batch[r], t), exportedAt[r])
    BY <1>0, <1>1, <2>1 DEF Written, WriteBatch
  <2>3. archive[snap[r]][t].at \in Int /\ exportedAt[r] \in Int
    BY <1>0, <2>1 DEF Rows, Times
  <2>. QED BY <2>1, <2>2, <2>3 DEF MergeRow
<1>4. FreshOrHanded(r) \subseteq FreshOrHanded(r)'
  BY <1>1, <1>2 DEF FreshOrHanded
<1>. QED BY <1>1, <1>2, <1>3, <1>4 DEF FreshRun

\* save_checkpoint: the batch is let go of, fresh as it is.
LEMMA FreshSaved ==
  ASSUME TypeInv, TypeInv', [Next]_vars, NEW r \in Runs, RunInv(r), FreshRun(r),
         SaveCheckpoint(r)
  PROVE  FreshRun(r)'
<1>0. pc \in [Runs -> CallPcs] /\ batch \in [Runs -> Seq(Row)]
  BY DEF TypeInv, TypeOK
<1>1. /\ pc[r] = "save" /\ pc'[r] = "loop"
      /\ UNCHANGED <<snap, resumeFrom, exportedAt, rpc, rcur, rbatch, failed, queue>>
  BY <1>0 DEF SaveCheckpoint, Goto, readVars, chanVars
<1>2. Due(r)' = Due(r) /\ Fresh(r) \subseteq Fresh(r)'
  BY <1>1, FreshMover
<1>3. FreshOrHanded(r) \subseteq FreshOrHanded(r)'
  BY <1>1, <1>2 DEF FreshRun, FreshOrHanded
<1>. QED BY <1>1, <1>2, <1>3 DEF FreshRun

\* The reader: what it passes from the resume point on, it takes.
LEMMA FreshRead ==
  ASSUME TypeInv, TypeInv', [Next]_vars, DueIsClassed, NEW r \in Runs, RunInv(r), FreshRun(r),
         \/ ReaderOpens(r) \/ (\E t \in TxIds : ReaderTakes(r, t)) \/ ReaderEnds(r)
         \/ ReaderRaises(r) \/ ReaderDies(r)
  PROVE  FreshRun(r)'
<1>0. /\ rpc \in [Runs -> ReadPcs] /\ rcur \in [Runs -> 0 .. MaxTx]
      /\ rbatch \in [Runs -> Seq(Row)] /\ failed \in [Runs -> BOOLEAN] /\ node \in Graph
      /\ view \in [Runs -> Graph] /\ snap[r] \in SnapIds /\ Due(r) \subseteq TxIds
  BY DEF TypeInv, TypeOK, Due
<1>1. /\ rpc[r] \in {"open", "scan", "putNone"}
      /\ UNCHANGED <<pc, snap, resumeFrom, exportedAt, batch, queue>>
  BY DEF ReaderOpens, ReaderTakes, ReaderEnds, ReaderRaises, ReaderDies, callVars, chanVars
<1>2. pc[r] # "idle"
  BY <1>1 DEF RunInv, BeforeReader
<1>3. Due(r)' = Due(r) /\ Fresh(r) \subseteq Fresh(r)'
  BY <1>1, <1>2, FreshMover
<1>4. FreshOrHanded(r) \subseteq FreshOrHanded(r)'
  BY <1>1, <1>3 DEF FreshOrHanded
<1>5. pc[r] \in {"loop", "write", "save"} => ~stop[r]
  BY DEF RunInv, BeforeReader
<1>6. pc[r] \notin {"clear", "verify", "complete"} \/ failed'[r] \/ failed'[r] = failed[r]
  BY <1>0 DEF ReaderOpens, ReaderTakes, ReaderEnds, ReaderRaises, ReaderDies
<1>7. CASE ReaderOpens(r)
  <2>1. rpc'[r] = "scan" /\ rcur'[r] = resumeFrom[r] /\ failed'[r] = failed[r]
    BY <1>0, <1>7 DEF ReaderOpens, ReaderGoto
  <2>2. \A t \in TxIds : t <= resumeFrom[r] => t \in Fresh(r)
    BY DEF Fresh
  <2>. QED BY <1>0, <1>1, <1>3, <1>4, <2>1, <2>2 DEF FreshRun, FreshOrHanded
<1>8. CASE ReaderRaises(r)
  <2>1. rpc'[r] = "putNone" /\ failed'[r]
    BY <1>0, <1>8 DEF ReaderRaises, ReaderGoto
  <2>. QED BY <1>1, <1>3, <2>1 DEF FreshRun, Reading
<1>9. CASE ReaderEnds(r)
  <2>1. /\ rpc[r] = "scan" /\ failed'[r] = failed[r]
        /\ rpc'[r] = IF rbatch[r] # << >> /\ ~stop[r] THEN "putLast" ELSE "putNone"
        /\ rbatch'[r] = rbatch[r] /\ rcur'[r] = rcur[r]
    BY <1>0, <1>9 DEF ReaderEnds, ReaderGoto
  <2>2. \A u \in Due(r) : u \in Nodes(view[r])
    BY <2>1, HotGraphAssumption DEF RunInv, CursorIsCovered, Reading, Classed, Nodes
  <2>3. \A u \in Due(r) : u <= rcur[r]
    BY <1>9, <2>2 DEF ReaderEnds
  <2>4. Due(r) \subseteq FreshOrHanded(r) \cup Txs(rbatch[r])
    BY <2>1, <2>3 DEF FreshRun, Reading
  <2>5. rbatch[r] = << >> => Due(r) \subseteq FreshOrHanded(r)
    BY <2>4, TxsOfEmpty
  <2>. QED BY <1>1, <1>3, <1>4, <1>5, <2>1, <2>4, <2>5 DEF FreshRun, Reading
<1>10. ASSUME NEW t \in TxIds, ReaderTakes(r, t) PROVE FreshRun(r)'
  <2>1. /\ rpc[r] = "scan" /\ t \in NextRecords(r) /\ failed'[r] = failed[r]
        /\ rpc'[r] \in {"scan", "put", "putNone"} /\ (rpc'[r] = "putNone" <=> stop[r])
    BY <1>0, <1>10 DEF ReaderTakes, ReaderGoto
  <2>2. CASE stop[r]
    BY <1>1, <1>3, <1>4, <1>5, <2>1, <2>2 DEF FreshRun, Reading
  <2>3. CASE ~stop[r]
    <3>1. rcur'[r] = t
      BY <1>0, <1>10, <2>3 DEF ReaderTakes
    <3>2. \A u \in Due(r) : u <= t => u <= rcur[r] \/ u = t
      <4>1. \A u \in Due(r) : u \in Nodes(view[r])
        BY <2>1, HotGraphAssumption DEF RunInv, CursorIsCovered, Reading, Classed, Nodes
      <4>2. \A u \in Nodes(view[r]) : u > rcur[r] => t <= u
        BY <2>1 DEF NextRecords
      <4>3. rcur[r] \in Int /\ t \in Int /\ \A u \in Due(r) : u \in Int
        BY <1>0 DEF TxIds
      <4>. QED BY <4>1, <4>2, <4>3
    <3>3. PICK c \in {view[r][t], node[t]} \ {Absent} :
            IF c = Null
            THEN UNCHANGED rbatch
            ELSE rbatch' = [rbatch EXCEPT ![r] = Append(@, [tx |-> t, class |-> c])]
      BY <1>10, <2>3 DEF ReaderTakes
    <3>4. CASE c = Null
      <4>1. t \in Due(r) => t \in Classed(view[r]) /\ t \in Classed(node)
        BY <1>0, <2>1 DEF RunInv, CursorIsCovered, Reading, DueIsClassed, Due
      <4>2. t \notin Due(r)
        BY <3>4, <4>1, HotGraphAssumption DEF Classed
      <4>3. rbatch'[r] = rbatch[r]
        BY <3>3, <3>4
      <4>. QED
        BY <1>1, <1>3, <1>4, <2>1, <2>3, <3>1, <3>2, <4>2, <4>3 DEF FreshRun, Reading
    <3>5. CASE c # Null
      <4>1. [tx |-> t, class |-> c] \in Row /\ [tx |-> t, class |-> c].tx = t
        BY <1>0, <3>5 DEF Graph, Row
      <4>2. rbatch'[r] = Append(rbatch[r], [tx |-> t, class |-> c]) /\ rbatch[r] \in Seq(Row)
        BY <1>0, <3>3, <3>5
      <4>3. Txs(rbatch'[r]) = Txs(rbatch[r]) \cup {t}
        BY <4>1, <4>2, BatchAppend
      <4>. QED
        BY <1>1, <1>3, <1>4, <2>1, <2>3, <3>1, <3>2, <4>3 DEF FreshRun, Reading
    <3>. QED BY <3>4, <3>5
  <2>. QED BY <2>2, <2>3
<1>11. CASE ReaderDies(r)
  <2>1. rpc'[r] = "killed" /\ failed'[r] = failed[r]
    BY <1>0, <1>11 DEF ReaderDies, ReaderGoto
  <2>. QED BY <1>1, <1>3, <2>1 DEF FreshRun, Reading
<1>. QED BY <1>7, <1>8, <1>9, <1>10, <1>11

\* q.put.
LEMMA FreshPut ==
  ASSUME TypeInv, TypeInv', [Next]_vars, NEW r \in Runs, RunInv(r), FreshRun(r),
         ReaderPuts(r) \/ ReaderPutsNone(r)
  PROVE  FreshRun(r)'
<1>0. /\ rpc \in [Runs -> ReadPcs] /\ rbatch \in [Runs -> Seq(Row)]
      /\ queue \in [Runs -> Seq(Seq(Row))] /\ rbatch[r] \in Seq(Row)
      /\ queue[r] \in Seq(Seq(Row))
  BY DEF TypeInv, TypeOK
<1>1. /\ rpc[r] \in {"put", "putLast", "putNone"}
      /\ UNCHANGED <<pc, snap, resumeFrom, exportedAt, batch, rcur, failed>>
  BY DEF ReaderPuts, ReaderPutsNone, callVars
<1>2. pc[r] # "idle"
  BY <1>1 DEF RunInv, BeforeReader
<1>3. Due(r)' = Due(r) /\ Fresh(r) \subseteq Fresh(r)'
  BY <1>1, <1>2, FreshMover
<1>4. CASE ReaderPuts(r)
  <2>1. /\ queue'[r] = Append(queue[r], rbatch[r]) /\ rbatch'[r] = << >>
        /\ \/ rpc[r] = "put" /\ rpc'[r] = "scan"
           \/ rpc[r] = "putLast" /\ rpc'[r] = "putNone"
    BY <1>0, <1>4 DEF ReaderPuts, ReaderGoto
  <2>2. AllTxs(queue'[r]) = AllTxs(queue[r]) \cup Txs(rbatch[r])
    BY <1>0, <2>1, QueuePut
  <2>3. FreshOrHanded(r) \cup Txs(rbatch[r]) \subseteq FreshOrHanded(r)'
    BY <1>1, <1>3, <2>2 DEF FreshOrHanded
  <2>. QED BY <1>1, <1>3, <2>1, <2>3 DEF FreshRun, Reading
<1>5. CASE ReaderPutsNone(r)
  <2>1. queue'[r] = Append(queue[r], << >>) /\ rpc[r] = "putNone" /\ rpc'[r] = "exited"
    BY <1>0, <1>5 DEF ReaderPutsNone, ReaderGoto, Sentinel
  <2>2. << >> \in Seq(Row)
    BY EmptySeq
  <2>3. AllTxs(queue'[r]) = AllTxs(queue[r]) \cup Txs(<< >>)
    <3>1. AllTxs(Append(queue[r], << >>)) = AllTxs(queue[r]) \cup Txs(<< >>)
      BY <1>0, <2>2, QueuePut
    <3>. QED BY <2>1, <3>1
  <2>4. FreshOrHanded(r) \subseteq FreshOrHanded(r)'
    BY <1>1, <1>3, <2>3 DEF FreshOrHanded
  <2>. QED BY <1>1, <1>3, <2>1, <2>4 DEF FreshRun, Reading
<1>. QED BY <1>4, <1>5

-----------------------------------------------------------------------------
(* Exact counts.                                                           *)

\* No node is ever deleted.
LEMMA NodesGrow ==
  ASSUME TypeInv, [Next]_vars
  PROVE  Nodes(node) \subseteq Nodes(node)'
<1>0. node \in Graph /\ Live \subseteq TxIds
  BY SnapshotExportAssumption DEF TypeInv, TypeOK
<1>1. CASE node' = node
  BY <1>1
<1>2. ASSUME NEW t \in Live, NEW c \in TxClass, IngestTransaction(t, c)
      PROVE  Nodes(node) \subseteq Nodes(node)'
  BY <1>0, <1>2, HotGraphAssumption DEF IngestTransaction, UpsertTransaction, Nodes, Graph
<1>3. ASSUME NEW from \in Live, NEW to \in Live, IngestEdge(from, to)
      PROVE  Nodes(node) \subseteq Nodes(node)'
  BY <1>0, <1>3, HotGraphAssumption DEF IngestEdge, UpsertEdge, Nodes, Graph
<1>4. ASSUME NEW r \in Runs, CallStep(r) PROVE node' = node
  BY <1>4
  DEF CallStep, CountSource, StartReader, GetBatch, GetNone, WriteRows, SaveCheckpoint,
      ClearCheckpoint, Finish, storeVars
<1>5. ASSUME NEW r \in Runs, ReaderStep(r) PROVE node' = node
  BY <1>5
  DEF ReaderStep, ReaderOpens, ReaderTakes, ReaderEnds, ReaderPuts, ReaderPutsNone, storeVars
<1>. QED
  BY <1>1, <1>2, <1>3, <1>4, <1>5
  DEF Next, vars, storeVars, Tick, BeginNew, BeginResume, RaiseDeadline, CallRaises,
      ProcessDies, ReaderRaises, ReaderDies

\* Rows come from the batch of a run that writes, and from nowhere else.
LEMMA RowsComeFromBatches ==
  ASSUME TypeInv, [Next]_vars, NEW s \in SnapIds
  PROVE  \A t \in Archived(archive'[s]) :
           t \in Archived(archive[s]) \/ \E r \in Runs : t \in Txs(batch[r])
<1>0. /\ archive \in [SnapIds -> Rows] /\ snap \in [Runs -> SnapIds]
      /\ batch \in [Runs -> Seq(Row)] /\ exportedAt \in [Runs -> Times]
  BY DEF TypeInv, TypeOK, Rows
<1>1. CASE archive' = archive
  BY <1>1
<1>2. ASSUME NEW r \in Runs, archive' = Written(r)
      PROVE  Archived(archive'[s]) \subseteq Archived(archive[s]) \cup Txs(batch[r])
  <2>1. CASE s = snap[r]
    <3>1. archive'[s] = WriteBatch(archive[s], batch[r], exportedAt[r])
      BY <1>0, <1>2, <2>1 DEF Written
    <3>. QED BY <1>0, <3>1, WriteArchives
  <2>2. CASE s # snap[r]
    <3>1. archive'[s] = archive[s]
      BY <1>0, <1>2, <2>2 DEF Written
    <3>. QED BY <3>1
  <2>. QED BY <2>1, <2>2
<1>3. archive' = archive \/ \E r \in Runs : archive' = Written(r)
  <2>1. ASSUME NEW r \in Runs, CallStep(r) PROVE archive' = archive \/ archive' = Written(r)
    BY <2>1
    DEF CallStep, CountSource, StartReader, GetBatch, GetNone, WriteRows, SaveCheckpoint,
        ClearCheckpoint, Finish, storeVars
  <2>2. ASSUME NEW r \in Runs, ReaderStep(r) PROVE archive' = archive
    BY <2>2
    DEF ReaderStep, ReaderOpens, ReaderTakes, ReaderEnds, ReaderPuts, ReaderPutsNone, storeVars
  <2>3. ASSUME NEW r \in Runs, CallRaises(r) PROVE archive' = archive \/ archive' = Written(r)
    BY <2>3 DEF CallRaises
  <2>. QED
    BY <2>1, <2>2, <2>3
    DEF Next, vars, storeVars, IngestTransaction, IngestEdge, Tick, BeginNew, BeginResume,
        RaiseDeadline, ProcessDies, ReaderRaises, ReaderDies
<1>. QED BY <1>1, <1>2, <1>3

Held(r) == Txs(batch[r]) \cup AllTxs(queue[r]) \cup Txs(rbatch[r])

\* What a step of r leaves r holding: what it held, or the record it takes.
LEMMA HeldAreNodes ==
  ASSUME TypeInv, NEW r \in Runs, Held(r) \subseteq Nodes(node),
         \/ BeginNew(r) \/ (\E s \in SnapIds : BeginResume(r, s)) \/ CallStep(r)
         \/ RaiseDeadline(r) \/ CallRaises(r) \/ ProcessDies(r) \/ ReaderStep(r)
         \/ ReaderRaises(r) \/ ReaderDies(r)
  PROVE  Held(r)' \subseteq Nodes(node)
<1>0. /\ batch \in [Runs -> Seq(Row)] /\ rbatch \in [Runs -> Seq(Row)]
      /\ queue \in [Runs -> Seq(Seq(Row))] /\ queue[r] \in Seq(Seq(Row))
      /\ rbatch[r] \in Seq(Row) /\ node \in Graph /\ view \in [Runs -> Graph]
  BY DEF TypeInv, TypeOK
<1>1. CASE UNCHANGED <<batch, queue, rbatch>>
  BY <1>1 DEF Held
<1>2. CASE GetBatch(r) \/ GetNone(r)
  <2>1. /\ queue[r] # << >> /\ queue'[r] = Tail(queue[r]) /\ rbatch'[r] = rbatch[r]
        /\ batch'[r] \in {batch[r], Head(queue[r])}
    BY <1>0, <1>2 DEF GetBatch, GetNone, readVars
  <2>2. AllTxs(queue[r]) = Txs(Head(queue[r])) \cup AllTxs(queue'[r])
    BY <1>0, <2>1, QueueGet
  <2>. QED BY <2>1, <2>2 DEF Held
<1>3. CASE SaveCheckpoint(r)
  <2>1. batch'[r] = << >> /\ queue' = queue /\ rbatch' = rbatch
    BY <1>0, <1>3 DEF SaveCheckpoint, readVars, chanVars
  <2>. QED BY <2>1, TxsOfEmpty DEF Held
<1>4. CASE ProcessDies(r)
  <2>1. batch'[r] = << >> /\ queue'[r] = << >> /\ rbatch'[r] = << >>
    BY <1>0, <1>4 DEF ProcessDies
  <2>. QED BY <2>1, TxsOfEmpty, QueueEmpty DEF Held
<1>5. ASSUME NEW t \in TxIds, ReaderTakes(r, t) PROVE Held(r)' \subseteq Nodes(node)
  <2>1. batch' = batch /\ queue' = queue /\ t \in Nodes(node)
    BY <1>5 DEF ReaderTakes, NextRecords, callVars, chanVars
  <2>2. CASE rbatch' = rbatch
    BY <2>1, <2>2 DEF Held
  <2>3. ASSUME NEW c \in {view[r][t], node[t]} \ {Absent}, c # Null,
               rbatch' = [rbatch EXCEPT ![r] = Append(@, [tx |-> t, class |-> c])]
        PROVE  Held(r)' \subseteq Nodes(node)
    <3>1. [tx |-> t, class |-> c] \in Row /\ [tx |-> t, class |-> c].tx = t
      BY <1>0, <2>3 DEF Graph, Row
    <3>2. rbatch'[r] = Append(rbatch[r], [tx |-> t, class |-> c])
      BY <1>0, <2>3
    <3>3. Txs(rbatch'[r]) = Txs(rbatch[r]) \cup {t}
      BY <1>0, <3>1, <3>2, BatchAppend
    <3>. QED BY <2>1, <3>3 DEF Held
  <2>. QED BY <1>5, <2>2, <2>3 DEF ReaderTakes
<1>6. CASE ReaderPuts(r) \/ ReaderPutsNone(r)
  <2>1. << >> \in Seq(Row)
    BY EmptySeq
  <2>2. /\ batch' = batch
        /\ \/ queue'[r] = Append(queue[r], rbatch[r]) /\ rbatch'[r] = << >>
           \/ queue'[r] = Append(queue[r], << >>) /\ rbatch' = rbatch
    BY <1>0, <1>6 DEF ReaderPuts, ReaderPutsNone, Sentinel, callVars
  <2>3. /\ AllTxs(Append(queue[r], rbatch[r])) = AllTxs(queue[r]) \cup Txs(rbatch[r])
        /\ AllTxs(Append(queue[r], << >>)) = AllTxs(queue[r]) \cup Txs(<< >>)
    BY <1>0, <2>1, QueuePut
  <2>. QED BY <2>2, <2>3, TxsOfEmpty DEF Held
<1>7. CASE \/ BeginNew(r) \/ (\E s \in SnapIds : BeginResume(r, s)) \/ RaiseDeadline(r)
           \/ CallRaises(r) \/ ReaderRaises(r) \/ ReaderDies(r) \/ CountSource(r)
           \/ StartReader(r) \/ WriteRows(r) \/ ClearCheckpoint(r) \/ Finish(r) \/ ReaderOpens(r)
           \/ ReaderEnds(r)
  <2>1. UNCHANGED <<batch, queue, rbatch>>
    BY <1>7
    DEF BeginNew, BeginResume, RaiseDeadline, CallRaises, ReaderRaises, ReaderDies,
        CountSource, StartReader, WriteRows, ClearCheckpoint, Finish, ReaderOpens, ReaderEnds, callVars,
        readVars, chanVars
  <2>. QED BY <1>1, <2>1
<1>. QED
  BY <1>2, <1>3, <1>4, <1>5, <1>6, <1>7 DEF CallStep, ReaderStep

\* A run that has counted and not been told its result, or whose result
\* stands.
LEMMA CountStands ==
  ASSUME TypeInv, TypeInv', [Next]_vars, NEW r \in Runs, ExactRun(r),
         counted'[r] = counted[r], Held(r)' \subseteq Nodes(node)',
         reconciled'[r] => reconciled[r] /\ pc'[r] = pc[r] /\ snap'[r] = snap[r]
  PROVE  ExactRun(r)'
<1>1. Nodes(node) \subseteq Nodes(node)'
  BY NodesGrow
<1>2. counted'[r] \subseteq Nodes(node)' /\ (reconciled'[r] => pc'[r] = "complete")
  BY <1>1 DEF ExactRun
<1>3. ASSUME reconciled'[r], Nodes(node)' = counted'[r] PROVE counted'[r] \subseteq Kept(r)'
  <2>1. Nodes(node) = counted[r] /\ pc[r] # "idle"
    BY <1>1, <1>3 DEF ExactRun
  <2>2. Kept(r) \subseteq Kept(r)'
    BY <1>3, <2>1, Mover
  <2>. QED BY <1>3, <2>1, <2>2 DEF ExactRun
<1>. QED BY <1>2, <1>3 DEF ExactRun, Held

\* Finish: two finite sets of which one lies in the other are equal if their
\* numbers are.
LEMMA CountsAgree ==
  ASSUME TypeInv, TypeInv', [Next]_vars, KeptAreNodes, NEW r \in Runs, ExactRun(r), Finish(r)
  PROVE  ExactRun(r)'
<1>0. /\ pc \in [Runs -> CallPcs] /\ reconciled \in [Runs -> BOOLEAN] /\ snap[r] \in SnapIds
      /\ counted[r] \subseteq TxIds
  BY DEF TypeInv, TypeOK
<1>1. /\ pc'[r] = "complete"
      /\ reconciled'[r] = (Cardinality(Kept(r)) = Cardinality(counted[r]))
      /\ UNCHANGED <<node, archive, snap, counted, batch, queue, rbatch>>
  BY <1>0 DEF Finish, Goto, Kept, storeVars, readVars, chanVars
<1>2. Kept(r) \subseteq Nodes(node)
  BY <1>0 DEF KeptAreNodes, Kept
<1>3. ASSUME reconciled'[r], Nodes(node) = counted[r] PROVE counted[r] \subseteq Kept(r)
  <2>1. IsFiniteSet(TxIds)
    BY FS_Interval DEF TxIds
  <2>2. IsFiniteSet(counted[r])
    BY <1>0, <2>1, FS_Subset
  <2>3. Kept(r) \in SUBSET counted[r]
    BY <1>2, <1>3
  <2>. QED BY <1>1, <1>3, <2>2, <2>3, FS_Subset
<1>. QED BY <1>1, <1>3 DEF ExactRun, Kept

\* CountSource counts what there is, before there is a result.
LEMMA NodesCounted ==
  ASSUME TypeInv, NEW r \in Runs, ExactRun(r), CountSource(r)
  PROVE  ExactRun(r)'
<1>0. counted \in [Runs -> SUBSET TxIds] /\ pc \in [Runs -> CallPcs]
  BY DEF TypeInv, TypeOK
<1>1. /\ pc[r] = "count" /\ counted'[r] = Nodes(node)
      /\ UNCHANGED <<node, batch, queue, rbatch, reconciled>>
  BY <1>0 DEF CountSource, storeVars, readVars, chanVars
<1>. QED BY <1>1 DEF ExactRun

\* Every step of a run but CountSource and Finish.
LEMMA CountStandsInSteps ==
  ASSUME TypeInv, TypeInv', [Next]_vars, NEW r \in Runs, ExactRun(r),
         \/ BeginNew(r) \/ (\E s \in SnapIds : BeginResume(r, s)) \/ CallStep(r)
         \/ RaiseDeadline(r) \/ CallRaises(r) \/ ProcessDies(r) \/ ReaderStep(r)
         \/ ReaderRaises(r) \/ ReaderDies(r),
         ~CountSource(r), ~Finish(r)
  PROVE  ExactRun(r)'
<1>0. pc \in [Runs -> CallPcs]
  BY DEF TypeInv, TypeOK
<1>1. counted' = counted /\ reconciled' = reconciled
  <2>1. ASSUME NEW t \in TxIds, ReaderTakes(r, t) PROVE UNCHANGED <<counted, reconciled>>
    BY <2>1 DEF ReaderTakes, callVars
  <2>. QED
    BY <2>1
    DEF BeginNew, BeginResume, RaiseDeadline, CallRaises, ProcessDies, ReaderRaises,
        ReaderDies, CallStep, ReaderStep, StartReader, GetBatch, GetNone, WriteRows, SaveCheckpoint, ClearCheckpoint,
        ReaderOpens, ReaderEnds, ReaderPuts, ReaderPutsNone, callVars
<1>2. pc[r] = "complete" => pc'[r] = pc[r] /\ snap'[r] = snap[r]
  <2>1. ASSUME NEW t \in TxIds, ReaderTakes(r, t) PROVE UNCHANGED <<pc, snap>>
    BY <2>1 DEF ReaderTakes, callVars
  <2>. QED
    BY <1>0, <2>1
    DEF BeginNew, BeginResume, RaiseDeadline, CallRaises, ProcessDies, ReaderRaises,
        ReaderDies, CallStep, ReaderStep, StartReader, GetBatch, GetNone, WriteRows, SaveCheckpoint, ClearCheckpoint,
        ReaderOpens, ReaderEnds, ReaderPuts, ReaderPutsNone, callVars, Goto, Over
<1>3. Held(r) \subseteq Nodes(node)
  BY DEF ExactRun, Held
<1>4. Held(r)' \subseteq Nodes(node)
  BY <1>3, HeldAreNodes
<1>5. Held(r)' \subseteq Nodes(node)'
  BY <1>4, NodesGrow
<1>. QED BY <1>1, <1>2, <1>5, CountStands DEF ExactRun

\* A run at rest holds what it held, and its counts stand.
LEMMA ExactAtRest ==
  ASSUME TypeInv, TypeInv', [Next]_vars, NEW q \in Runs, ExactRun(q), UNCHANGED locals(q),
         counted'[q] = counted[q], reconciled'[q] = reconciled[q]
  PROVE  ExactRun(q)'
<1>1. /\ pc'[q] = pc[q] /\ snap'[q] = snap[q]
      /\ batch'[q] = batch[q] /\ rbatch'[q] = rbatch[q] /\ queue'[q] = queue[q]
  BY DEF locals
<1>2. Held(q)' = Held(q)
  BY <1>1 DEF Held
<1>3. Held(q)' \subseteq Nodes(node)'
  BY <1>2, NodesGrow DEF ExactRun, Held
<1>. QED BY <1>1, <1>3, CountStands

\* A step of one run leaves the counts and the date of another alone.
LEMMA CountsAreApart ==
  ASSUME TypeInv, NEW r \in Runs, NEW q \in Runs, q # r,
         \/ BeginNew(r) \/ (\E s \in SnapIds : BeginResume(r, s)) \/ CallStep(r)
         \/ RaiseDeadline(r) \/ CallRaises(r) \/ ProcessDies(r) \/ ReaderStep(r)
         \/ ReaderRaises(r) \/ ReaderDies(r)
  PROVE  /\ counted'[q] = counted[q] /\ exportedAt'[q] = exportedAt[q]
         /\ reconciled'[q] = reconciled[q]
<1>0. /\ counted \in [Runs -> SUBSET TxIds] /\ exportedAt \in [Runs -> Times]
      /\ reconciled \in [Runs -> BOOLEAN]
  BY DEF TypeInv, TypeOK
<1>1. CASE CountSource(r) \/ StartReader(r) \/ Finish(r)
  BY <1>0, <1>1 DEF CountSource, StartReader, Finish
<1>2. ASSUME NEW t \in TxIds, ReaderTakes(r, t) PROVE UNCHANGED <<counted, exportedAt, reconciled>>
  BY <1>2 DEF ReaderTakes, callVars
<1>. QED
  BY <1>1, <1>2
  DEF BeginNew, BeginResume, RaiseDeadline, CallRaises, ProcessDies, ReaderRaises,
      ReaderDies, CallStep, ReaderStep, GetBatch, GetNone, WriteRows, SaveCheckpoint, ClearCheckpoint,
      ReaderOpens, ReaderEnds, ReaderPuts, ReaderPutsNone, callVars

LEMMA ExportInit == Init => ExportInv
<1>. SUFFICES ASSUME Init PROVE ExportInv
  OBVIOUS
<1>1. KeptAreNodes
  BY DEF Init, KeptAreNodes, Archived, NoRow
<1>2. ASSUME NEW r \in Runs PROVE FreshRun(r) /\ ExactRun(r)
  <2>1. /\ pc[r] = "idle" /\ rpc[r] = "none" /\ counted[r] = {} /\ ~reconciled[r]
        /\ Txs(batch[r]) = {} /\ Txs(rbatch[r]) = {} /\ AllTxs(queue[r]) = {}
    BY TxsOfEmpty, QueueEmpty DEF Init
  <2>. QED BY <2>1 DEF FreshRun, ExactRun, Reading
<1>. QED BY <1>1, <1>2, InvInit DEF ExportInv

\* The invariant of both is inductive.
LEMMA ExportStep == ExportInv /\ [Next]_vars => ExportInv'
<1>. SUFFICES ASSUME ExportInv, [Next]_vars PROVE ExportInv'
  OBVIOUS
<1>0. IInv'
  BY InvStep DEF ExportInv
<1>1. TypeInv /\ TypeInv' /\ DueIsClassed /\ KeptAreNodes
  BY <1>0 DEF ExportInv, IInv
<1>2. KeptAreNodes'
  <2>. SUFFICES ASSUME NEW s \in SnapIds, NEW t \in Archived(archive'[s])
                PROVE  t \in Nodes(node)'
    BY DEF KeptAreNodes
  <2>1. t \in Archived(archive[s]) \/ \E r \in Runs : t \in Txs(batch[r])
    BY <1>1, RowsComeFromBatches
  <2>2. t \in Nodes(node)
    BY <1>1, <2>1 DEF KeptAreNodes, ExportInv, ExactRun
  <2>. QED BY <1>1, <2>2, NodesGrow
<1>3. ASSUME NEW q \in Runs PROVE FreshRun(q)' /\ ExactRun(q)'
  <2>0. RunInv(q) /\ FreshRun(q) /\ ExactRun(q)
    BY DEF ExportInv, IInv
  <2>1. CASE UNCHANGED <<locals(q), counted[q], exportedAt[q], reconciled[q]>>
    BY <1>1, <2>0, <2>1, FreshAtRest, ExactAtRest
  <2>2. ASSUME NEW r \in Runs,
               \/ BeginNew(r) \/ (\E s \in SnapIds : BeginResume(r, s)) \/ CallStep(r)
               \/ RaiseDeadline(r) \/ CallRaises(r) \/ ProcessDies(r) \/ ReaderStep(r)
               \/ ReaderRaises(r) \/ ReaderDies(r)
        PROVE  FreshRun(q)' /\ ExactRun(q)'
    <3>1. CASE q # r
      BY <1>1, <2>1, <2>2, <3>1, RunsAreApart, CountsAreApart
    <3>2. CASE q = r
      <4>1. FreshRun(q)'
        <5>1. CASE CountSource(q) \/ RaiseDeadline(q) \/ ClearCheckpoint(q) \/ Finish(q)
                     \/ CallRaises(q)
          BY <1>1, <2>0, <5>1, FreshMovesOn
        <5>2. CASE \/ BeginNew(q) \/ (\E s \in SnapIds : BeginResume(q, s))
                   \/ StartReader(q) \/ ProcessDies(q)
          BY <1>1, <2>0, <5>2, FreshWithoutReader
        <5>3. CASE GetBatch(q) \/ GetNone(q)
          BY <1>1, <2>0, <5>3, FreshTaken
        <5>4. CASE WriteRows(q) \/ SaveCheckpoint(q)
          BY <1>1, <2>0, <5>4, FreshWritten, FreshSaved
        <5>5. CASE \/ ReaderOpens(q) \/ (\E t \in TxIds : ReaderTakes(q, t))
                   \/ ReaderEnds(q) \/ ReaderRaises(q) \/ ReaderDies(q)
          BY <1>1, <2>0, <5>5, FreshRead
        <5>6. CASE ReaderPuts(q) \/ ReaderPutsNone(q)
          BY <1>1, <2>0, <5>6, FreshPut
        <5>. QED
          BY <2>2, <3>2, <5>1, <5>2, <5>3, <5>4, <5>5, <5>6 DEF CallStep, ReaderStep
      <4>2. ExactRun(q)'
        <5>1. CASE CountSource(q)
          BY <1>1, <2>0, <5>1, NodesCounted
        <5>2. CASE Finish(q)
          BY <1>1, <2>0, <5>2, CountsAgree
        <5>3. CASE ~CountSource(q) /\ ~Finish(q)
          BY <1>1, <2>0, <2>2, <3>2, <5>3, CountStandsInSteps
        <5>. QED BY <5>1, <5>2, <5>3
      <4>. QED BY <4>1, <4>2
    <3>. QED BY <3>1, <3>2
  <2>3. CASE UNCHANGED <<callVars, readVars, chanVars>>
    BY <2>1, <2>3 DEF locals, callVars, readVars, chanVars
  <2>. QED
    BY <2>2, <2>3 DEF Next, vars, IngestTransaction, IngestEdge, Tick
<1>. QED BY <1>0, <1>2, <1>3 DEF ExportInv

(* The strengthened invariant holds throughout.                            *)
THEOREM ExportInvHolds == Spec => []ExportInv
BY ExportInit, ExportStep, PTL DEF Spec

(* Which version of a row a complete run leaves (neo4j_client.py 58-62,    *)
(* snapshot_export.py 162 and 211-213): one dated no earlier than the      *)
(* run's own exported_at, for every due node it did not skip, even while   *)
(* an older run of the same snapshot is still writing.                     *)
THEOREM CompleteRunsAreFresh == Spec => []CompleteIsFresh
<1>1. ExportInv => CompleteIsFresh
  <2>. SUFFICES ASSUME ExportInv, NEW r \in Runs, pc[r] = "complete", ~failed[r],
                       NEW t \in due[snap[r]], t > resumeFrom[r]
                PROVE  archive[snap[r]][t].at >= exportedAt[r]
    BY DEF CompleteIsFresh
  <2>1. t \in Fresh(r)
    BY DEF ExportInv, FreshRun, Due
  <2>2. t \in Int /\ resumeFrom[r] \in Int
    BY <2>1 DEF ExportInv, IInv, TypeInv, TypeOK, Fresh, TxIds
  <2>. QED BY <2>1, <2>2 DEF Fresh
<1>. QED BY <1>1, ExportInvHolds, PTL

(* What reconciled=True proves (snapshot_export.py 159, 223 and 232): two   *)
(* numbers were equal, and as rows are only ever of nodes, and no node is  *)
(* ever deleted, a run that reconciles has a row for exactly the nodes it  *)
(* counted, unless a node has come since.                                  *)
THEOREM ReconciledRunsAreExact == Spec => []ReconciledIsExact
<1>1. ExportInv => ReconciledIsExact
  <2>. SUFFICES ASSUME ExportInv, NEW r \in Runs, pc[r] = "complete", reconciled[r],
                       Nodes(node) = counted[r]
                PROVE  Archived(archive[snap[r]]) = counted[r]
    BY DEF ReconciledIsExact
  <2>1. snap[r] \in SnapIds
    BY DEF ExportInv, IInv, TypeInv, TypeOK
  <2>2. Archived(archive[snap[r]]) \subseteq counted[r]
    BY <2>1 DEF ExportInv, KeptAreNodes
  <2>3. counted[r] \subseteq Archived(archive[snap[r]])
    BY DEF ExportInv, ExactRun, Kept
  <2>. QED BY <2>2, <2>3
<1>. QED BY <1>1, ExportInvHolds, PTL
=============================================================================
