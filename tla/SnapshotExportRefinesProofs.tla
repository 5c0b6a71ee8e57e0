-------------------- MODULE SnapshotExportRefinesProofs --------------------
(***************************************************************************)
(* SnapshotExport implements ArchivePromise for every value of the         *)
(* constants: the initial states map to the promise's, and every step to   *)
(* one of its steps or to none.                                            *)
(***************************************************************************)
EXTENDS SnapshotExportRefines, SnapshotExportProofs

-----------------------------------------------------------------------------
(* The two facts the mapping needs.                                        *)

\* A step that changes the rows of a snapshot is a run's of that snapshot.
LEMMA RowsMove ==
  ASSUME TypeInv, [Next]_vars, archive' # archive
  PROVE  \E r \in Runs :
           /\ pc[r] = "write" /\ archive' = Written(r)
           /\ WriteRows(r) \/ CallRaises(r)
<1>1. ASSUME NEW r \in Runs, CallStep(r) PROVE WriteRows(r)
  BY <1>1
  DEF CallStep, CountSource, StartReader, GetBatch, GetNone, SaveCheckpoint,
      ClearCheckpoint, Finish, storeVars
<1>2. ASSUME NEW r \in Runs, ReaderStep(r) PROVE FALSE
  BY <1>2
  DEF ReaderStep, ReaderOpens, ReaderTakes, ReaderEnds, ReaderPuts, ReaderPutsNone, storeVars
<1>3. \E r \in Runs : WriteRows(r) \/ CallRaises(r)
  BY <1>1, <1>2
  DEF Next, vars, storeVars, IngestTransaction, IngestEdge, Tick, BeginNew, BeginResume,
      RaiseDeadline, ProcessDies, ReaderRaises, ReaderDies
<1>. QED BY <1>3 DEF WriteRows, CallRaises

LEMMA UntouchedStep ==
  ASSUME TypeInv, TypeInv', [Next]_vars, Untouched
  PROVE  Untouched'
<1>. SUFFICES ASSUME NEW s \in SnapIds, Archived(archive'[s]) # {} PROVE Begun(s)'
  BY DEF Untouched
<1>0. archive \in [SnapIds -> Rows] /\ snap \in [Runs -> SnapIds]
  BY DEF TypeInv, TypeOK, Rows
<1>1. CASE archive'[s] = archive[s]
  BY <1>1, DueSettled DEF Untouched
<1>2. CASE archive'[s] # archive[s]
  <2>1. PICK r \in Runs : pc[r] = "write" /\ archive' = Written(r)
    BY <1>2, RowsMove
  <2>2. snap[r] = s
    BY <1>0, <1>2, <2>1 DEF Written
  <2>. QED BY <2>1, <2>2, DueSettled DEF Begun
<1>. QED BY <1>1, <1>2

\* GetNone takes a sentinel, and only a reader that is done leaves one.
LEMMA ReaderIsDoneStep ==
  ASSUME IInv, [Next]_vars, ReaderIsDone
  PROVE  ReaderIsDone'
<1>. SUFFICES ASSUME NEW q \in Runs, pc'[q] \in {"clear", "verify", "complete"}
              PROVE  rpc'[q] \in {"exited", "killed"}
  BY DEF ReaderIsDone
<1>0. /\ pc \in [Runs -> CallPcs] /\ rpc \in [Runs -> ReadPcs]
      /\ queue \in [Runs -> Seq(Seq(Row))]
      /\ SentinelIsLast(q)
      /\ pc[q] \in {"clear", "verify", "complete"} => rpc[q] \in {"exited", "killed"}
  BY DEF IInv, TypeInv, TypeOK, RunInv, ReaderIsDone
<1>. USE DEF Goto, ReaderGoto, Over
<1>1. CASE UNCHANGED <<pc, rpc>>
  BY <1>0, <1>1
<1>2. ASSUME NEW r \in Runs, CallStep(r) PROVE rpc'[q] \in {"exited", "killed"}
  <2>1. CASE CountSource(r) \/ GetBatch(r) \/ WriteRows(r) \/ SaveCheckpoint(r)
             \/ ClearCheckpoint(r) \/ Finish(r)
    BY <1>0, <2>1
    DEF CountSource, GetBatch, WriteRows, SaveCheckpoint, ClearCheckpoint, Finish, readVars
  <2>2. CASE StartReader(r)
    BY <1>0, <2>2 DEF StartReader
  <2>3. CASE GetNone(r)
    <3>1. CASE q = r
      <4>1. Head(queue[q]) = queue[q][1] /\ 1 \in 1 .. Len(queue[q])
        BY <1>0, <2>3, <3>1, EmptySeq, HeadTailProperties DEF GetNone
      <4>. QED BY <1>0, <2>3, <3>1, <4>1 DEF GetNone, SentinelIsLast, readVars
    <3>2. CASE q # r
      BY <1>0, <2>3, <3>2 DEF GetNone, readVars
    <3>. QED BY <3>1, <3>2
  <2>. QED BY <1>2, <2>1, <2>2, <2>3 DEF CallStep
<1>3. ASSUME NEW r \in Runs, ReaderStep(r) \/ ReaderRaises(r)
      PROVE  rpc'[q] \in {"exited", "killed"}
  <2>1. pc' = pc /\ rpc[r] \in {"open", "scan", "put", "putLast", "putNone"}
    BY <1>3
    DEF ReaderStep, ReaderOpens, ReaderTakes, ReaderEnds, ReaderPuts, ReaderPutsNone,
        ReaderRaises, callVars
  <2>2. q # r
    BY <1>0, <2>1
  <2>3. \E l \in ReadPcs : rpc' = [rpc EXCEPT ![r] = l]
    BY <1>3
    DEF ReaderStep, ReaderOpens, ReaderTakes, ReaderEnds, ReaderPuts, ReaderPutsNone,
        ReaderRaises, ReadPcs
  <2>. QED BY <1>0, <2>1, <2>2, <2>3
<1>4. ASSUME NEW r \in Runs, ProcessDies(r) PROVE rpc'[q] \in {"exited", "killed"}
  BY <1>0, <1>4 DEF ProcessDies
<1>5. ASSUME NEW r \in Runs, ReaderDies(r) PROVE rpc'[q] \in {"exited", "killed"}
  BY <1>0, <1>5 DEF ReaderDies, callVars
<1>6. ASSUME NEW r \in Runs,
             BeginNew(r) \/ (\E s \in SnapIds : BeginResume(r, s)) \/ RaiseDeadline(r)
               \/ CallRaises(r)
      PROVE  rpc'[q] \in {"exited", "killed"}
  BY <1>0, <1>6 DEF BeginNew, BeginResume, RaiseDeadline, CallRaises, readVars
<1>. QED
  BY <1>1, <1>2, <1>3, <1>4, <1>5, <1>6
  DEF Next, vars, callVars, readVars, IngestTransaction, IngestEdge, Tick

LEMMA RInvInit == Init => RInv
<1>. SUFFICES ASSUME Init PROVE RInv
  OBVIOUS
<1>1. Untouched
  BY DEF Init, Untouched, Archived, NoRow
<1>2. ReaderIsDone
  BY DEF Init, ReaderIsDone
<1>. QED BY <1>1, <1>2, InvInit DEF RInv

LEMMA RInvStep == RInv /\ [Next]_vars => RInv'
<1>. SUFFICES ASSUME RInv, [Next]_vars PROVE RInv'
  OBVIOUS
<1>1. IInv'
  BY InvStep DEF RInv
<1>. QED BY <1>1, UntouchedStep, ReaderIsDoneStep DEF RInv, IInv

-----------------------------------------------------------------------------
(* What a step of a run does to the mapped variables.                      *)

\* A run that goes on, and neither completes nor fails, says nothing new.
LEMMA NothingDeclared ==
  ASSUME TypeInv, NEW r \in Runs, NEW l \in CallPcs, pc[r] # "idle", l # "idle",
         l = "complete" <=> pc[r] = "complete",
         pc' = [pc EXCEPT ![r] = l], snap' = snap, failed' = failed
  PROVE  BegunSnaps' = BegunSnaps /\ DeclaredSnaps' = DeclaredSnaps
<1>0. pc \in [Runs -> CallPcs]
  BY DEF TypeInv, TypeOK
<1>1. \A q \in Runs : (pc'[q] = "complete" <=> pc[q] = "complete")
                      /\ (pc'[q] # "idle" <=> pc[q] # "idle")
  BY <1>0
<1>2. \A s \in SnapIds : Begun(s)' <=> Begun(s)
  BY <1>1 DEF Begun
<1>. QED BY <1>1, <1>2 DEF BegunSnaps, DeclaredSnaps

\* write_batch is the promise's Write.
LEMMA WriteKeeps ==
  ASSUME TypeInv, NEW r \in Runs, pc[r] = "write", archive' = Written(r),
         UNCHANGED <<checkpoint, due>>, BegunSnaps' = BegunSnaps, DeclaredSnaps' = DeclaredSnaps
  PROVE  Abstract!PromiseNext
<1>0. /\ archive \in [SnapIds -> Rows] /\ snap[r] \in SnapIds
      /\ batch[r] \in Seq(Row) /\ exportedAt[r] \in Times
  BY DEF TypeInv, TypeOK, Rows
<1>. DEFINE b == [t \in Txs(batch[r]) |-> ClassIn(batch[r], t)]
<1>1. b \in Abstract!Batches
  <2>1. Txs(batch[r]) \subseteq TxIds /\ \A t \in Txs(batch[r]) : ClassIn(batch[r], t) \in TxClass
    BY <1>0, BatchTypes
  <2>2. b \in [Txs(batch[r]) -> TxClass]
    BY <2>1
  <2>. QED BY <2>1, <2>2 DEF Abstract!Batches, TxIds, Abstract!TxIds
<1>2. WriteBatch(archive[snap[r]], batch[r], exportedAt[r])
        = Abstract!Merged(archive[snap[r]], b, exportedAt[r])
  BY DEF WriteBatch, Abstract!Merged, MergeRow, Abstract!MergeRow, TxIds, Abstract!TxIds
<1>3. archive' = [archive EXCEPT ![snap[r]] = Abstract!Merged(@, b, exportedAt[r])]
  BY <1>0, <1>2 DEF Written
<1>4. snap[r] \in BegunSnaps
  BY <1>0 DEF BegunSnaps, Begun
<1>5. Abstract!WriteSnapshot(snap[r], b, exportedAt[r])
  BY <1>3, <1>4 DEF Abstract!WriteSnapshot
<1>. QED BY <1>0, <1>1, <1>5 DEF Abstract!PromiseNext

\* save_checkpoint and clear_checkpoint are the promise's SetMark.
LEMMA MarkKeeps ==
  ASSUME TypeInv, CheckpointCovers', NEW r \in Runs, pc[r] # "idle", NEW t \in 0 .. MaxTx,
         checkpoint' = [checkpoint EXCEPT ![snap[r]] = t],
         UNCHANGED <<archive, due>>, BegunSnaps' = BegunSnaps, DeclaredSnaps' = DeclaredSnaps
  PROVE  Abstract!PromiseNext
<1>0. snap[r] \in SnapIds /\ checkpoint \in [SnapIds -> 0 .. MaxTx]
  BY DEF TypeInv, TypeOK
<1>1. checkpoint'[snap[r]] = t
  BY <1>0
<1>2. \A u \in due[snap[r]] : u <= t => u \in Archived(archive[snap[r]])
  BY <1>0, <1>1 DEF CheckpointCovers
<1>3. snap[r] \in BegunSnaps
  BY <1>0 DEF BegunSnaps, Begun
<1>4. Abstract!SetMark(snap[r], t)
  BY <1>2, <1>3 DEF Abstract!SetMark, Archived, Abstract!Archived, TxIds, Abstract!TxIds
<1>. QED BY <1>0, <1>4 DEF Abstract!PromiseNext

\* A call that completes declares its snapshot, unless its reader failed.
LEMMA FinishKeeps ==
  ASSUME RInv, NEW r \in Runs, Finish(r)
  PROVE  Abstract!PromiseNext \/ UNCHANGED Abstract!promise
<1>0. /\ pc \in [Runs -> CallPcs] /\ snap \in [Runs -> SnapIds] /\ failed \in [Runs -> BOOLEAN]
      /\ pc[r] = "verify" /\ pc' = [pc EXCEPT ![r] = "complete"]
      /\ UNCHANGED <<snap, failed, archive, checkpoint, due>>
  BY DEF RInv, IInv, TypeInv, TypeOK, Finish, Goto, storeVars, readVars
<1>1. BegunSnaps' = BegunSnaps
  <2>1. \A q \in Runs : pc'[q] # "idle" <=> pc[q] # "idle"
    BY <1>0
  <2>2. \A s \in SnapIds : Begun(s)' <=> Begun(s)
    BY <1>0, <2>1 DEF Begun
  <2>. QED BY <2>2 DEF BegunSnaps
<1>2. \A q \in Runs : pc'[q] = "complete" <=> (q = r \/ pc[q] = "complete")
  BY <1>0
<1>3. CASE failed[r]
  <2>1. DeclaredSnaps' = DeclaredSnaps
    BY <1>0, <1>2, <1>3 DEF DeclaredSnaps
  <2>. QED BY <1>0, <1>1, <2>1 DEF Abstract!promise
<1>4. CASE ~failed[r]
  <2>1. DeclaredSnaps' = DeclaredSnaps \cup {snap[r]}
    BY <1>0, <1>2, <1>4 DEF DeclaredSnaps
  <2>2. due[snap[r]] \subseteq Archived(archive[snap[r]])
    BY <1>0, <1>4 DEF RInv, IInv, RunInv, EndIsCovered, Due, Kept
  <2>3. snap[r] \in BegunSnaps
    BY <1>0 DEF BegunSnaps, Begun
  <2>4. Abstract!Declare(snap[r])
    BY <1>0, <1>1, <2>1, <2>2, <2>3
    DEF Abstract!Declare, Archived, Abstract!Archived, TxIds, Abstract!TxIds
  <2>. QED BY <1>0, <2>4 DEF Abstract!PromiseNext
<1>. QED BY <1>3, <1>4

\* The first call of a snapshot begins it; a later one resumes it.
LEMMA BeginKeeps ==
  ASSUME RInv, NEW r \in Runs, BeginNew(r) \/ \E s \in SnapIds : BeginResume(r, s)
  PROVE  Abstract!PromiseNext \/ UNCHANGED Abstract!promise
<1>0. /\ pc \in [Runs -> CallPcs] /\ snap \in [Runs -> SnapIds] /\ now \in SnapIds
      /\ pc[r] = "idle" /\ pc' = [pc EXCEPT ![r] = "count"]
      /\ UNCHANGED <<failed, archive, checkpoint>>
  BY DEF RInv, IInv, TypeInv, TypeOK, SnapIds, BeginNew, BeginResume, Goto, storeVars, readVars
<1>1. ASSUME NEW s \in SnapIds, snap' = [snap EXCEPT ![r] = s]
      PROVE  BegunSnaps' = BegunSnaps \cup {s} /\ DeclaredSnaps' = DeclaredSnaps
  <2>1. \A q \in Runs : q # r => pc'[q] = pc[q] /\ snap'[q] = snap[q]
    BY <1>0, <1>1
  <2>2. pc'[r] = "count" /\ snap'[r] = s
    BY <1>0, <1>1
  <2>3. \A x \in SnapIds : Begun(x)' <=> Begun(x) \/ x = s
    BY <1>0, <2>1, <2>2 DEF Begun
  <2>. QED BY <1>0, <2>1, <2>2, <2>3 DEF BegunSnaps, DeclaredSnaps
<1>2. CASE BeginNew(r)
  <2>1. /\ BegunSnaps' = BegunSnaps \cup {now} /\ DeclaredSnaps' = DeclaredSnaps
        /\ due' = IF Begun(now) THEN due ELSE [due EXCEPT ![now] = Classed(node)]
    BY <1>0, <1>1, <1>2 DEF BeginNew
  <2>2. CASE Begun(now)
    BY <1>0, <2>1, <2>2 DEF Abstract!promise, BegunSnaps
  <2>3. CASE ~Begun(now)
    <3>1. Classed(node) \in SUBSET Abstract!TxIds /\ now \notin BegunSnaps
      BY <2>3 DEF Classed, TxIds, Abstract!TxIds, BegunSnaps
    <3>2. Abstract!BeginSnapshot(now, Classed(node))
      BY <1>0, <2>1, <2>3, <3>1 DEF Abstract!BeginSnapshot
    <3>. QED BY <1>0, <3>1, <3>2 DEF Abstract!PromiseNext
  <2>. QED BY <2>2, <2>3
<1>3. ASSUME NEW s \in SnapIds, BeginResume(r, s)
      PROVE  Abstract!PromiseNext \/ UNCHANGED Abstract!promise
  <2>1. Begun(s)
    <3>1. ASSUME NEW q \in Runs, snap[q] = s, pc[q] \in {"complete", "deadline"} PROVE Begun(s)
      BY <3>1 DEF Begun
    <3>. QED BY <1>3, <3>1 DEF BeginResume, Known, RInv, IInv, NoStrayCheckpoint, Untouched
  <2>2. BegunSnaps' = BegunSnaps /\ DeclaredSnaps' = DeclaredSnaps /\ due' = due
    BY <1>1, <1>3, <2>1 DEF BeginResume, storeVars, BegunSnaps
  <2>. QED BY <1>0, <2>2 DEF Abstract!promise
<1>. QED BY <1>2, <1>3

\* A reader whose call has completed is done: it cannot fail any more.
LEMMA FailureKeeps ==
  ASSUME RInv, NEW r \in Runs, ReaderRaises(r)
  PROVE  UNCHANGED Abstract!promise
<1>1. /\ failed \in [Runs -> BOOLEAN] /\ pc[r] # "complete"
      /\ failed' = [failed EXCEPT ![r] = TRUE]
      /\ UNCHANGED <<pc, snap, archive, checkpoint, due>>
  BY DEF RInv, IInv, TypeInv, TypeOK, ReaderIsDone, ReaderRaises, storeVars, callVars
<1>2. \A s \in SnapIds : Begun(s)' <=> Begun(s)
  BY <1>1 DEF Begun
<1>3. \A q \in Runs : q # r => failed'[q] = failed[q]
  BY <1>1
<1>. QED BY <1>1, <1>2, <1>3 DEF Abstract!promise, BegunSnaps, DeclaredSnaps

-----------------------------------------------------------------------------
(* The refinement.                                                         *)

LEMMA RefinesInit == Init => Abstract!PromiseInit
<1>. SUFFICES ASSUME Init PROVE Abstract!PromiseInit
  OBVIOUS
<1>1. BegunSnaps = {} /\ DeclaredSnaps = {}
  BY DEF Init, BegunSnaps, DeclaredSnaps, Begun
<1>. QED BY <1>1 DEF Init, Abstract!PromiseInit, NoRow, Abstract!NoRow, TxIds, Abstract!TxIds

LEMMA RefinesStep == RInv /\ RInv' /\ [Next]_vars => [Abstract!PromiseNext]_(Abstract!promise)
<1>. SUFFICES ASSUME RInv, RInv', [Next]_vars
              PROVE  Abstract!PromiseNext \/ UNCHANGED Abstract!promise
  OBVIOUS
<1>0. /\ TypeInv /\ CheckpointCovers'
      /\ pc \in [Runs -> CallPcs] /\ checkpoint \in [SnapIds -> 0 .. MaxTx]
      /\ batch \in [Runs -> Seq(Row)]
  BY DEF RInv, IInv, TypeInv, TypeOK
<1>1. CASE UNCHANGED <<archive, checkpoint, due, pc, snap, failed>>
  <2>1. \A s \in SnapIds : Begun(s)' <=> Begun(s)
    BY <1>1 DEF Begun
  <2>. QED BY <1>1, <2>1 DEF Abstract!promise, BegunSnaps, DeclaredSnaps
<1>2. ASSUME NEW r \in Runs, NEW l \in CallPcs, pc[r] # "idle", l # "idle",
             l = "complete" <=> pc[r] = "complete",
             pc' = [pc EXCEPT ![r] = l], snap' = snap, failed' = failed, due' = due,
             \/ UNCHANGED <<archive, checkpoint>>
             \/ pc[r] = "write" /\ archive' = Written(r) /\ checkpoint' = checkpoint
             \/ pc[r] = "save" /\ checkpoint' = Saved(r) /\ archive' = archive
             \/ checkpoint' = [checkpoint EXCEPT ![snap[r]] = 0] /\ archive' = archive
      PROVE  Abstract!PromiseNext \/ UNCHANGED Abstract!promise
  <2>1. BegunSnaps' = BegunSnaps /\ DeclaredSnaps' = DeclaredSnaps
    BY <1>0, <1>2, NothingDeclared
  <2>2. CASE UNCHANGED <<archive, checkpoint>>
    BY <1>2, <2>1, <2>2 DEF Abstract!promise
  <2>3. CASE pc[r] = "write" /\ archive' = Written(r) /\ checkpoint' = checkpoint
    BY <1>0, <1>2, <2>1, <2>3, WriteKeeps
  <2>4. CASE pc[r] = "save" /\ checkpoint' = Saved(r) /\ archive' = archive
    <3>1. LastTx(batch[r]) \in 0 .. MaxTx
      BY <1>0, <2>4, BatchTypes DEF TypeInv, HasBatch, TxIds
    <3>. QED BY <1>0, <1>2, <2>1, <2>4, <3>1, MarkKeeps DEF Saved
  <2>5. CASE checkpoint' = [checkpoint EXCEPT ![snap[r]] = 0] /\ archive' = archive
    <3>1. 0 \in 0 .. MaxTx
      BY HotGraphAssumption
    <3>. QED BY <1>0, <1>2, <2>1, <2>5, <3>1, MarkKeeps
  <2>. QED BY <1>2, <2>2, <2>3, <2>4, <2>5
<1>3. ASSUME NEW r \in Runs, CallStep(r) PROVE Abstract!PromiseNext \/ UNCHANGED Abstract!promise
  <2>. USE DEF Goto, CallPcs, Over, storeVars, readVars
  <2>1. CASE CountSource(r)
    BY <1>2, <2>1 DEF CountSource
  <2>2. CASE StartReader(r)
    BY <1>2, <2>2 DEF StartReader
  <2>3. CASE GetBatch(r) \/ GetNone(r)
    BY <1>2, <2>3 DEF GetBatch, GetNone
  <2>4. CASE WriteRows(r)
    BY <1>2, <2>4 DEF WriteRows
  <2>5. CASE SaveCheckpoint(r)
    BY <1>2, <2>5 DEF SaveCheckpoint
  <2>6. CASE ClearCheckpoint(r)
    BY <1>2, <2>6 DEF ClearCheckpoint
  <2>7. CASE Finish(r)
    BY <2>7, FinishKeeps
  <2>. QED BY <1>3, <2>1, <2>2, <2>3, <2>4, <2>5, <2>6, <2>7 DEF CallStep
<1>4. ASSUME NEW r \in Runs, RaiseDeadline(r) PROVE Abstract!PromiseNext \/ UNCHANGED Abstract!promise
  BY <1>2, <1>4 DEF RaiseDeadline, Goto, CallPcs, Over, storeVars, readVars
<1>5. ASSUME NEW r \in Runs, CallRaises(r) PROVE Abstract!PromiseNext \/ UNCHANGED Abstract!promise
  <2>1. /\ pc[r] \in {"count", "write", "save", "clear", "verify"}
        /\ pc' = [pc EXCEPT ![r] = "raised"] /\ snap' = snap /\ failed' = failed /\ due' = due
        /\ \/ UNCHANGED <<archive, checkpoint>>
           \/ pc[r] = "write" /\ archive' = Written(r) /\ checkpoint' = checkpoint
           \/ pc[r] = "save" /\ checkpoint' = Saved(r) /\ archive' = archive
           \/ checkpoint' = [checkpoint EXCEPT ![snap[r]] = 0] /\ archive' = archive
    BY <1>5 DEF CallRaises, Goto, readVars
  <2>. QED BY <1>2, <2>1 DEF CallPcs, Over
<1>6. ASSUME NEW r \in Runs, ProcessDies(r) PROVE Abstract!PromiseNext \/ UNCHANGED Abstract!promise
  <2>. DEFINE l == IF pc[r] \in Over THEN pc[r] ELSE "crashed"
  <2>1. /\ l \in CallPcs /\ l # "idle" /\ (l = "complete" <=> pc[r] = "complete")
        /\ pc' = [pc EXCEPT ![r] = l] /\ UNCHANGED <<snap, failed, archive, checkpoint, due>>
    BY <1>6 DEF ProcessDies, Goto, CallPcs, Over, storeVars
  <2>2. CASE pc[r] # "idle"
    BY <1>2, <2>1, <2>2
  <2>3. CASE pc[r] = "idle"
    BY <1>6, <2>3 DEF ProcessDies, Over
  <2>. QED BY <2>2, <2>3
<1>7. ASSUME NEW r \in Runs, ReaderStep(r) \/ ReaderDies(r)
      PROVE  Abstract!PromiseNext \/ UNCHANGED Abstract!promise
  BY <1>1, <1>7
  DEF ReaderStep, ReaderOpens, ReaderTakes, ReaderEnds, ReaderPuts, ReaderPutsNone, ReaderDies,
      storeVars, callVars
<1>. QED
  BY <1>1, <1>3, <1>4, <1>5, <1>6, <1>7, BeginKeeps, FailureKeeps
  DEF Next, vars, storeVars, callVars, readVars, IngestTransaction, IngestEdge, Tick

(* Whatever calls of export_snapshot do, overlapping, failing, cut short   *)
(* or resumed, what they make of the archive is what ArchivePromise        *)
(* promises.                                                               *)
THEOREM ExportKeepsPromise == Spec => KeepsPromise
<1>1. Spec => []RInv
  BY RInvInit, RInvStep, PTL DEF Spec
<1>2. RInv /\ RInv' /\ [Next]_vars => [Abstract!PromiseNext]_(Abstract!promise)
  BY RefinesStep
<1>. QED BY <1>1, <1>2, RefinesInit, PTL DEF Spec, KeepsPromise, Abstract!PromiseSpec
=============================================================================
