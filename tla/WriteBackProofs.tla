--------------------------- MODULE WriteBackProofs ---------------------------
(***************************************************************************)
(* Proofs about write_back_snapshot, for any number of calls over any      *)
(* number of snapshots, any sizes of pages, batches and queue, any live    *)
(* stream and any exports meanwhile.                                       *)
(***************************************************************************)
EXTENDS WriteBack, ArchivePromiseProofs, SequenceTheorems

LEMMA InstantsAre == \A i \in Instants \cup {0} : i \in Nat
BY ArchivePromiseAssumption

USE HotGraphAssumption, InstantsAre

-----------------------------------------------------------------------------
(* The inductive invariant.  Of a row on its way to Memgraph it matters    *)
(* that a run holds it, and not whether in the page, the unfinished batch, *)
(* the queue or the batch being written.                                   *)

RowsOf(b) == {b[i] : i \in 1 .. Len(b)}
AllRows(q) == UNION {RowsOf(q[i]) : i \in 1 .. Len(q)}

Held(r) == RowsOf(page[r]) \cup RowsOf(rbatch[r]) \cup AllRows(queue[r]) \cup RowsOf(batch[r])

OneRowEach(S) == \A v, w \in S : v.tx = w.tx => v = w

\* A row that was written has a class: both are SET together.
RowsAreWhole == \A s \in Snaps, t \in TxIds : rows[s][t].at # 0 => rows[s][t].class \in TxClass

EverHasRows == \A s \in Snaps : BackRows(s) \subseteq ever

DeclaredIsThere == \A s \in declared : owed[s] \subseteq Archived(rows[s])

\* Where a write-back left a stamp there is a class.
StampedIsClassed == \A t \in TxIds : stamp[t] # 0 => t \in Classed(node)

\* The rows a run holds are archived rows, one of a txId, and behind its cursor.
HeldIsEver(r) ==
  /\ Held(r) \subseteq ever
  /\ OneRowEach(Held(r))
  /\ \A w \in Held(r) : w.tx <= last[r]

\* What was there when the call began is still there, as it was or newer.
BaseStays(r) ==
  /\ pc[r] # "idle" => \A row \in base[r] : rows[snap[r]][row.tx].at >= row.at
  /\ whole[r] => \A t \in owed[snap[r]] : \E row \in base[r] : row.tx = t

Idle(r) ==
  /\ pc[r] = "idle" => rpc[r] = "none" /\ last[r] = 0 /\ base[r] = {} /\ ~whole[r]
  /\ pc[r] # "write" => batch[r] = << >>
  /\ stop[r] => pc[r] = "deadline"

ReaderOrder(r) ==
  /\ rpc[r] \in {"none", "fetch"} => ~short[r]
  /\ rpc[r] \in {"put", "putLast"} => rbatch[r] # << >>
  /\ rpc[r] = "putLast" => page[r] = << >> /\ short[r]

\* Only a reader that is done leaves a sentinel, and it is the last thing.
SentinelIsLast(r) ==
  \A i \in 1 .. Len(queue[r]) :
    queue[r][i] = Sentinel => rpc[r] = "exited" /\ i = Len(queue[r])

\* Applied, or a newer one was there.
Settled(row) == stamp[row.tx] >= row.at /\ row.tx \in Classed(node)

InHand(r, row) == \E w \in Held(r) : w.tx = row.tx /\ w.at >= row.at

ToRead(r, row) == rpc[r] \in {"fetch", "scan", "put"} /\ ~short[r] /\ row.tx > last[r]

\* Every row there was is applied, in somebody's hands, or ahead of the reader.
BaseIsCovered(r) ==
  /\ pc[r] \in {"loop", "write"} /\ ~failed[r] =>
       /\ \A row \in base[r] : Settled(row) \/ InHand(r, row) \/ ToRead(r, row)
       /\ rpc[r] \in {"putNone", "exited"} => page[r] = << >> /\ rbatch[r] = << >>
  /\ pc[r] = "complete" /\ ~failed[r] => \A row \in base[r] : Settled(row)

BackInv(r) ==
  /\ HeldIsEver(r)
  /\ BaseStays(r)
  /\ Idle(r)
  /\ ReaderOrder(r)
  /\ SentinelIsLast(r)
  /\ BaseIsCovered(r)

WInv ==
  /\ TypeOK
  /\ RowsAreWhole
  /\ EverHasRows
  /\ DeclaredIsThere
  /\ ClassHasItsStamp
  /\ StampedIsClassed
  /\ \A r \in Runs : BackInv(r)

-----------------------------------------------------------------------------
(* Batches, pages and queues as sets of rows.                              *)

LEMMA NoRows == << >> \in Seq(BackRow) /\ RowsOf(<< >>) = {} /\ AllRows(<< >>) = {}
<1>1. Len(<< >>) = 0 /\ << >> \in Seq(BackRow)
  OBVIOUS
<1>. QED BY <1>1 DEF RowsOf, AllRows

LEMMA RowsIn ==
  ASSUME NEW b \in Seq(BackRow)
  PROVE  RowsOf(b) \subseteq BackRow
BY ElementOfSeq DEF RowsOf

LEMMA RowsAppend ==
  ASSUME NEW b \in Seq(BackRow), NEW e \in BackRow
  PROVE  Append(b, e) \in Seq(BackRow) /\ RowsOf(Append(b, e)) = RowsOf(b) \cup {e}
<1>1. /\ Append(b, e) \in Seq(BackRow) /\ Len(Append(b, e)) = Len(b) + 1 /\ Len(b) \in Nat
      /\ \A i \in 1 .. Len(b) : Append(b, e)[i] = b[i]
      /\ Append(b, e)[Len(b) + 1] = e
  BY AppendProperties, LenProperties
<1>. QED BY <1>1 DEF RowsOf

LEMMA RowsTail ==
  ASSUME NEW b \in Seq(BackRow), b # << >>
  PROVE  /\ Head(b) \in BackRow /\ Tail(b) \in Seq(BackRow)
         /\ RowsOf(b) = {Head(b)} \cup RowsOf(Tail(b))
<1>1. /\ Head(b) \in BackRow /\ Tail(b) \in Seq(BackRow) /\ Len(Tail(b)) = Len(b) - 1
      /\ Len(b) \in Nat /\ Len(b) # 0 /\ Head(b) = b[1]
      /\ \A i \in 1 .. Len(b) - 1 : Tail(b)[i] = b[i + 1]
  BY HeadTailProperties, LenProperties, EmptySeq
<1>. DEFINE p == Tail(b)
<1>2. \A i \in 1 .. Len(p) : p[i] = b[i + 1] /\ i + 1 \in 1 .. Len(b)
  BY <1>1
<1>3. \A i \in 1 .. Len(b) : i = 1 \/ (i - 1 \in 1 .. Len(p) /\ b[i] = p[i - 1])
  BY <1>1
<1>4. 1 \in 1 .. Len(b)
  BY <1>1
<1>. HIDE DEF p
<1>5. RowsOf(b) \subseteq {Head(b)} \cup RowsOf(p)
  BY <1>1, <1>3 DEF RowsOf
<1>6. RowsOf(p) \subseteq RowsOf(b) /\ Head(b) \in RowsOf(b)
  BY <1>1, <1>2, <1>4 DEF RowsOf
<1>. QED BY <1>1, <1>5, <1>6 DEF p

LEMMA InAllRows ==
  ASSUME NEW q, NEW x
  PROVE  x \in AllRows(q) <=> \E i \in 1 .. Len(q) : x \in RowsOf(q[i])
BY DEF AllRows

LEMMA AllAppend ==
  ASSUME NEW q \in Seq(Seq(BackRow)), NEW b \in Seq(BackRow)
  PROVE  /\ Append(q, b) \in Seq(Seq(BackRow)) /\ AllRows(Append(q, b)) = AllRows(q) \cup RowsOf(b)
         /\ Len(Append(q, b)) = Len(q) + 1 /\ Len(q) \in Nat
         /\ \A i \in 1 .. Len(q) : Append(q, b)[i] = q[i]
         /\ Append(q, b)[Len(q) + 1] = b
<1>1. /\ Append(q, b) \in Seq(Seq(BackRow)) /\ Len(Append(q, b)) = Len(q) + 1 /\ Len(q) \in Nat
      /\ \A i \in 1 .. Len(q) : Append(q, b)[i] = q[i]
      /\ Append(q, b)[Len(q) + 1] = b
  BY AppendProperties, LenProperties
<1>. DEFINE p == Append(q, b)
<1>2. \A i \in 1 .. Len(p) : i = Len(q) + 1 \/ i \in 1 .. Len(q)
  BY <1>1
<1>3. \A i \in 1 .. Len(q) : i \in 1 .. Len(p)
  BY <1>1
<1>4. Len(q) + 1 \in 1 .. Len(p)
  BY <1>1
<1>. HIDE DEF p
<1>5. ASSUME NEW x PROVE x \in AllRows(p) <=> x \in AllRows(q) \/ x \in RowsOf(b)
  BY <1>1, <1>2, <1>3, <1>4, InAllRows DEF p
<1>6. AllRows(p) = AllRows(q) \cup RowsOf(b)
  BY <1>5
<1>. QED BY <1>1, <1>6 DEF p

LEMMA AllTail ==
  ASSUME NEW q \in Seq(Seq(BackRow)), q # << >>
  PROVE  /\ Head(q) \in Seq(BackRow) /\ Tail(q) \in Seq(Seq(BackRow))
         /\ AllRows(q) = RowsOf(Head(q)) \cup AllRows(Tail(q))
         /\ Len(Tail(q)) = Len(q) - 1 /\ Len(q) \in Nat /\ Len(q) # 0 /\ Head(q) = q[1]
         /\ \A i \in 1 .. Len(q) - 1 : Tail(q)[i] = q[i + 1]
<1>1. /\ Head(q) \in Seq(BackRow) /\ Tail(q) \in Seq(Seq(BackRow)) /\ Len(Tail(q)) = Len(q) - 1
      /\ Len(q) \in Nat /\ Len(q) # 0 /\ Head(q) = q[1]
      /\ \A i \in 1 .. Len(q) - 1 : Tail(q)[i] = q[i + 1]
  BY HeadTailProperties, LenProperties, EmptySeq
<1>. DEFINE p == Tail(q)
<1>2. \A i \in 1 .. Len(p) : p[i] = q[i + 1] /\ i + 1 \in 1 .. Len(q)
  BY <1>1
<1>3. \A i \in 1 .. Len(q) : i = 1 \/ (i - 1 \in 1 .. Len(p) /\ q[i] = p[i - 1])
  BY <1>1
<1>4. 1 \in 1 .. Len(q)
  BY <1>1
<1>. HIDE DEF p
<1>5. ASSUME NEW x, x \in AllRows(q) PROVE x \in RowsOf(Head(q)) \/ x \in AllRows(p)
  <2>1. PICK i \in 1 .. Len(q) : x \in RowsOf(q[i])
    BY <1>5, InAllRows
  <2>. QED BY <1>1, <1>3, <2>1, InAllRows
<1>6. ASSUME NEW x, x \in AllRows(p) PROVE x \in AllRows(q)
  <2>1. PICK i \in 1 .. Len(p) : x \in RowsOf(p[i])
    BY <1>6, InAllRows
  <2>. QED BY <1>2, <2>1, InAllRows
<1>7. RowsOf(Head(q)) \subseteq AllRows(q)
  BY <1>1, <1>4, InAllRows
<1>8. AllRows(q) = RowsOf(Head(q)) \cup AllRows(p)
  BY <1>5, <1>6, <1>7
<1>. QED BY <1>1, <1>8 DEF p

-----------------------------------------------------------------------------
(* What a batch does to Memgraph.                                          *)

\* Where the guard lets a row through, class and stamp are those of that row.
LEMMA AppliedIs ==
  ASSUME NEW r \in Runs, batch[r] \in Seq(BackRow), OneRowEach(RowsOf(batch[r]))
  PROVE  /\ Txs(batch[r]) \subseteq TxIds
         /\ Applied(r) \subseteq Txs(batch[r])
         /\ \A t \in Txs(batch[r]) : \E w \in RowsOf(batch[r]) : w.tx = t
         /\ \A w \in RowsOf(batch[r]) :
              /\ w.tx \in Txs(batch[r])
              /\ w.tx \in Applied(r) <=> Applies(w.tx, w.at)
              /\ ClassIn(batch[r], w.tx) = w.class
              /\ AtIn(batch[r], w.tx) = w.at
<1>. DEFINE b == batch[r]
<1>1. RowsOf(b) \subseteq BackRow
  BY RowsIn
<1>2. Txs(b) \subseteq TxIds
  BY <1>1 DEF Txs, RowsOf, BackRow
<1>3. ASSUME NEW w \in RowsOf(b)
      PROVE  /\ w.tx \in Txs(b)
             /\ w.tx \in Applied(r) <=> Applies(w.tx, w.at)
             /\ ClassIn(b, w.tx) = w.class
             /\ AtIn(b, w.tx) = w.at
  <2>1. PICK j \in 1 .. Len(b) : b[j] = w
    BY DEF RowsOf
  <2>2. w.tx \in Txs(b)
    BY <2>1 DEF Txs
  <2>3. \A i \in 1 .. Len(b) : b[i].tx = w.tx => b[i] = w
    BY <1>3 DEF RowsOf, OneRowEach
  <2>4. w.tx \in Applied(r) <=> Applies(w.tx, w.at)
    BY <2>1, <2>2, <2>3 DEF Applied
  <2>5. LET i == CHOOSE k \in 1 .. Len(b) : b[k].tx = w.tx IN i \in 1 .. Len(b) /\ b[i].tx = w.tx
    BY <2>1
  <2>. QED BY <2>2, <2>3, <2>4, <2>5 DEF ClassIn, AtIn
<1>4. \A t \in Txs(b) : \E w \in RowsOf(b) : w.tx = t
  BY DEF Txs, RowsOf
<1>. QED BY <1>2, <1>3, <1>4 DEF Applied
-----------------------------------------------------------------------------
(* The archive and the graph, whoever moves them.                          *)

\* Nothing in the archive gets older, and what a snapshot owes is settled.
ArchiveGrows ==
  /\ ever \subseteq ever'
  /\ owed' = owed
  /\ declared \subseteq declared'
  /\ \A s \in Snaps, t \in TxIds : rows'[s][t].at >= rows[s][t].at

ArchiveIsRight == PromiseTypeOK /\ ever \subseteq BackRow /\ RowsAreWhole /\ EverHasRows /\ DeclaredIsThere

\* No node loses its class, and no stamp goes back.
GraphGrows ==
  /\ Classed(node) \subseteq Classed(node')
  /\ \A t \in TxIds : stamp'[t] >= stamp[t]

GraphIsRight ==
  /\ node \in Graph
  /\ stamp \in [TxIds -> Instants \cup {0}]
  /\ by \in [TxIds -> {"live", "archive"}]
  /\ ClassHasItsStamp
  /\ StampedIsClassed

LEMMA RowsAre ==
  ASSUME PromiseTypeOK, RowsAreWhole, NEW s \in Snaps, NEW t \in Archived(rows[s])
  PROVE  [tx |-> t, class |-> rows[s][t].class, at |-> rows[s][t].at] \in BackRow
<1>1. t \in TxIds /\ rows[s][t].at # 0
  BY DEF Archived
<1>2. rows[s][t] \in [class : TxClass \cup {Absent}, at : Instants \cup {0}]
  BY <1>1 DEF PromiseTypeOK
<1>3. rows[s][t].at \in Instants /\ rows[s][t].class \in TxClass
  BY <1>1, <1>2 DEF RowsAreWhole
<1>. QED BY <1>1, <1>3 DEF BackRow

LEMMA DatesAre ==
  ASSUME PromiseTypeOK, NEW s \in Snaps, NEW t \in TxIds
  PROVE  rows[s][t].at \in Nat
<1>1. rows[s][t] \in [class : TxClass \cup {Absent}, at : Instants \cup {0}]
  BY DEF PromiseTypeOK
<1>2. rows[s][t].at \in Instants \cup {0}
  BY <1>1
<1>. QED BY <1>2

\* An export that writes a batch of rows, whenever it began.
LEMMA Exporting ==
  ASSUME ArchiveIsRight, NEW e \in Exports, ExportWrites(e)
  PROVE  ArchiveIsRight' /\ ArchiveGrows
<1>0. e \in [snap : Snaps, batch : Batches, at : Instants] /\ PromiseTypeOK
  BY WriteBackAssumption DEF ArchiveIsRight
<1>1. e.snap \in Snaps /\ e.batch \in Batches /\ e.at \in Instants
  BY <1>0
<1>2. /\ rows' = [rows EXCEPT ![e.snap] = Merged(@, e.batch, e.at)]
      /\ UNCHANGED <<mark, begun, owed, declared>>
  BY DEF ExportWrites, WriteSnapshot
<1>3. rows \in [Snaps -> [TxIds -> ArchiveRows]]
  BY <1>0 DEF PromiseTypeOK, ArchiveRows
<1>4. /\ rows' \in [Snaps -> [TxIds -> ArchiveRows]]
      /\ \A s \in Snaps : Archived(rows[s]) \subseteq Archived(rows'[s])
  BY <1>1, <1>2, <1>3, MergeKeeps
<1>5. PromiseTypeOK'
  BY <1>0, <1>2, <1>4 DEF PromiseTypeOK, ArchiveRows
<1>6. ASSUME NEW s \in Snaps, NEW t \in TxIds
      PROVE  /\ rows'[s][t].at >= rows[s][t].at
             /\ rows'[s][t].at # 0 => rows'[s][t].class \in TxClass
  <2>1. /\ rows[s][t] \in ArchiveRows /\ rows[s][t].at \in Nat
        /\ rows[s][t].at # 0 => rows[s][t].class \in TxClass
    BY <1>0, <1>3, DatesAre DEF ArchiveIsRight, RowsAreWhole
  <2>2. CASE s # e.snap
    BY <1>1, <1>2, <1>3, <2>1, <2>2
  <2>3. CASE s = e.snap /\ t \notin DOMAIN e.batch
    BY <1>1, <1>2, <1>3, <2>1, <2>3 DEF Merged
  <2>4. CASE s = e.snap /\ t \in DOMAIN e.batch
    <3>1. e.batch[t] \in TxClass
      BY <1>1, <2>4 DEF Batches
    <3>2. rows'[s][t] = MergeRow(rows[s][t], e.batch[t], e.at)
      BY <1>1, <1>2, <1>3, <2>4 DEF Merged
    <3>3. e.at \in Nat
      BY <1>1
    <3>. QED BY <2>1, <3>1, <3>2, <3>3 DEF MergeRow
  <2>. QED BY <2>2, <2>3, <2>4
<1>7. RowsAreWhole'
  BY <1>6 DEF RowsAreWhole
<1>8. \A s \in Snaps : BackRows(s)' \subseteq BackRow
  <2>1. ASSUME NEW s \in Snaps, NEW t \in Archived(rows'[s])
        PROVE  [tx |-> t, class |-> rows'[s][t].class, at |-> rows'[s][t].at] \in BackRow
    <3>1. t \in TxIds /\ rows'[s][t].at # 0 /\ rows'[s][t] \in ArchiveRows
      BY <1>4, <2>1 DEF Archived
    <3>2. rows'[s][t].at \in Instants /\ rows'[s][t].class \in TxClass
      BY <1>6, <3>1 DEF ArchiveRows
    <3>. QED BY <3>1, <3>2 DEF BackRow
  <2>. QED BY <2>1 DEF BackRows
<1>9. ever' = ever \cup UNION {BackRows(s)' : s \in Snaps}
  BY DEF ExportWrites
<1>10. ever' \subseteq BackRow /\ ever \subseteq ever'
  BY <1>8, <1>9 DEF ArchiveIsRight
<1>11. EverHasRows'
  BY <1>9 DEF EverHasRows
<1>12. DeclaredIsThere'
  BY <1>0, <1>2, <1>4 DEF ArchiveIsRight, DeclaredIsThere, PromiseTypeOK
<1>. QED BY <1>2, <1>5, <1>6, <1>7, <1>10, <1>11, <1>12 DEF ArchiveIsRight, ArchiveGrows

LEMMA ArchiveMoves ==
  ASSUME ArchiveIsRight, [Next]_vars
  PROVE  ArchiveIsRight' /\ ArchiveGrows
<1>1. CASE \E e \in Exports : ExportWrites(e)
  BY <1>1, Exporting
<1>2. CASE UNCHANGED archiveVars
  <2>1. ArchiveGrows
    BY <1>2, DatesAre DEF ArchiveIsRight, ArchiveGrows, archiveVars, promise
  <2>. QED
    BY <1>2, <2>1
    DEF ArchiveIsRight, PromiseTypeOK, RowsAreWhole, EverHasRows, DeclaredIsThere, BackRows,
        archiveVars, promise
<1>3. CASE \E e \in Exports : ExportCompletes(e.snap)
  <2>1. PICK s \in Snaps : ExportCompletes(s)
    BY <1>3, WriteBackAssumption
  <2>2. UNCHANGED <<rows, mark, begun, owed, ever>> /\ declared' = declared \cup {s}
        /\ owed[s] \subseteq Archived(rows[s])
    BY <2>1 DEF ExportCompletes, Declare
  <2>3. PromiseTypeOK'
    BY <2>2 DEF ArchiveIsRight, PromiseTypeOK
  <2>4. ArchiveGrows
    BY <2>2, DatesAre DEF ArchiveIsRight, ArchiveGrows
  <2>. QED
    BY <2>2, <2>3, <2>4
    DEF ArchiveIsRight, RowsAreWhole, EverHasRows, DeclaredIsThere, BackRows
<1>4. ASSUME NEW r \in Runs, CallStep(r) \/ ReaderStep(r) \/ ProcessDies(r) PROVE UNCHANGED archiveVars
  BY <1>4
  DEF CallStep, ReaderStep, ProcessDies, Begin, RaiseDeadline, GetBatch, GetNone, WriteBackBatch,
      CallRaises, FetchRow, FetchEnds, ReaderTakes, AskForMore, ReaderEnds, ReaderPuts,
      ReaderRaises, ReaderPutsNone
<1>. QED BY <1>1, <1>2, <1>3, <1>4 DEF Next, vars, IngestTransaction, IngestEdge
\* The live stream overwrites a class, or makes a node that has none.
LEMMA Ingesting ==
  ASSUME ArchiveIsRight, GraphIsRight, ever' = ever,
         (\E t \in Live, c \in TxClass : IngestTransaction(t, c))
           \/ (\E from, to \in Live : IngestEdge(from, to))
  PROVE  GraphIsRight' /\ GraphGrows
<1>0. /\ node \in Graph /\ stamp \in [TxIds -> Instants \cup {0}] /\ ever \subseteq BackRow
      /\ stamp' = stamp /\ Live \subseteq TxIds
  BY WriteBackAssumption DEF ArchiveIsRight, GraphIsRight, IngestTransaction, IngestEdge
<1>1. \A t \in TxIds : stamp[t] \in Nat
  BY <1>0
<1>2. ASSUME NEW t \in TxIds, by[t] = "archive" PROVE t \in Classed(node)
  <2>1. [tx |-> t, class |-> node[t], at |-> stamp[t]] \in BackRow
    BY <1>0, <1>2 DEF GraphIsRight, ClassHasItsStamp
  <2>. QED BY <2>1 DEF BackRow, Classed
<1>3. ASSUME NEW t \in Live, NEW c \in TxClass, IngestTransaction(t, c)
      PROVE  GraphIsRight' /\ GraphGrows
  <2>1. /\ node' \in Graph /\ by' \in [TxIds -> {"live", "archive"}]
        /\ node'[t] = c /\ by'[t] = "live"
        /\ \A u \in TxIds : u # t => node'[u] = node[u] /\ by'[u] = by[u]
    BY <1>0, <1>3 DEF IngestTransaction, UpsertTransaction, Graph, GraphIsRight
  <2>2. Classed(node) \subseteq Classed(node')
    BY <2>1 DEF Classed
  <2>3. ClassHasItsStamp'
    BY <1>0, <2>1 DEF GraphIsRight, ClassHasItsStamp
  <2>4. StampedIsClassed'
    BY <1>0, <2>2 DEF GraphIsRight, StampedIsClassed
  <2>. QED BY <1>0, <1>1, <2>1, <2>2, <2>3, <2>4 DEF GraphIsRight, GraphGrows
<1>4. ASSUME NEW from \in Live, NEW to \in Live, IngestEdge(from, to)
      PROVE  GraphIsRight' /\ GraphGrows
  <2>1. /\ node' \in Graph /\ by' = by
        /\ \A u \in Classed(node) : node'[u] = node[u]
    BY <1>0, <1>4 DEF IngestEdge, UpsertEdge, Graph, Classed
  <2>2. Classed(node) \subseteq Classed(node')
    BY <2>1 DEF Classed
  <2>3. ClassHasItsStamp'
    BY <1>0, <1>2, <2>1 DEF GraphIsRight, ClassHasItsStamp
  <2>4. StampedIsClassed'
    BY <1>0, <2>2 DEF GraphIsRight, StampedIsClassed
  <2>. QED BY <1>0, <1>1, <2>1, <2>2, <2>3, <2>4 DEF GraphIsRight, GraphGrows
<1>. QED BY <1>3, <1>4

(* A batch of archived rows: whatever the guard lets through carries its   *)
(* stamp with it, and afterwards no row of the batch is newer than the     *)
(* stamp of its node.                                                      *)
LEMMA Restoring ==
  ASSUME ArchiveIsRight, GraphIsRight, ever' = ever, NEW r \in Runs,
         batch[r] \in Seq(BackRow), RowsOf(batch[r]) \subseteq ever, OneRowEach(RowsOf(batch[r])),
         Restored(r)
  PROVE  /\ GraphIsRight' /\ GraphGrows
         /\ \A w \in RowsOf(batch[r]) : stamp'[w.tx] >= w.at /\ w.tx \in Classed(node')
<1>. DEFINE S == RowsOf(batch[r])
<1>0. /\ node \in Graph /\ stamp \in [TxIds -> Instants \cup {0}] /\ ever \subseteq BackRow
      /\ by \in [TxIds -> {"live", "archive"}]
  BY DEF ArchiveIsRight, GraphIsRight
<1>1. \A t \in TxIds : stamp[t] \in Nat
  BY <1>0
<1>2. \A w \in S : w.tx \in TxIds /\ w.class \in TxClass /\ w.at \in Instants /\ w.at \in Nat
                 /\ w = [tx |-> w.tx, class |-> w.class, at |-> w.at]
  BY <1>0 DEF BackRow
<1>3. ASSUME NEW t \in TxIds, t \in Applied(r)
      PROVE  \E w \in S : w.tx = t /\ node'[t] = w.class /\ stamp'[t] = w.at /\ by'[t] = "archive"
                        /\ w.at >= stamp[t]
  <2>1. PICK w \in S : w.tx = t
    BY <1>3, AppliedIs
  <2>2. node'[t] = w.class /\ stamp'[t] = w.at /\ by'[t] = "archive"
    BY <1>3, <2>1, AppliedIs DEF Restored
  <2>3. Applies(t, w.at)
    BY <1>3, <2>1, AppliedIs
  <2>. QED BY <1>1, <1>2, <2>1, <2>2, <2>3 DEF Applies
<1>4. ASSUME NEW t \in TxIds, t \notin Applied(r)
      PROVE  node'[t] = node[t] /\ stamp'[t] = stamp[t] /\ by'[t] = by[t]
  BY <1>4 DEF Restored
<1>5. ASSUME NEW t \in TxIds
      PROVE  /\ node'[t] \in TxClass \cup {Null, Absent} /\ stamp'[t] \in Instants \cup {0}
             /\ by'[t] \in {"live", "archive"} /\ stamp'[t] >= stamp[t]
             /\ t \in Classed(node) => t \in Classed(node')
  BY <1>0, <1>1, <1>2, <1>3, <1>4 DEF Graph, Classed
<1>6. /\ node' \in Graph /\ stamp' \in [TxIds -> Instants \cup {0}]
      /\ by' \in [TxIds -> {"live", "archive"}]
  BY <1>5 DEF Graph, Restored
<1>7. ClassHasItsStamp'
  <2>. SUFFICES ASSUME NEW t \in TxIds, by'[t] = "archive"
                PROVE  [tx |-> t, class |-> node'[t], at |-> stamp'[t]] \in ever
    BY DEF ClassHasItsStamp
  <2>1. CASE t \in Applied(r)
    <3>1. PICK w \in S : w.tx = t /\ node'[t] = w.class /\ stamp'[t] = w.at
      BY <1>3, <2>1
    <3>. QED BY <1>2, <3>1
  <2>2. CASE t \notin Applied(r)
    BY <1>4, <2>2 DEF GraphIsRight, ClassHasItsStamp
  <2>. QED BY <2>1, <2>2
<1>8. StampedIsClassed'
  <2>. SUFFICES ASSUME NEW t \in TxIds, stamp'[t] # 0 PROVE t \in Classed(node')
    BY DEF StampedIsClassed
  <2>1. CASE t \in Applied(r)
    BY <1>2, <1>3, <2>1 DEF Classed
  <2>2. CASE t \notin Applied(r)
    BY <1>4, <2>2 DEF GraphIsRight, StampedIsClassed, Classed
  <2>. QED BY <2>1, <2>2
<1>9. ASSUME NEW w \in S PROVE stamp'[w.tx] >= w.at /\ w.tx \in Classed(node')
  <2>0. w.tx \in TxIds /\ w.at \in Nat /\ stamp[w.tx] \in Nat
    BY <1>1, <1>2
  <2>1. CASE w.tx \in Applied(r)
    <3>1. stamp'[w.tx] = w.at /\ node'[w.tx] = w.class
      BY <2>0, <2>1, AppliedIs DEF Restored
    <3>. QED BY <1>2, <2>0, <3>1 DEF Classed
  <2>2. CASE w.tx \notin Applied(r)
    <3>1. stamp[w.tx] # 0 /\ stamp[w.tx] >= w.at
      BY <2>0, <2>2, AppliedIs DEF Applies
    <3>. QED BY <1>4, <1>5, <2>0, <2>2, <3>1 DEF GraphIsRight, StampedIsClassed
  <2>. QED BY <2>1, <2>2
<1>10. GraphGrows
  BY <1>5 DEF GraphGrows, Classed
<1>. QED BY <1>6, <1>7, <1>8, <1>9, <1>10 DEF GraphIsRight

LEMMA GraphMoves ==
  ASSUME WInv, [Next]_vars
  PROVE  GraphIsRight' /\ GraphGrows
<1>0. ArchiveIsRight /\ GraphIsRight
  BY DEF WInv, TypeOK, ArchiveIsRight, GraphIsRight
<1>1. CASE UNCHANGED graphVars /\ ever \subseteq ever'
  <2>1. GraphGrows
    <3>1. \A t \in TxIds : stamp[t] \in Nat
      BY <1>0 DEF GraphIsRight
    <3>. QED BY <1>1, <3>1 DEF GraphGrows, graphVars
  <2>. QED
    BY <1>0, <1>1, <2>1 DEF GraphIsRight, ClassHasItsStamp, StampedIsClassed, graphVars
<1>2. CASE (\E t \in Live, c \in TxClass : IngestTransaction(t, c))
             \/ (\E from, to \in Live : IngestEdge(from, to))
  <2>1. ever' = ever
    BY <1>2 DEF IngestTransaction, IngestEdge, archiveVars
  <2>. QED BY <1>0, <1>2, <2>1, Ingesting
<1>3. ASSUME NEW r \in Runs, Restored(r), ever' = ever PROVE GraphIsRight' /\ GraphGrows
  <2>1. batch[r] \in Seq(BackRow) /\ RowsOf(batch[r]) \subseteq Held(r) /\ HeldIsEver(r)
    BY DEF WInv, TypeOK, BackInv, Held
  <2>2. RowsOf(batch[r]) \subseteq ever /\ OneRowEach(RowsOf(batch[r]))
    BY <2>1 DEF HeldIsEver, OneRowEach
  <2>. QED BY <1>0, <1>3, <2>1, <2>2, Restoring
<1>4. ASSUME NEW r \in Runs, CallStep(r) \/ ReaderStep(r) \/ ProcessDies(r)
      PROVE  ever' = ever /\ (UNCHANGED graphVars \/ Restored(r))
  BY <1>4
  DEF CallStep, ReaderStep, ProcessDies, Begin, RaiseDeadline, GetBatch, GetNone, WriteBackBatch,
      CallRaises, FetchRow, FetchEnds, ReaderTakes, AskForMore, ReaderEnds, ReaderPuts,
      ReaderRaises, ReaderPutsNone, archiveVars
<1>5. ever \subseteq ever'
  BY <1>0, ArchiveMoves DEF ArchiveGrows
<1>. QED BY <1>1, <1>2, <1>3, <1>4, <1>5 DEF Next, vars, ExportWrites, ExportCompletes
-----------------------------------------------------------------------------
(* Types of what the runs keep for themselves.                             *)

LocalTypes ==
  /\ pc \in [Runs -> CallPcs]
  /\ snap \in [Runs -> Snaps]
  /\ batch \in [Runs -> Seq(BackRow)]
  /\ base \in [Runs -> SUBSET BackRow]
  /\ whole \in [Runs -> BOOLEAN]
  /\ rpc \in [Runs -> ReadPcs]
  /\ queue \in [Runs -> Seq(Seq(BackRow))]
  /\ stop \in [Runs -> BOOLEAN]
  /\ page \in [Runs -> Seq(BackRow)]
  /\ last \in [Runs -> 0 .. MaxTx]
  /\ short \in [Runs -> BOOLEAN]
  /\ rbatch \in [Runs -> Seq(BackRow)]
  /\ failed \in [Runs -> BOOLEAN]

LEMMA BackRowsAre ==
  ASSUME ArchiveIsRight, NEW s \in Snaps
  PROVE  BackRows(s) \subseteq BackRow
BY DEF ArchiveIsRight, EverHasRows

LEMMA LocalTypeStep ==
  ASSUME WInv, [Next]_vars
  PROVE  LocalTypes'
<1>0. LocalTypes /\ ArchiveIsRight
  BY DEF WInv, TypeOK, LocalTypes, ArchiveIsRight
<1>. USE DEF LocalTypes, Goto, ReaderGoto
<1>1. ASSUME UNCHANGED <<callVars, readVars, chanVars>> PROVE LocalTypes'
  BY <1>0, <1>1 DEF callVars, readVars, chanVars
<1>2. ASSUME NEW r \in Runs, Begin(r) PROVE LocalTypes'
  <2>1. base' \in [Runs -> SUBSET BackRow] /\ whole' \in [Runs -> BOOLEAN]
    BY <1>0, <1>2, BackRowsAre DEF Begin
  <2>2. pc' \in [Runs -> CallPcs] /\ rpc' \in [Runs -> ReadPcs]
    BY <1>0, <1>2 DEF Begin, CallPcs, ReadPcs
  <2>. QED BY <1>0, <1>2, <2>1, <2>2 DEF Begin, chanVars
<1>3. ASSUME NEW r \in Runs, RaiseDeadline(r) PROVE LocalTypes'
  <2>1. pc' \in [Runs -> CallPcs]
    BY <1>0, <1>3 DEF RaiseDeadline, CallPcs, Over
  <2>. QED BY <1>0, <1>3, <2>1 DEF RaiseDeadline, readVars
<1>4. ASSUME NEW r \in Runs, GetBatch(r) \/ GetNone(r) PROVE LocalTypes'
  <2>1. Head(queue[r]) \in Seq(BackRow) /\ Tail(queue[r]) \in Seq(Seq(BackRow))
    BY <1>0, <1>4, AllTail DEF GetBatch, GetNone
  <2>2. pc' \in [Runs -> CallPcs]
    BY <1>0, <1>4 DEF GetBatch, GetNone, CallPcs, Over
  <2>3. batch' \in [Runs -> Seq(BackRow)] /\ queue' \in [Runs -> Seq(Seq(BackRow))]
    <3>1. /\ batch' = [batch EXCEPT ![r] = Head(queue[r])] \/ batch' = batch
          /\ queue' = [queue EXCEPT ![r] = Tail(@)]
      BY <1>4 DEF GetBatch, GetNone
    <3>. QED BY <1>0, <2>1, <3>1
  <2>4. UNCHANGED <<snap, base, whole, readVars, stop>>
    BY <1>4 DEF GetBatch, GetNone
  <2>. QED BY <1>0, <2>2, <2>3, <2>4 DEF readVars
<1>5. ASSUME NEW r \in Runs, WriteBackBatch(r) \/ CallRaises(r) PROVE LocalTypes'
  <2>1. /\ pc' = [pc EXCEPT ![r] = "loop"] \/ pc' = [pc EXCEPT ![r] = "raised"]
        /\ batch' = [batch EXCEPT ![r] = << >>]
        /\ UNCHANGED <<snap, base, whole, readVars, chanVars>>
    BY <1>5 DEF WriteBackBatch, CallRaises
  <2>2. pc' \in [Runs -> CallPcs] /\ batch' \in [Runs -> Seq(BackRow)]
    BY <1>0, <2>1, NoRows DEF CallPcs, Over
  <2>. QED BY <1>0, <2>1, <2>2 DEF readVars, chanVars
<1>6. ASSUME NEW r \in Runs, ProcessDies(r) PROVE LocalTypes'
  <2>1. pc' \in [Runs -> CallPcs] /\ rpc' \in [Runs -> ReadPcs]
    BY <1>0, <1>6 DEF ProcessDies, CallPcs, ReadPcs, Over
  <2>2. /\ batch' \in [Runs -> Seq(BackRow)] /\ rbatch' \in [Runs -> Seq(BackRow)]
        /\ queue' \in [Runs -> Seq(Seq(BackRow))]
    BY <1>0, <1>6, EmptySeq DEF ProcessDies
  <2>. QED BY <1>0, <1>6, <2>1, <2>2 DEF ProcessDies
<1>7. ASSUME NEW r \in Runs, FetchRow(r) PROVE LocalTypes'
  <2>1. PICK t \in After(r) :
          /\ last' = [last EXCEPT ![r] = t]
          /\ page' = [page EXCEPT ![r] =
               Append(@, [tx |-> t, class |-> rows[snap[r]][t].class, at |-> rows[snap[r]][t].at])]
    BY <1>7 DEF FetchRow
  <2>2. t \in Archived(rows[snap[r]]) /\ t \in 0 .. MaxTx /\ snap[r] \in Snaps
    BY <1>0 DEF After, Archived, TxIds
  <2>3. [tx |-> t, class |-> rows[snap[r]][t].class, at |-> rows[snap[r]][t].at] \in BackRow
    BY <1>0, <2>2, RowsAre DEF ArchiveIsRight
  <2>4. page' \in [Runs -> Seq(BackRow)] /\ last' \in [Runs -> 0 .. MaxTx]
    BY <1>0, <2>1, <2>2, <2>3, RowsAppend
  <2>5. rpc' \in [Runs -> ReadPcs]
    BY <1>0, <1>7 DEF FetchRow, ReadPcs
  <2>. QED BY <1>0, <1>7, <2>4, <2>5 DEF FetchRow, callVars, chanVars
<1>8. ASSUME NEW r \in Runs, ReaderTakes(r) PROVE LocalTypes'
  <2>1. Head(page[r]) \in BackRow /\ Tail(page[r]) \in Seq(BackRow)
    BY <1>0, <1>8, RowsTail DEF ReaderTakes
  <2>2. Append(rbatch[r], Head(page[r])) \in Seq(BackRow)
    BY <1>0, <2>1, RowsAppend
  <2>3. page' \in [Runs -> Seq(BackRow)] /\ rbatch' \in [Runs -> Seq(BackRow)]
    BY <1>0, <1>8, <2>1, <2>2 DEF ReaderTakes
  <2>4. rpc' \in [Runs -> ReadPcs]
    <3>1. \E l \in {"putNone", "put", "scan"} : rpc' = [rpc EXCEPT ![r] = l]
      BY <1>8 DEF ReaderTakes
    <3>. QED BY <1>0, <3>1 DEF ReadPcs
  <2>. QED BY <1>0, <1>8, <2>3, <2>4 DEF ReaderTakes, callVars, chanVars
<1>9. ASSUME NEW r \in Runs, FetchEnds(r) \/ AskForMore(r) \/ ReaderEnds(r) \/ ReaderRaises(r)
      PROVE LocalTypes'
  <2>1. rpc' \in [Runs -> ReadPcs]
    BY <1>0, <1>9 DEF FetchEnds, AskForMore, ReaderEnds, ReaderRaises, ReadPcs
  <2>. QED
    BY <1>0, <1>9, <2>1 DEF FetchEnds, AskForMore, ReaderEnds, ReaderRaises, callVars, chanVars
<1>10. ASSUME NEW r \in Runs, ReaderPuts(r) \/ ReaderPutsNone(r) PROVE LocalTypes'
  <2>1. rpc' \in [Runs -> ReadPcs]
    BY <1>0, <1>10 DEF ReaderPuts, ReaderPutsNone, ReadPcs
  <2>2. /\ \E b \in {rbatch[r], Sentinel} : queue' = [queue EXCEPT ![r] = Append(@, b)]
        /\ rbatch' = [rbatch EXCEPT ![r] = << >>] \/ rbatch' = rbatch
    BY <1>10 DEF ReaderPuts, ReaderPutsNone
  <2>3. \A b \in {rbatch[r], Sentinel} : Append(queue[r], b) \in Seq(Seq(BackRow))
    BY <1>0, NoRows, AllAppend DEF Sentinel
  <2>4. queue' \in [Runs -> Seq(Seq(BackRow))] /\ rbatch' \in [Runs -> Seq(BackRow)]
    BY <1>0, <2>2, <2>3, NoRows
  <2>. QED BY <1>0, <1>10, <2>1, <2>4 DEF ReaderPuts, ReaderPutsNone, callVars
<1>. QED
  BY <1>1, <1>2, <1>3, <1>4, <1>5, <1>6, <1>7, <1>8, <1>9, <1>10
  DEF Next, CallStep, ReaderStep, vars, IngestTransaction, IngestEdge, ExportWrites, ExportCompletes
-----------------------------------------------------------------------------
(* What holds of a run when the stores move, and when it moves itself.     *)

StoresMove ==
  /\ WInv /\ ArchiveIsRight' /\ ArchiveGrows /\ GraphIsRight' /\ GraphGrows /\ LocalTypes'

locals(r) ==
  <<pc[r], snap[r], batch[r], base[r], whole[r], rpc[r], queue[r], stop[r], page[r], last[r],
    short[r], rbatch[r], failed[r]>>

LEMMA StoresDoMove ==
  ASSUME WInv, [Next]_vars
  PROVE  StoresMove
<1>1. ArchiveIsRight
  BY DEF WInv, TypeOK, ArchiveIsRight
<1>. QED BY <1>1, ArchiveMoves, GraphMoves, LocalTypeStep DEF StoresMove

\* What is settled stays so: no later write-back undoes it, nor does the live stream.
LEMMA SettledStays ==
  ASSUME StoresMove, NEW w \in BackRow, Settled(w)
  PROVE  Settled(w)'
<1>1. w.tx \in TxIds /\ w.at \in Nat
  BY DEF BackRow
<1>2. stamp[w.tx] \in Nat /\ stamp'[w.tx] \in Nat
  BY <1>1 DEF StoresMove, WInv, TypeOK, GraphIsRight
<1>3. stamp'[w.tx] >= stamp[w.tx] /\ Classed(node) \subseteq Classed(node')
  BY <1>1 DEF StoresMove, GraphGrows
<1>. QED BY <1>1, <1>2, <1>3 DEF Settled

LEMMA StillHeld ==
  ASSUME StoresMove, NEW r \in Runs, Held(r)' \subseteq Held(r), last'[r] = last[r]
  PROVE  HeldIsEver(r)'
BY DEF StoresMove, ArchiveGrows, WInv, BackInv, HeldIsEver, OneRowEach

LEMMA BaseRowsAre ==
  ASSUME StoresMove, NEW r \in Runs, NEW row \in base[r]
  PROVE  row \in BackRow /\ row.tx \in TxIds /\ row.at \in Nat /\ row.at # 0
<1>1. row \in BackRow
  BY DEF StoresMove, WInv, TypeOK
<1>. QED BY <1>1, ArchivePromiseAssumption DEF BackRow

LEMMA StillBased ==
  ASSUME StoresMove, NEW r \in Runs, pc[r] # "idle",
         UNCHANGED <<snap[r], base[r], whole[r]>>
  PROVE  BaseStays(r)'
<1>1. BaseStays(r) /\ snap[r] \in Snaps
  BY DEF StoresMove, WInv, TypeOK, BackInv
<1>2. ASSUME NEW row \in base[r] PROVE rows'[snap[r]][row.tx].at >= row.at
  <2>1. row.tx \in TxIds /\ row.at \in Nat
    BY BaseRowsAre
  <2>2. rows[snap[r]][row.tx].at \in Nat /\ rows[snap[r]][row.tx].at >= row.at
    BY <1>1, <2>1, DatesAre DEF StoresMove, WInv, TypeOK, BaseStays
  <2>3. rows'[snap[r]][row.tx].at \in Nat
    <3>1. rows' \in [Snaps -> [TxIds -> ArchiveRows]]
      BY DEF StoresMove, ArchiveIsRight, PromiseTypeOK, ArchiveRows
    <3>2. rows'[snap[r]][row.tx] \in ArchiveRows
      BY <1>1, <2>1, <3>1
    <3>3. rows'[snap[r]][row.tx].at \in Instants \cup {0}
      BY <3>2 DEF ArchiveRows
    <3>. QED BY <3>3
  <2>4. rows'[snap[r]][row.tx].at >= rows[snap[r]][row.tx].at
    BY <1>1, <2>1 DEF StoresMove, ArchiveGrows
  <2>. QED BY <2>1, <2>2, <2>3, <2>4
<1>3. owed' = owed
  BY DEF StoresMove, ArchiveGrows
<1>. QED BY <1>1, <1>2, <1>3 DEF BaseStays

(* A step keeps a run's base covered when it neither drops a row that is   *)
(* not settled nor passes over one that is still to be read.               *)
LEMMA StillCovered ==
  ASSUME StoresMove, NEW r \in Runs, base'[r] = base[r],
         failed[r] => failed'[r],
         pc'[r] \in {"loop", "write"} => pc[r] \in {"loop", "write"},
         pc'[r] = "complete" => pc[r] = "complete",
         pc[r] \in {"loop", "write"} /\ ~failed'[r] =>
           /\ \A w \in Held(r) : w \in Held(r)' \/ Settled(w)'
           /\ \A row \in base[r] : ToRead(r, row) => ToRead(r, row)' \/ InHand(r, row)'
           /\ rpc'[r] \in {"putNone", "exited"} => page'[r] = << >> /\ rbatch'[r] = << >>
  PROVE  BaseIsCovered(r)'
<1>0. BaseIsCovered(r) /\ Held(r) \subseteq ever /\ ever \subseteq BackRow
  BY DEF StoresMove, WInv, TypeOK, BackInv, HeldIsEver
<1>1. CASE pc'[r] = "complete" /\ ~failed'[r]
  BY <1>0, <1>1, SettledStays, BaseRowsAre DEF BaseIsCovered
<1>2. CASE pc'[r] \in {"loop", "write"} /\ ~failed'[r]
  <2>1. ASSUME NEW row \in base[r] PROVE Settled(row)' \/ InHand(r, row)' \/ ToRead(r, row)'
    <3>1. CASE Settled(row)
      BY <3>1, SettledStays, BaseRowsAre
    <3>2. CASE ToRead(r, row)
      BY <1>2, <3>2
    <3>3. CASE InHand(r, row)
      <4>1. PICK w \in Held(r) : w.tx = row.tx /\ w.at >= row.at
        BY <3>3 DEF InHand
      <4>2. CASE w \in Held(r)'
        BY <4>1, <4>2 DEF InHand
      <4>3. CASE Settled(w)'
        <5>1. w.at \in Nat /\ row.at \in Nat /\ w.tx \in TxIds
          BY <1>0, BaseRowsAre DEF BackRow
        <5>2. stamp'[w.tx] \in Nat
          BY <5>1 DEF StoresMove, GraphIsRight
        <5>. QED BY <4>1, <4>3, <5>1, <5>2 DEF Settled
      <4>. QED BY <1>2, <4>2, <4>3
    <3>. QED BY <1>0, <1>2, <3>1, <3>2, <3>3 DEF BaseIsCovered
  <2>. QED BY <1>2, <2>1 DEF BaseIsCovered
<1>3. CASE ~(pc'[r] \in {"loop", "write", "complete"} /\ ~failed'[r])
  BY <1>3 DEF BaseIsCovered
<1>. QED BY <1>1, <1>2, <1>3

\* A run that does not move.
LEMMA Unmoved ==
  ASSUME StoresMove, NEW r \in Runs, locals(r)' = locals(r)
  PROVE  BackInv(r)'
<1>1. UNCHANGED <<pc[r], snap[r], batch[r], base[r], whole[r], rpc[r], queue[r], stop[r], page[r],
                  last[r], short[r], rbatch[r], failed[r]>>
  BY DEF locals
<1>2. Held(r)' = Held(r)
  BY <1>1 DEF Held
<1>3. BackInv(r)
  BY DEF StoresMove, WInv
<1>4. HeldIsEver(r)'
  BY <1>1, <1>2, StillHeld
<1>5. BaseStays(r)'
  <2>1. CASE pc[r] = "idle"
    BY <1>1, <1>3, <2>1 DEF BackInv, BaseStays, Idle
  <2>. QED BY <1>1, <2>1, StillBased
<1>6. Idle(r)' /\ ReaderOrder(r)' /\ SentinelIsLast(r)'
  BY <1>1, <1>3 DEF BackInv, Idle, ReaderOrder, SentinelIsLast
<1>7. BaseIsCovered(r)'
  <2>1. \A row \in base[r] : ToRead(r, row) => ToRead(r, row)'
    BY <1>1 DEF ToRead
  <2>2. pc[r] \in {"loop", "write"} /\ ~failed'[r] =>
          (rpc'[r] \in {"putNone", "exited"} => page'[r] = << >> /\ rbatch'[r] = << >>)
    BY <1>1, <1>3 DEF BackInv, BaseIsCovered
  <2>. QED BY <1>1, <1>2, <2>1, <2>2, StillCovered
<1>. QED BY <1>4, <1>5, <1>6, <1>7 DEF BackInv
-----------------------------------------------------------------------------
(* The calling thread.                                                     *)

LEMMA RunIs ==
  ASSUME StoresMove, NEW r \in Runs
  PROVE  /\ LocalTypes /\ BackInv(r) /\ snap[r] \in Snaps
         /\ page[r] \in Seq(BackRow) /\ rbatch[r] \in Seq(BackRow) /\ batch[r] \in Seq(BackRow)
         /\ queue[r] \in Seq(Seq(BackRow))
BY DEF StoresMove, WInv, TypeOK, LocalTypes

\* The base is what the archive holds, and nothing of it has been read.
LEMMA Beginning ==
  ASSUME StoresMove, NEW r \in Runs, Begin(r)
  PROVE  BackInv(r)'
<1>0. LocalTypes /\ BackInv(r) /\ snap[r] \in Snaps
  BY RunIs
<1>1. /\ pc[r] = "idle" /\ pc'[r] = "loop" /\ rpc[r] = "none" /\ rpc'[r] = "fetch"
      /\ base'[r] = BackRows(snap[r]) /\ whole'[r] = (snap[r] \in declared)
      /\ last[r] = 0 /\ ~short[r] /\ ~stop[r] /\ batch[r] = << >>
      /\ UNCHANGED <<rows, snap, batch, page, last, short, rbatch, failed, queue, stop>>
  BY <1>0 DEF Begin, LocalTypes, Goto, ReaderGoto, BackInv, Idle, ReaderOrder, chanVars, archiveVars,
              promise
<1>2. HeldIsEver(r)'
  <2>1. Held(r)' = Held(r)
    BY <1>1 DEF Held
  <2>. QED BY <1>1, <2>1, StillHeld
<1>3. \A row \in base'[r] : /\ row.tx \in Archived(rows[snap[r]])
                            /\ row.at = rows[snap[r]][row.tx].at
  BY <1>1 DEF BackRows
<1>4. BaseStays(r)'
  <2>1. ASSUME NEW row \in base'[r] PROVE rows'[snap'[r]][row.tx].at >= row.at
    <3>1. row.tx \in TxIds /\ row.at = rows[snap[r]][row.tx].at
      BY <1>3 DEF Archived
    <3>2. row.at \in Nat
      BY <1>0, <3>1, DatesAre DEF StoresMove, ArchiveIsRight, WInv, TypeOK
    <3>. QED BY <1>1, <3>1, <3>2
  <2>2. ASSUME whole'[r], NEW t \in owed'[snap'[r]] PROVE \E row \in base'[r] : row.tx = t
    <3>1. t \in Archived(rows[snap[r]])
      BY <1>1, <2>2 DEF StoresMove, WInv, DeclaredIsThere, ArchiveGrows
    <3>2. [tx |-> t, class |-> rows[snap[r]][t].class, at |-> rows[snap[r]][t].at]
            \in BackRows(snap[r])
      BY <3>1 DEF BackRows
    <3>. QED BY <1>1, <3>2
  <2>. QED BY <2>1, <2>2 DEF BaseStays
<1>5. Idle(r)' /\ ReaderOrder(r)' /\ SentinelIsLast(r)'
  BY <1>0, <1>1 DEF BackInv, Idle, ReaderOrder, SentinelIsLast
<1>6. BaseIsCovered(r)'
  <2>1. \A row \in base'[r] : row.tx > 0
    BY <1>3 DEF Archived, TxIds
  <2>2. \A row \in base'[r] : ToRead(r, row)'
    BY <1>1, <2>1 DEF ToRead
  <2>. QED BY <1>1, <2>2 DEF BaseIsCovered
<1>. QED BY <1>2, <1>4, <1>5, <1>6 DEF BackInv

LEMMA GivingUp ==
  ASSUME StoresMove, NEW r \in Runs, RaiseDeadline(r)
  PROVE  BackInv(r)'
<1>0. LocalTypes /\ BackInv(r)
  BY RunIs
<1>1. /\ pc[r] = "loop" /\ pc'[r] = "deadline"
      /\ UNCHANGED <<snap, batch, base, whole, rpc, page, last, short, rbatch, failed, queue>>
  BY <1>0 DEF RaiseDeadline, Goto, LocalTypes, readVars
<1>2. Held(r)' = Held(r)
  BY <1>1 DEF Held
<1>3. HeldIsEver(r)' /\ BaseStays(r)'
  BY <1>1, <1>2, StillHeld, StillBased
<1>4. Idle(r)' /\ ReaderOrder(r)' /\ SentinelIsLast(r)' /\ BaseIsCovered(r)'
  BY <1>0, <1>1 DEF BackInv, Idle, ReaderOrder, SentinelIsLast, BaseIsCovered
<1>. QED BY <1>3, <1>4 DEF BackInv

\* A sentinel stays the last thing when something is taken off before it.
LEMMA SentinelStaysLast ==
  ASSUME StoresMove, NEW r \in Runs, queue[r] # << >>, queue'[r] = Tail(queue[r]), rpc'[r] = rpc[r]
  PROVE  SentinelIsLast(r)'
<1>0. SentinelIsLast(r) /\ queue[r] \in Seq(Seq(BackRow))
  BY RunIs DEF BackInv
<1>1. /\ Len(queue'[r]) = Len(queue[r]) - 1 /\ Len(queue[r]) \in Nat
      /\ \A i \in 1 .. Len(queue[r]) - 1 : queue'[r][i] = queue[r][i + 1]
  BY <1>0, AllTail
<1>2. ASSUME NEW i \in 1 .. Len(queue'[r]), queue'[r][i] = Sentinel
      PROVE  rpc'[r] = "exited" /\ i = Len(queue'[r])
  <2>1. i + 1 \in 1 .. Len(queue[r]) /\ queue[r][i + 1] = Sentinel
    BY <1>1, <1>2
  <2>. QED BY <1>0, <1>1, <2>1 DEF SentinelIsLast
<1>. QED BY <1>2 DEF SentinelIsLast

LEMMA BatchTaken ==
  ASSUME StoresMove, NEW r \in Runs, GetBatch(r)
  PROVE  BackInv(r)'
<1>0. LocalTypes /\ BackInv(r) /\ queue[r] \in Seq(Seq(BackRow))
  BY RunIs
<1>1. /\ pc[r] = "loop" /\ pc'[r] = "write" /\ queue[r] # << >>
      /\ batch'[r] = Head(queue[r]) /\ queue'[r] = Tail(queue[r]) /\ batch[r] = << >>
      /\ UNCHANGED <<snap, base, whole, rpc, page, last, short, rbatch, failed, stop>>
  BY <1>0 DEF GetBatch, Goto, LocalTypes, readVars, BackInv, Idle
<1>2. Held(r)' = Held(r)
  BY <1>0, <1>1, AllTail, NoRows DEF Held
<1>3. HeldIsEver(r)' /\ BaseStays(r)' /\ SentinelIsLast(r)'
  BY <1>1, <1>2, StillHeld, StillBased, SentinelStaysLast
<1>4. Idle(r)' /\ ReaderOrder(r)'
  BY <1>0, <1>1 DEF BackInv, Idle, ReaderOrder
<1>5. BaseIsCovered(r)'
  <2>1. \A row \in base[r] : ToRead(r, row) => ToRead(r, row)'
    BY <1>1 DEF ToRead
  <2>2. ~failed'[r] => (rpc'[r] \in {"putNone", "exited"} => page'[r] = << >> /\ rbatch'[r] = << >>)
    BY <1>0, <1>1 DEF BackInv, BaseIsCovered
  <2>. QED BY <1>1, <1>2, <2>1, <2>2, StillCovered
<1>. QED BY <1>3, <1>4, <1>5 DEF BackInv

\* Behind the sentinel of a healthy reader there is nothing, so all is settled.
LEMMA SentinelTaken ==
  ASSUME StoresMove, NEW r \in Runs, GetNone(r)
  PROVE  BackInv(r)'
<1>0. /\ LocalTypes /\ BackInv(r) /\ queue[r] \in Seq(Seq(BackRow))
  BY RunIs
<1>1. /\ pc[r] = "loop" /\ pc'[r] = "complete" /\ queue[r] # << >> /\ Head(queue[r]) = Sentinel
      /\ queue'[r] = Tail(queue[r]) /\ batch[r] = << >>
      /\ UNCHANGED <<snap, base, whole, batch, rpc, page, last, short, rbatch, failed, stop>>
  BY <1>0 DEF GetNone, Goto, LocalTypes, readVars, BackInv, Idle
<1>2. Held(r)' = Held(r)
  BY <1>0, <1>1, AllTail, NoRows DEF Held, Sentinel
<1>3. HeldIsEver(r)' /\ BaseStays(r)' /\ SentinelIsLast(r)'
  BY <1>1, <1>2, StillHeld, StillBased, SentinelStaysLast
<1>4. Idle(r)' /\ ReaderOrder(r)'
  BY <1>0, <1>1 DEF BackInv, Idle, ReaderOrder
<1>5. rpc[r] = "exited" /\ Len(queue[r]) = 1
  <2>1. 1 \in 1 .. Len(queue[r]) /\ queue[r][1] = Sentinel
    BY <1>0, <1>1, AllTail
  <2>. QED BY <1>0, <2>1 DEF BackInv, SentinelIsLast
<1>6. AllRows(Tail(queue[r])) = {}
  <2>1. Len(Tail(queue[r])) = 0
    BY <1>0, <1>1, <1>5, AllTail
  <2>2. 1 .. 0 = {}
    OBVIOUS
  <2>3. 1 .. Len(Tail(queue[r])) = {}
    BY <2>1, <2>2, Zenon
  <2>. QED BY <2>3 DEF AllRows
<1>7. BaseIsCovered(r)'
  <2>. SUFFICES ASSUME ~failed[r], NEW row \in base[r] PROVE Settled(row)'
    BY <1>1 DEF BaseIsCovered
  <2>1. page[r] = << >> /\ rbatch[r] = << >>
    BY <1>0, <1>1, <1>5 DEF BackInv, BaseIsCovered
  <2>2. Held(r) = {}
    BY <1>1, <1>2, <1>6, <2>1, NoRows DEF Held
  <2>3. ~InHand(r, row) /\ ~ToRead(r, row)
    BY <1>5, <2>2 DEF InHand, ToRead
  <2>4. Settled(row)
    BY <1>0, <1>1, <2>3 DEF BackInv, BaseIsCovered
  <2>. QED BY <2>4, SettledStays, BaseRowsAre
<1>. QED BY <1>3, <1>4, <1>7 DEF BackInv

\* What leaves the run with its batch is settled.
LEMMA BatchWritten ==
  ASSUME StoresMove, NEW r \in Runs, WriteBackBatch(r) \/ CallRaises(r)
  PROVE  BackInv(r)'
<1>0. LocalTypes /\ BackInv(r) /\ batch[r] \in Seq(BackRow) /\ HeldIsEver(r)
  BY RunIs DEF BackInv
<1>1. /\ pc[r] = "write" /\ batch'[r] = << >>
      /\ pc'[r] = "raised" \/ (pc'[r] = "loop" /\ Restored(r) /\ ever' = ever)
      /\ UNCHANGED <<snap, base, whole, rpc, page, last, short, rbatch, failed, queue, stop>>
  BY <1>0 DEF WriteBackBatch, CallRaises, Goto, LocalTypes, readVars, chanVars, archiveVars
<1>2. RowsOf(batch[r]) \subseteq Held(r) /\ Held(r) = Held(r)' \cup RowsOf(batch[r])
  BY <1>1, NoRows DEF Held
<1>3. HeldIsEver(r)' /\ BaseStays(r)'
  BY <1>1, <1>2, StillHeld, StillBased
<1>4. Idle(r)' /\ ReaderOrder(r)' /\ SentinelIsLast(r)'
  BY <1>0, <1>1 DEF BackInv, Idle, ReaderOrder, SentinelIsLast
<1>5. BaseIsCovered(r)'
  <2>1. CASE pc'[r] = "raised"
    BY <2>1 DEF BaseIsCovered
  <2>2. CASE pc'[r] = "loop" /\ Restored(r) /\ ever' = ever
    <3>1. RowsOf(batch[r]) \subseteq ever /\ OneRowEach(RowsOf(batch[r]))
      BY <1>0, <1>2 DEF HeldIsEver, OneRowEach
    <3>2. ArchiveIsRight /\ GraphIsRight
      BY DEF StoresMove, WInv, TypeOK, ArchiveIsRight, GraphIsRight
    <3>3. \A w \in RowsOf(batch[r]) : Settled(w)'
      BY <1>0, <2>2, <3>1, <3>2, Restoring DEF Settled
    <3>4. \A row \in base[r] : ToRead(r, row) => ToRead(r, row)'
      BY <1>1 DEF ToRead
    <3>5. ~failed'[r] => (rpc'[r] \in {"putNone", "exited"} => page'[r] = << >> /\ rbatch'[r] = << >>)
      BY <1>0, <1>1 DEF BackInv, BaseIsCovered
    <3>. QED BY <1>1, <1>2, <2>2, <3>3, <3>4, <3>5, StillCovered
  <2>. QED BY <1>1, <2>1, <2>2
<1>. QED BY <1>3, <1>4, <1>5 DEF BackInv

LEMMA Dying ==
  ASSUME StoresMove, NEW r \in Runs, ProcessDies(r)
  PROVE  BackInv(r)'
<1>0. LocalTypes /\ BackInv(r)
  BY RunIs
<1>1. /\ pc[r] # "idle" /\ pc'[r] = (IF pc[r] \in Over THEN pc[r] ELSE "crashed")
      /\ rpc'[r] = (IF rpc[r] \in {"none", "exited"} THEN rpc[r] ELSE "killed")
      /\ batch'[r] = << >> /\ rbatch'[r] = << >> /\ queue'[r] = << >>
      /\ UNCHANGED <<snap, base, whole, page, last, short, failed, stop>>
  BY <1>0 DEF ProcessDies, Goto, ReaderGoto, LocalTypes, Over
<1>2. Held(r)' \subseteq Held(r)
  BY <1>1, NoRows DEF Held
<1>3. HeldIsEver(r)' /\ BaseStays(r)'
  BY <1>1, <1>2, StillHeld, StillBased
<1>4. Idle(r)' /\ ReaderOrder(r)'
  BY <1>0, <1>1 DEF BackInv, Idle, ReaderOrder, Over
<1>5. SentinelIsLast(r)'
  <2>1. Len(queue'[r]) = 0
    BY <1>1
  <2>. QED BY <2>1 DEF SentinelIsLast
<1>6. BaseIsCovered(r)'
  <2>1. pc'[r] = "complete" => pc[r] = "complete"
    BY <1>1
  <2>2. ~(pc'[r] \in {"loop", "write"})
    BY <1>1 DEF Over
  <2>3. ~(pc'[r] = "complete" /\ ~failed'[r]) \/ \A row \in base'[r] : Settled(row)'
    BY <1>0, <1>1, <2>1, SettledStays, BaseRowsAre DEF BackInv, BaseIsCovered
  <2>. QED BY <2>2, <2>3 DEF BaseIsCovered
<1>. QED BY <1>3, <1>4, <1>5, <1>6 DEF BackInv
-----------------------------------------------------------------------------
(* The reader thread.                                                      *)

(* A page gets its next row.  A row of the base that was ahead is that row *)
(* or still ahead: exports leave no row out and make none older.           *)
LEMMA RowRead ==
  ASSUME StoresMove, NEW r \in Runs, FetchRow(r)
  PROVE  BackInv(r)'
<1>0. /\ LocalTypes /\ BackInv(r) /\ page[r] \in Seq(BackRow) /\ snap[r] \in Snaps
      /\ HeldIsEver(r) /\ ArchiveIsRight
  BY RunIs DEF BackInv, StoresMove, WInv, TypeOK, ArchiveIsRight
<1>. PICK t \in After(r) :
       /\ \A u \in After(r) : t <= u
       /\ last' = [last EXCEPT ![r] = t]
       /\ page' = [page EXCEPT ![r] =
            Append(@, [tx |-> t, class |-> rows[snap[r]][t].class, at |-> rows[snap[r]][t].at])]
  BY DEF FetchRow
<1>. DEFINE w == [tx |-> t, class |-> rows[snap[r]][t].class, at |-> rows[snap[r]][t].at]
<1>1. /\ t \in Archived(rows[snap[r]]) /\ t > last[r] /\ t \in TxIds
      /\ t \in 0 .. MaxTx /\ last[r] \in 0 .. MaxTx
  BY <1>0 DEF After, Archived, TxIds, LocalTypes
<1>2. w \in BackRow /\ w \in ever
  <2>1. w \in BackRows(snap[r])
    BY <1>1 DEF BackRows
  <2>. QED BY <1>0, <1>1, <2>1, RowsAre DEF ArchiveIsRight, EverHasRows
<1>3. /\ rpc[r] = "fetch" /\ rpc'[r] \in {"scan", "fetch"} /\ last'[r] = t
      /\ page'[r] = Append(page[r], w) /\ ~short[r] /\ pc[r] # "idle"
      /\ UNCHANGED <<pc, snap, batch, base, whole, short, rbatch, failed, queue, stop, ever>>
  BY <1>0
  DEF FetchRow, ReaderGoto, LocalTypes, BackInv, ReaderOrder, Idle, callVars, chanVars, archiveVars
<1>4. Held(r)' = Held(r) \cup {w}
  BY <1>0, <1>2, <1>3, RowsAppend DEF Held
<1>5. HeldIsEver(r)'
  <2>1. \A v \in Held(r) : v.tx <= last[r] /\ v \in BackRow
    BY <1>0 DEF HeldIsEver, ArchiveIsRight
  <2>2. \A v \in Held(r) : v.tx \in TxIds /\ v.tx < t
    BY <1>1, <2>1 DEF BackRow, TxIds
  <2>3. w.tx = t
    OBVIOUS
  <2>. HIDE DEF w
  <2>4. \A v \in Held(r)' : v.tx <= t
    BY <1>1, <1>4, <2>2, <2>3 DEF TxIds
  <2>5. OneRowEach(Held(r)')
    BY <1>0, <1>1, <1>4, <2>2, <2>3 DEF HeldIsEver, OneRowEach, TxIds
  <2>. QED BY <1>0, <1>2, <1>3, <1>4, <2>4, <2>5 DEF HeldIsEver, OneRowEach
<1>6. BaseStays(r)'
  BY <1>3, StillBased
<1>7. Idle(r)' /\ ReaderOrder(r)' /\ SentinelIsLast(r)'
  BY <1>0, <1>3 DEF BackInv, Idle, ReaderOrder, SentinelIsLast
<1>8. BaseIsCovered(r)'
  <2>1. ASSUME NEW row \in base[r], ToRead(r, row) PROVE ToRead(r, row)' \/ InHand(r, row)'
    <3>1. row.tx \in TxIds /\ row.at \in Nat /\ row.at # 0 /\ row.tx > last[r]
      BY <2>1, BaseRowsAre DEF ToRead
    <3>2. rows[snap[r]][row.tx].at >= row.at /\ rows[snap[r]][row.tx].at \in Nat
      BY <1>0, <1>3, <3>1, DatesAre DEF BackInv, BaseStays, ArchiveIsRight
    <3>3. row.tx \in After(r)
      BY <3>1, <3>2 DEF After, Archived
    <3>4. CASE row.tx = t
      <4>1. w.tx = row.tx /\ w.at >= row.at
        BY <3>2, <3>4
      <4>. QED BY <1>4, <4>1 DEF InHand
    <3>5. CASE row.tx # t
      <4>1. row.tx > t
        BY <1>1, <3>1, <3>3, <3>5 DEF TxIds
      <4>. QED BY <1>3, <4>1 DEF ToRead
    <3>. QED BY <3>4, <3>5
  <2>. QED BY <1>3, <1>4, <2>1, StillCovered
<1>. QED BY <1>5, <1>6, <1>7, <1>8 DEF BackInv

\* The last page ends where the archive has no row left, and so none of the base.
LEMMA PageEnds ==
  ASSUME StoresMove, NEW r \in Runs, FetchEnds(r)
  PROVE  BackInv(r)'
<1>0. LocalTypes /\ BackInv(r) /\ snap[r] \in Snaps /\ PromiseTypeOK
  BY RunIs DEF StoresMove, WInv, TypeOK
<1>1. /\ rpc[r] = "fetch" /\ rpc'[r] = "scan" /\ short'[r] /\ pc[r] # "idle" /\ After(r) = {}
      /\ UNCHANGED <<pc, snap, batch, base, whole, page, last, rbatch, failed, queue, stop>>
  BY <1>0
  DEF FetchEnds, ReaderGoto, LocalTypes, BackInv, Idle, callVars, chanVars
<1>2. Held(r)' = Held(r)
  BY <1>1 DEF Held
<1>3. HeldIsEver(r)' /\ BaseStays(r)'
  BY <1>1, <1>2, StillHeld, StillBased
<1>4. Idle(r)' /\ ReaderOrder(r)' /\ SentinelIsLast(r)'
  BY <1>0, <1>1 DEF BackInv, Idle, ReaderOrder, SentinelIsLast
<1>5. BaseIsCovered(r)'
  <2>1. ASSUME NEW row \in base[r] PROVE ~ToRead(r, row)
    <3>1. row.tx \in TxIds /\ row.at \in Nat /\ row.at # 0
      BY BaseRowsAre
    <3>2. rows[snap[r]][row.tx].at >= row.at /\ rows[snap[r]][row.tx].at \in Nat
      BY <1>0, <1>1, <3>1, DatesAre DEF BackInv, BaseStays
    <3>3. row.tx \in Archived(rows[snap[r]])
      BY <3>1, <3>2 DEF Archived
    <3>. QED BY <1>1, <3>3 DEF After, ToRead
  <2>. QED BY <1>1, <1>2, <2>1, StillCovered
<1>. QED BY <1>3, <1>4, <1>5 DEF BackInv

LEMMA RowTaken ==
  ASSUME StoresMove, NEW r \in Runs, ReaderTakes(r)
  PROVE  BackInv(r)'
<1>0. LocalTypes /\ BackInv(r) /\ page[r] \in Seq(BackRow) /\ rbatch[r] \in Seq(BackRow)
  BY RunIs
<1>1. /\ rpc[r] = "scan" /\ page[r] # << >> /\ pc[r] # "idle"
      /\ UNCHANGED <<pc, snap, batch, base, whole, last, short, failed, queue, stop>>
  BY <1>0 DEF ReaderTakes, BackInv, Idle, callVars, chanVars
<1>2. CASE stop[r]
  <2>1. rpc'[r] = "putNone" /\ UNCHANGED <<page, rbatch>> /\ pc[r] = "deadline"
    BY <1>0, <1>2 DEF ReaderTakes, ReaderGoto, LocalTypes, BackInv, Idle
  <2>2. Held(r)' = Held(r)
    BY <1>1, <2>1 DEF Held
  <2>3. HeldIsEver(r)' /\ BaseStays(r)'
    BY <1>1, <2>2, StillHeld, StillBased
  <2>4. Idle(r)' /\ ReaderOrder(r)' /\ SentinelIsLast(r)' /\ BaseIsCovered(r)'
    BY <1>0, <1>1, <2>1 DEF BackInv, Idle, ReaderOrder, SentinelIsLast, BaseIsCovered
  <2>. QED BY <2>3, <2>4 DEF BackInv
<1>3. CASE ~stop[r]
  <2>1. /\ rbatch'[r] = Append(rbatch[r], Head(page[r])) /\ page'[r] = Tail(page[r])
        /\ rpc'[r] \in {"put", "scan"}
    BY <1>0, <1>3 DEF ReaderTakes, ReaderGoto, LocalTypes
  <2>2. Held(r)' = Held(r)
    BY <1>0, <1>1, <2>1, RowsTail, RowsAppend DEF Held
  <2>3. rbatch'[r] # << >>
    BY <1>0, <1>1, <2>1, RowsTail, AppendProperties
  <2>4. HeldIsEver(r)' /\ BaseStays(r)'
    BY <1>1, <2>2, StillHeld, StillBased
  <2>5. Idle(r)' /\ ReaderOrder(r)' /\ SentinelIsLast(r)'
    BY <1>0, <1>1, <2>1, <2>3 DEF BackInv, Idle, ReaderOrder, SentinelIsLast
  <2>6. BaseIsCovered(r)'
    <3>1. \A row \in base[r] : ToRead(r, row) => ToRead(r, row)'
      BY <1>1, <2>1 DEF ToRead
    <3>. QED BY <1>1, <2>1, <2>2, <3>1, StillCovered
  <2>. QED BY <2>4, <2>5, <2>6 DEF BackInv
<1>. QED BY <1>2, <1>3

LEMMA Asking ==
  ASSUME StoresMove, NEW r \in Runs, AskForMore(r)
  PROVE  BackInv(r)'
<1>0. LocalTypes /\ BackInv(r)
  BY RunIs
<1>1. /\ rpc[r] = "scan" /\ rpc'[r] = "fetch" /\ ~short[r] /\ pc[r] # "idle"
      /\ UNCHANGED <<pc, snap, batch, base, whole, page, last, short, rbatch, failed, queue, stop>>
  BY <1>0 DEF AskForMore, ReaderGoto, LocalTypes, BackInv, Idle, callVars, chanVars
<1>2. Held(r)' = Held(r)
  BY <1>1 DEF Held
<1>3. HeldIsEver(r)' /\ BaseStays(r)'
  BY <1>1, <1>2, StillHeld, StillBased
<1>4. Idle(r)' /\ ReaderOrder(r)' /\ SentinelIsLast(r)'
  BY <1>0, <1>1 DEF BackInv, Idle, ReaderOrder, SentinelIsLast
<1>5. BaseIsCovered(r)'
  <2>1. \A row \in base[r] : ToRead(r, row) => ToRead(r, row)'
    BY <1>1 DEF ToRead
  <2>. QED BY <1>1, <1>2, <2>1, StillCovered
<1>. QED BY <1>3, <1>4, <1>5 DEF BackInv

\* The rows are read: what is left is the unfinished batch.
LEMMA RowsEnded ==
  ASSUME StoresMove, NEW r \in Runs, ReaderEnds(r)
  PROVE  BackInv(r)'
<1>0. LocalTypes /\ BackInv(r)
  BY RunIs
<1>1. /\ rpc[r] = "scan" /\ short[r] /\ pc[r] # "idle" /\ page[r] = << >>
      /\ rpc'[r] = (IF rbatch[r] # << >> /\ ~stop[r] THEN "putLast" ELSE "putNone")
      /\ UNCHANGED <<pc, snap, batch, base, whole, page, last, short, rbatch, failed, queue, stop>>
  BY <1>0 DEF ReaderEnds, ReaderGoto, LocalTypes, BackInv, Idle, callVars, chanVars
<1>2. Held(r)' = Held(r)
  BY <1>1 DEF Held
<1>3. HeldIsEver(r)' /\ BaseStays(r)'
  BY <1>1, <1>2, StillHeld, StillBased
<1>4. Idle(r)' /\ ReaderOrder(r)' /\ SentinelIsLast(r)'
  BY <1>0, <1>1 DEF BackInv, Idle, ReaderOrder, SentinelIsLast
<1>5. BaseIsCovered(r)'
  <2>1. \A row \in base[r] : ~ToRead(r, row)
    BY <1>1 DEF ToRead
  <2>2. pc[r] \in {"loop", "write"} => ~stop[r]
    BY <1>0 DEF BackInv, Idle
  <2>. QED BY <1>1, <1>2, <2>1, <2>2, StillCovered
<1>. QED BY <1>3, <1>4, <1>5 DEF BackInv

LEMMA SentinelStaysOnlyLast ==
  ASSUME StoresMove, NEW r \in Runs, NEW b \in Seq(BackRow), queue'[r] = Append(queue[r], b),
         rpc[r] # "exited", b = Sentinel => rpc'[r] = "exited"
  PROVE  SentinelIsLast(r)'
<1>0. SentinelIsLast(r) /\ queue[r] \in Seq(Seq(BackRow))
  BY RunIs DEF BackInv
<1>1. /\ Len(queue'[r]) = Len(queue[r]) + 1 /\ Len(queue[r]) \in Nat
      /\ \A i \in 1 .. Len(queue[r]) : queue'[r][i] = queue[r][i]
      /\ queue'[r][Len(queue[r]) + 1] = b
  BY <1>0, AllAppend
<1>2. ASSUME NEW i \in 1 .. Len(queue'[r]), queue'[r][i] = Sentinel
      PROVE  rpc'[r] = "exited" /\ i = Len(queue'[r])
  <2>1. CASE i \in 1 .. Len(queue[r])
    BY <1>0, <1>1, <1>2, <2>1 DEF SentinelIsLast
  <2>2. CASE i = Len(queue[r]) + 1
    BY <1>1, <1>2, <2>2
  <2>. QED BY <1>1, <2>1, <2>2
<1>. QED BY <1>2 DEF SentinelIsLast

LEMMA BatchPut ==
  ASSUME StoresMove, NEW r \in Runs, ReaderPuts(r)
  PROVE  BackInv(r)'
<1>0. /\ LocalTypes /\ BackInv(r) /\ rbatch[r] \in Seq(BackRow)
      /\ queue[r] \in Seq(Seq(BackRow))
  BY RunIs
<1>1. /\ rpc[r] \in {"put", "putLast"} /\ pc[r] # "idle" /\ rbatch[r] # << >>
      /\ rpc'[r] = (IF rpc[r] = "put" THEN "scan" ELSE "putNone")
      /\ rbatch'[r] = << >> /\ queue'[r] = Append(queue[r], rbatch[r])
      /\ UNCHANGED <<pc, snap, batch, base, whole, page, last, short, failed, stop>>
  BY <1>0 DEF ReaderPuts, ReaderGoto, LocalTypes, BackInv, Idle, ReaderOrder, callVars
<1>2. Held(r)' = Held(r)
  BY <1>0, <1>1, AllAppend, NoRows DEF Held
<1>3. HeldIsEver(r)' /\ BaseStays(r)'
  BY <1>1, <1>2, StillHeld, StillBased
<1>4. Idle(r)' /\ ReaderOrder(r)'
  BY <1>0, <1>1 DEF BackInv, Idle, ReaderOrder
<1>5. SentinelIsLast(r)'
  BY <1>0, <1>1, SentinelStaysOnlyLast DEF Sentinel
<1>6. BaseIsCovered(r)'
  <2>1. \A row \in base[r] : ToRead(r, row) => ToRead(r, row)'
    BY <1>1 DEF ToRead
  <2>2. rpc'[r] \in {"putNone", "exited"} => page'[r] = << >> /\ rbatch'[r] = << >>
    BY <1>0, <1>1 DEF BackInv, ReaderOrder
  <2>. QED BY <1>1, <1>2, <2>1, <2>2, StillCovered
<1>. QED BY <1>3, <1>4, <1>5, <1>6 DEF BackInv

LEMMA SentinelPut ==
  ASSUME StoresMove, NEW r \in Runs, ReaderPutsNone(r)
  PROVE  BackInv(r)'
<1>0. LocalTypes /\ BackInv(r) /\ queue[r] \in Seq(Seq(BackRow))
  BY RunIs
<1>1. /\ rpc[r] = "putNone" /\ pc[r] # "idle" /\ rpc'[r] = "exited"
      /\ queue'[r] = Append(queue[r], Sentinel)
      /\ UNCHANGED <<pc, snap, batch, base, whole, page, last, short, rbatch, failed, stop>>
  BY <1>0 DEF ReaderPutsNone, ReaderGoto, LocalTypes, BackInv, Idle, callVars
<1>2. Held(r)' = Held(r)
  <2>1. Sentinel \in Seq(BackRow) /\ RowsOf(Sentinel) = {}
    BY NoRows DEF Sentinel
  <2>2. AllRows(Append(queue[r], Sentinel)) = AllRows(queue[r]) \cup RowsOf(Sentinel)
    BY <1>0, <2>1, AllAppend
  <2>3. AllRows(queue'[r]) = AllRows(queue[r])
    BY <1>1, <2>1, <2>2
  <2>. QED BY <1>1, <2>3 DEF Held
<1>3. HeldIsEver(r)' /\ BaseStays(r)'
  BY <1>1, <1>2, StillHeld, StillBased
<1>4. Idle(r)' /\ ReaderOrder(r)'
  BY <1>0, <1>1 DEF BackInv, Idle, ReaderOrder
<1>5. SentinelIsLast(r)'
  BY <1>0, <1>1, NoRows, SentinelStaysOnlyLast DEF Sentinel
<1>6. BaseIsCovered(r)'
  <2>1. \A row \in base[r] : ~ToRead(r, row)
    BY <1>1 DEF ToRead
  <2>2. pc[r] \in {"loop", "write"} /\ ~failed'[r] => page'[r] = << >> /\ rbatch'[r] = << >>
    BY <1>0, <1>1 DEF BackInv, BaseIsCovered
  <2>. QED BY <1>1, <1>2, <2>1, <2>2, StillCovered
<1>. QED BY <1>3, <1>4, <1>5, <1>6 DEF BackInv

LEMMA ReadingFailed ==
  ASSUME StoresMove, NEW r \in Runs, ReaderRaises(r)
  PROVE  BackInv(r)'
<1>0. LocalTypes /\ BackInv(r)
  BY RunIs
<1>1. /\ rpc[r] = "fetch" /\ rpc'[r] = "putNone" /\ failed'[r] /\ pc[r] # "idle"
      /\ UNCHANGED <<pc, snap, batch, base, whole, page, last, short, rbatch, queue, stop>>
  BY <1>0 DEF ReaderRaises, ReaderGoto, LocalTypes, BackInv, Idle, callVars, chanVars
<1>2. Held(r)' = Held(r)
  BY <1>1 DEF Held
<1>3. HeldIsEver(r)' /\ BaseStays(r)'
  BY <1>1, <1>2, StillHeld, StillBased
<1>4. Idle(r)' /\ ReaderOrder(r)' /\ SentinelIsLast(r)' /\ BaseIsCovered(r)'
  BY <1>0, <1>1 DEF BackInv, Idle, ReaderOrder, SentinelIsLast, BaseIsCovered
<1>. QED BY <1>3, <1>4 DEF BackInv
-----------------------------------------------------------------------------
(* All together.                                                           *)

\* A step is of one run, or of none.
LEMMA Mover ==
  ASSUME StoresMove, [Next]_vars, NEW r \in Runs
  PROVE  locals(r)' = locals(r) \/ CallStep(r) \/ ReaderStep(r) \/ ProcessDies(r)
<1>0. LocalTypes
  BY RunIs
<1>1. CASE UNCHANGED <<callVars, readVars, chanVars>>
  BY <1>1 DEF callVars, readVars, chanVars, locals
<1>2. ASSUME NEW q \in Runs, q # r, CallStep(q) PROVE locals(r)' = locals(r)
  <2>1. UNCHANGED <<snap[r], rpc[r], page[r], last[r], short[r], rbatch[r], failed[r]>>
    BY <1>0, <1>2
    DEF CallStep, Begin, RaiseDeadline, GetBatch, GetNone, WriteBackBatch, CallRaises, ReaderGoto,
        LocalTypes, readVars, chanVars
  <2>2. UNCHANGED <<pc[r], batch[r], base[r], whole[r], queue[r], stop[r]>>
    BY <1>0, <1>2
    DEF CallStep, Begin, RaiseDeadline, GetBatch, GetNone, WriteBackBatch, CallRaises, Goto,
        LocalTypes, readVars, chanVars
  <2>. QED BY <2>1, <2>2 DEF locals
<1>3. ASSUME NEW q \in Runs, q # r, ReaderStep(q) PROVE locals(r)' = locals(r)
  <2>1. UNCHANGED <<callVars, stop>>
    BY <1>3
    DEF ReaderStep, FetchRow, FetchEnds, ReaderTakes, AskForMore, ReaderEnds, ReaderPuts,
        ReaderRaises, ReaderPutsNone, chanVars
  <2>2. UNCHANGED <<rpc[r], page[r], last[r], short[r], rbatch[r], failed[r], queue[r]>>
    <3>1. CASE FetchRow(q) \/ FetchEnds(q)
      BY <1>0, <1>3, <3>1 DEF FetchRow, FetchEnds, ReaderGoto, LocalTypes, chanVars
    <3>2. CASE ReaderTakes(q)
      BY <1>0, <1>3, <3>2 DEF ReaderTakes, ReaderGoto, LocalTypes, chanVars
    <3>3. CASE AskForMore(q) \/ ReaderEnds(q) \/ ReaderRaises(q)
      BY <1>0, <1>3, <3>3 DEF AskForMore, ReaderEnds, ReaderRaises, ReaderGoto, LocalTypes, chanVars
    <3>4. CASE ReaderPuts(q) \/ ReaderPutsNone(q)
      BY <1>0, <1>3, <3>4 DEF ReaderPuts, ReaderPutsNone, ReaderGoto, LocalTypes
    <3>. QED BY <1>3, <3>1, <3>2, <3>3, <3>4 DEF ReaderStep
  <2>. QED BY <2>1, <2>2 DEF locals, callVars
<1>4. ASSUME NEW q \in Runs, q # r, ProcessDies(q) PROVE locals(r)' = locals(r)
  BY <1>0, <1>4 DEF ProcessDies, Goto, ReaderGoto, LocalTypes, locals
<1>. QED
  BY <1>1, <1>2, <1>3, <1>4
  DEF Next, vars, IngestTransaction, IngestEdge, ExportWrites, ExportCompletes

LEMMA WInvInit == Init => WInv
<1>. SUFFICES ASSUME Init PROVE WInv
  OBVIOUS
<1>. PICK a \in Archives : rows = a.rows /\ owed = a.owed /\ declared = a.declared
  BY DEF Init
<1>1. /\ rows \in [Snaps -> [TxIds -> {NoRow} \cup [class : TxClass, at : Instants]]]
      /\ owed \in [Snaps -> SUBSET TxIds]
      /\ \A s \in declared : s \in Snaps /\ owed[s] \subseteq Archived(rows[s])
      /\ node \in Graph
  BY WriteBackAssumption DEF Init
<1>2. ASSUME NEW s \in Snaps, NEW t \in TxIds
      PROVE  /\ rows[s][t] \in [class : TxClass \cup {Absent}, at : Instants \cup {0}]
             /\ rows[s][t].at # 0 => rows[s][t].class \in TxClass
  <2>1. rows[s][t] = NoRow \/ rows[s][t] \in [class : TxClass, at : Instants]
    BY <1>1
  <2>. QED BY <2>1 DEF NoRow
<1>3. rows \in [Snaps -> [TxIds -> [class : TxClass \cup {Absent}, at : Instants \cup {0}]]]
  BY <1>1, <1>2
<1>4. PromiseTypeOK /\ RowsAreWhole /\ DeclaredIsThere
  BY <1>1, <1>2, <1>3 DEF Init, PromiseTypeOK, RowsAreWhole, DeclaredIsThere
<1>5. ever = UNION {BackRows(s) : s \in Snaps}
  BY DEF Init
<1>6. ASSUME NEW s \in Snaps PROVE BackRows(s) \subseteq BackRow
  BY <1>4, RowsAre DEF BackRows
<1>7. ever \subseteq BackRow /\ EverHasRows
  BY <1>5, <1>6 DEF EverHasRows
<1>8. LocalTypes
  BY NoRows, EmptySeq DEF Init, LocalTypes, CallPcs, ReadPcs
<1>9. TypeOK
  BY <1>1, <1>4, <1>7, <1>8 DEF Init, LocalTypes, TypeOK
<1>10. ClassHasItsStamp /\ StampedIsClassed
  BY DEF Init, ClassHasItsStamp, StampedIsClassed
<1>11. ASSUME NEW r \in Runs PROVE BackInv(r)
  <2>1. /\ pc[r] = "idle" /\ batch[r] = << >> /\ base[r] = {} /\ ~whole[r] /\ rpc[r] = "none"
        /\ queue[r] = << >> /\ ~stop[r] /\ page[r] = << >> /\ last[r] = 0 /\ ~short[r]
        /\ rbatch[r] = << >>
    BY DEF Init
  <2>2. Held(r) = {}
    BY <2>1, NoRows DEF Held
  <2>3. HeldIsEver(r) /\ BaseStays(r) /\ Idle(r) /\ ReaderOrder(r) /\ BaseIsCovered(r)
    BY <2>1, <2>2 DEF HeldIsEver, OneRowEach, BaseStays, Idle, ReaderOrder, BaseIsCovered
  <2>4. SentinelIsLast(r)
    BY <2>1 DEF SentinelIsLast
  <2>. QED BY <2>3, <2>4 DEF BackInv
<1>. QED BY <1>4, <1>7, <1>9, <1>10, <1>11 DEF WInv

LEMMA WInvStep == WInv /\ [Next]_vars => WInv'
<1>. SUFFICES ASSUME WInv, [Next]_vars PROVE WInv'
  OBVIOUS
<1>1. StoresMove
  BY StoresDoMove
<1>2. ASSUME NEW r \in Runs PROVE BackInv(r)'
  <2>1. CASE CallStep(r)
    BY <1>1, <2>1, Beginning, GivingUp, BatchTaken, SentinelTaken, BatchWritten DEF CallStep
  <2>2. CASE ReaderStep(r)
    BY <1>1, <2>2, RowRead, PageEnds, RowTaken, Asking, RowsEnded, BatchPut, SentinelPut, ReadingFailed
    DEF ReaderStep
  <2>. QED BY <1>1, <2>1, <2>2, Mover, Unmoved, Dying
<1>3. TypeOK'
  BY <1>1 DEF StoresMove, ArchiveIsRight, GraphIsRight, LocalTypes, TypeOK
<1>. QED BY <1>1, <1>2, <1>3 DEF StoresMove, ArchiveIsRight, GraphIsRight, WInv

LEMMA WInvHolds == Spec => []WInv
BY WInvInit, WInvStep, PTL DEF Spec

(* Every variable keeps its type: no row on its way from the archive to    *)
(* Memgraph is anything but a row with a class and a date.                 *)
THEOREM WriteBackTypeCorrect == Spec => []TypeOK
<1>1. WInv => TypeOK
  BY DEF WInv
<1>. QED BY <1>1, WInvHolds, PTL

(* A class the archive set and its archiveWrittenAt are of one archived    *)
(* row, whatever runs, exports and live writes overlap                     *)
(* (memgraph_client.py, lines 104-111).                                    *)
THEOREM ClassKeepsItsStamp == Spec => []ClassHasItsStamp
<1>1. WInv => ClassHasItsStamp
  BY DEF WInv
<1>. QED BY <1>1, WInvHolds, PTL

(* A write-back with a healthy reader that finished left out no row there  *)
(* was when it began, and what it applied stays in force.                  *)
THEOREM RestoresCover == Spec => []RestoreCovers
<1>1. WInv => RestoreCovers
  BY DEF WInv, BackInv, BaseIsCovered, Settled, RestoreCovers
<1>. QED BY <1>1, WInvHolds, PTL

(* What a complete snapshot owed is in Memgraph, with a class, when a      *)
(* write-back of it that began after its completion has finished.          *)
THEOREM CompleteComesBack == Spec => []RoundTrip
<1>1. WInv => RoundTrip
  BY DEF WInv, BackInv, BaseIsCovered, BaseStays, Settled, RoundTrip
<1>. QED BY <1>1, WInvHolds, PTL
=============================================================================
