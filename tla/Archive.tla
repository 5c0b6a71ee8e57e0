------------------------------- MODULE Archive -------------------------------
(***************************************************************************)
(* The cold store: the ArchivedTransaction nodes Neo4jArchiveStore         *)
(* (infra/graph/neo4j_client.py) writes.  The rows of one snapshot are a   *)
(* function of the txId, which the composite uniqueness constraint on      *)
(* (snapshotId, txId) makes them; at is exportedAt, and 0 is the NULL of a *)
(* row nobody has written.                                                 *)
(***************************************************************************)
EXTENDS HotGraph, Sequences

\* What an exporter hands to write_batch, exported_at apart.
Row == [tx : TxIds, class : TxClass]

Txs(batch) == {batch[i].tx : i \in 1 .. Len(batch)}

LastTx(batch) == batch[Len(batch)].tx

ClassIn(batch, t) ==
  LET i == CHOOSE j \in 1 .. Len(batch) : batch[j].tx = t IN batch[i].class

NoRow == [class |-> Absent, at |-> 0]

Archived(rows) == {t \in TxIds : rows[t].at # 0}

\* Mutant: SET whatever exportedAt the row has.
MergeRow_Blind(old, class, at) == [class |-> class, at |-> at]

(* MERGE on the composite key, then SET under                              *)
(* "t.exportedAt IS NULL OR row.exportedAt >= t.exportedAt".               *)
MergeRow(old, class, at) ==
  IF old.at = 0 \/ at >= old.at THEN [class |-> class, at |-> at] ELSE old

(* One UNWIND over the batch, in one transaction.  A batch never names a   *)
(* txId twice: it is a stretch of a stream in strictly ascending order.    *)
WriteBatch(rows, batch, at) ==
  [t \in TxIds |-> IF t \in Txs(batch)
                   THEN MergeRow(rows[t], ClassIn(batch, t), at)
                   ELSE rows[t]]
=============================================================================
