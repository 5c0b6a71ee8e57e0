-------------------------- MODULE SnapshotExportInv --------------------------
(***************************************************************************)
(* The inductive invariant of SnapshotExport, in named parts: where, at    *)
(* every point of a run, each due node is that the run will not read       *)
(* again.  CheckpointCovers and CompleteCovers follow from it.  ExportInv  *)
(* adds how fresh rows are and which nodes they are of, and CompleteIsFresh *)
(* and ReconciledIsExact follow.                                           *)
(***************************************************************************)
EXTENDS SnapshotExport

Due(r) == due[snap[r]]

Kept(r) == Archived(archive[snap[r]])

\* The txIds of the first i batches of a queue, and of all of it.
TxsUpTo(q, i) == UNION {Txs(q[j]) : j \in 1 .. i}
AllTxs(q) == TxsUpTo(q, Len(q))

\* Taken off the queue or already written.
Taken(r) == Kept(r) \cup Txs(batch[r])

\* Anywhere between the archive and the queue's tail.
Handed(r) == Taken(r) \cup AllTxs(queue[r])

Reading == {"scan", "put", "putLast"}

-----------------------------------------------------------------------------
(* What types depend on: an empty batch has no last txId to save.          *)

HasBatch == \A r \in Runs : pc[r] \in {"write", "save"} => batch[r] # << >>

TypeInv == TypeOK /\ HasBatch

-----------------------------------------------------------------------------
(* Facts about the stores.                                                 *)

\* A due node keeps a class: the live stream never takes one away.
DueIsClassed == \A s \in SnapIds : due[s] \subseteq Classed(node)

\* A snapshot nobody has begun has no checkpoint.
NoStrayCheckpoint == \A s \in SnapIds : checkpoint[s] # 0 => Begun(s)

-----------------------------------------------------------------------------
(* Facts about one run.                                                    *)

BeforeReader(r) ==
  /\ pc[r] \in {"idle", "count", "spawn"} => rpc[r] = "none" /\ queue[r] = << >>
  /\ pc[r] = "idle" => resumeFrom[r] = 0
  /\ pc[r] \notin {"write", "save", "raised"} => batch[r] = << >>
  /\ rpc[r] \in {"none", "open"} => rbatch[r] = << >>
  /\ stop[r] => pc[r] = "deadline"

\* Only a reader that is done leaves a sentinel, and it is the last thing.
SentinelIsLast(r) ==
  \A i \in 1 .. Len(queue[r]) :
    queue[r][i] = Sentinel => rpc[r] = "exited" /\ i = Len(queue[r])

ResumeIsCovered(r) ==
  \A t \in Due(r) : t <= resumeFrom[r] => t \in Kept(r)

\* The reader has passed no due node that is not in somebody's hands.
CursorIsCovered(r) ==
  /\ rpc[r] \in Reading => Due(r) \subseteq Classed(view[r])
  /\ rpc[r] \in Reading =>
       \A t \in Due(r) : t <= rcur[r] => t \in Handed(r) \cup Txs(rbatch[r])
  /\ rbatch[r] # << >> => LastTx(rbatch[r]) <= rcur[r]
  /\ rpc[r] \in {"put", "putLast"} => rbatch[r] # << >>

\* Up to its last txId, a batch and what went before it leave nothing out.
QueueIsCovered(r) ==
  \A i \in 1 .. Len(queue[r]) :
    queue[r][i] # Sentinel =>
      \A t \in Due(r) :
        t <= LastTx(queue[r][i]) => t \in Taken(r) \cup TxsUpTo(queue[r], i)

BatchIsCovered(r) ==
  /\ pc[r] \in {"write", "save"} =>
       \A t \in Due(r) : t <= LastTx(batch[r]) => t \in Taken(r)
  /\ pc[r] = "save" => Txs(batch[r]) \subseteq Kept(r)

\* A healthy reader that has read everything has handed over everything.
EndIsCovered(r) ==
  /\ rpc[r] = "putLast" => Due(r) \subseteq Handed(r) \cup Txs(rbatch[r])
  /\ pc[r] \in {"loop", "write", "save"} /\ rpc[r] \in {"putNone", "exited"} /\ ~failed[r]
       => Due(r) \subseteq Handed(r)
  /\ pc[r] \in {"clear", "verify", "complete"} /\ ~failed[r] => Due(r) \subseteq Kept(r)

\* All that RunInv says of a run, the stores apart.
locals(r) ==
  <<pc[r], snap[r], resumeFrom[r], batch[r], rpc[r], view[r], rcur[r], rbatch[r],
    failed[r], queue[r], stop[r]>>

RunInv(r) ==
  /\ BeforeReader(r)
  /\ SentinelIsLast(r)
  /\ ResumeIsCovered(r)
  /\ CursorIsCovered(r)
  /\ QueueIsCovered(r)
  /\ BatchIsCovered(r)
  /\ EndIsCovered(r)

IInv ==
  /\ TypeInv
  /\ DueIsClassed
  /\ NoStrayCheckpoint
  /\ CheckpointCovers
  /\ \A r \in Runs : RunInv(r)

-----------------------------------------------------------------------------
(* How fresh the rows are, and which nodes they are of.                    *)

\* Skipped by r, or dated no earlier than r's own export.
Fresh(r) ==
  {t \in TxIds : t <= resumeFrom[r] \/ archive[snap[r]][t].at >= exportedAt[r]}

FreshOrHanded(r) == Fresh(r) \cup Txs(batch[r]) \cup AllTxs(queue[r])

\* What r has read and not written is fresh once it is.
FreshRun(r) ==
  /\ rpc[r] \in Reading =>
       \A t \in Due(r) : t <= rcur[r] => t \in FreshOrHanded(r) \cup Txs(rbatch[r])
  /\ rpc[r] = "putLast" => Due(r) \subseteq FreshOrHanded(r) \cup Txs(rbatch[r])
  /\ pc[r] = "save" => Txs(batch[r]) \subseteq Fresh(r)
  /\ pc[r] \in {"loop", "write", "save"} /\ rpc[r] \in {"putNone", "exited"} /\ ~failed[r]
       => Due(r) \subseteq FreshOrHanded(r)
  /\ pc[r] \in {"clear", "verify", "complete"} /\ ~failed[r] => Due(r) \subseteq Fresh(r)

\* Whatever r counts, reads or holds is a node and stays one, and when its
\* two counts agree and no node has come since, no node it counted is missing.
ExactRun(r) ==
  /\ counted[r] \subseteq Nodes(node)
  /\ Txs(batch[r]) \cup AllTxs(queue[r]) \cup Txs(rbatch[r]) \subseteq Nodes(node)
  /\ reconciled[r] => pc[r] = "complete"
  /\ reconciled[r] /\ Nodes(node) = counted[r] => counted[r] \subseteq Kept(r)

KeptAreNodes == \A s \in SnapIds : Archived(archive[s]) \subseteq Nodes(node)

ExportInv ==
  /\ IInv
  /\ KeptAreNodes
  /\ \A r \in Runs : FreshRun(r) /\ ExactRun(r)
=============================================================================
