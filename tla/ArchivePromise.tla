--------------------------- MODULE ArchivePromise ---------------------------
(***************************************************************************)
(* The archive as the ArchiveStore protocol (domain/graph/store.py)        *)
(* promises it to whoever resumes an export from it or reads a snapshot    *)
(* back: no queue, no threads, no calls, nobody who crashes.  A snapshot   *)
(* owes the nodes that were there to archive when it was begun.  Its rows  *)
(* only ever get newer, its checkpoint never passes a row it owes, and it  *)
(* is declared complete only when it owes nothing more.                    *)
(*                                                                         *)
(* SnapshotExportRefines shows that export_snapshot keeps the promise.     *)
(* WriteBack builds on it: the archive it reads changes by these steps.     *)
(***************************************************************************)
EXTENDS Archive

CONSTANTS
  Snaps,      \* snapshot ids
  Instants    \* the values exportedAt can have

ASSUME ArchivePromiseAssumption == Instants \subseteq Nat \ {0}

VARIABLES
  rows,       \* the rows of each snapshot
  mark,       \* the checkpoint of each snapshot, 0 where there is none
  begun,      \* the snapshots somebody has begun
  owed,       \* what each of them is to hold
  declared    \* the ones declared complete

promise == <<rows, mark, begun, owed, declared>>

PromiseTypeOK ==
  /\ rows \in [Snaps -> [TxIds -> [class : TxClass \cup {Absent}, at : Instants \cup {0}]]]
  /\ mark \in [Snaps -> 0 .. MaxTx]
  /\ begun \subseteq Snaps
  /\ owed \in [Snaps -> SUBSET TxIds]
  /\ declared \subseteq Snaps

PromiseInit ==
  /\ rows = [s \in Snaps |-> [t \in TxIds |-> NoRow]]
  /\ mark = [s \in Snaps |-> 0]
  /\ begun = {}
  /\ owed = [s \in Snaps |-> {}]
  /\ declared = {}

BeginSnapshot(s, ts) ==
  /\ s \notin begun
  /\ begun' = begun \cup {s}
  /\ owed' = [owed EXCEPT ![s] = ts]
  /\ UNCHANGED <<rows, mark, declared>>

\* A batch as write_batch sees it: a class for each txId it names.
Batches == UNION {[ts -> TxClass] : ts \in SUBSET TxIds}

Merged(old, batch, at) ==
  [t \in TxIds |-> IF t \in DOMAIN batch THEN MergeRow(old[t], batch[t], at) ELSE old[t]]

\* Rows may be written after the snapshot was declared complete.
WriteSnapshot(s, batch, at) ==
  /\ s \in begun
  /\ rows' = [rows EXCEPT ![s] = Merged(@, batch, at)]
  /\ UNCHANGED <<mark, begun, owed, declared>>

\* The checkpoint may move either way, and 0 clears it.
SetMark(s, t) ==
  /\ s \in begun
  /\ \A u \in owed[s] : u <= t => u \in Archived(rows[s])
  /\ mark' = [mark EXCEPT ![s] = t]
  /\ UNCHANGED <<rows, begun, owed, declared>>

Declare(s) ==
  /\ s \in begun
  /\ owed[s] \subseteq Archived(rows[s])
  /\ declared' = declared \cup {s}
  /\ UNCHANGED <<rows, mark, begun, owed>>

PromiseNext ==
  \E s \in Snaps :
    \/ \E ts \in SUBSET TxIds : BeginSnapshot(s, ts)
    \/ \E batch \in Batches, at \in Instants : WriteSnapshot(s, batch, at)
    \/ \E t \in 0 .. MaxTx : SetMark(s, t)
    \/ Declare(s)

PromiseSpec == PromiseInit /\ [][PromiseNext]_promise

-----------------------------------------------------------------------------
(* What a reader of the archive may rely on (store.py, lines 56-60, 86-91  *)
(* and 99-103): a resume point and a completion, once given, stay true,    *)
(* whatever is written after them.                                         *)
PromiseKept ==
  \A s \in Snaps :
    /\ \A t \in owed[s] : t <= mark[s] => t \in Archived(rows[s])
    /\ s \in declared => owed[s] \subseteq Archived(rows[s])
=============================================================================
