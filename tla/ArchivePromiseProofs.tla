------------------------ MODULE ArchivePromiseProofs ------------------------
(***************************************************************************)
(* The promise is kept for every archive, whatever its readers are told    *)
(* and whatever is written after.                                          *)
(***************************************************************************)
EXTENDS ArchivePromise, TLAPS

USE HotGraphAssumption, ArchivePromiseAssumption

\* Nothing is said of a snapshot before somebody begins it.
OnlyOfBegun == declared \subseteq begun /\ \A s \in Snaps : mark[s] # 0 => s \in begun

PromiseInv == PromiseTypeOK /\ PromiseKept /\ OnlyOfBegun

ArchiveRows == [class : TxClass \cup {Absent}, at : Instants \cup {0}]

\* Merging a batch keeps the rows' type and takes no row away.
LEMMA MergeKeeps ==
  ASSUME NEW old \in [TxIds -> ArchiveRows], NEW batch \in Batches, NEW at \in Instants
  PROVE  /\ Merged(old, batch, at) \in [TxIds -> ArchiveRows]
         /\ Archived(old) \subseteq Archived(Merged(old, batch, at))
<1>. DEFINE new == Merged(old, batch, at)
<1>1. ASSUME NEW t \in TxIds
      PROVE  new[t] \in ArchiveRows /\ (old[t].at # 0 => new[t].at # 0)
  <2>1. old[t] \in ArchiveRows /\ at # 0
    OBVIOUS
  <2>2. CASE t \in DOMAIN batch
    <3>1. batch[t] \in TxClass
      BY <2>2 DEF Batches
    <3>2. new[t] = MergeRow(old[t], batch[t], at)
      BY <2>2 DEF Merged
    <3>. QED BY <2>1, <3>1, <3>2 DEF MergeRow, ArchiveRows
  <2>3. CASE t \notin DOMAIN batch
    BY <2>1, <2>3 DEF Merged
  <2>. QED BY <2>2, <2>3
<1>2. new \in [TxIds -> ArchiveRows]
  BY <1>1 DEF Merged
<1>. QED BY <1>1, <1>2 DEF Archived

LEMMA PromiseInvInit == PromiseInit => PromiseInv
BY DEF PromiseInit, PromiseInv, PromiseTypeOK, PromiseKept, OnlyOfBegun, NoRow

LEMMA PromiseInvStep == PromiseInv /\ [PromiseNext]_promise => PromiseInv'
<1>. SUFFICES ASSUME PromiseInv, [PromiseNext]_promise PROVE PromiseInv'
  OBVIOUS
<1>0. PromiseTypeOK /\ rows \in [Snaps -> [TxIds -> ArchiveRows]]
  BY DEF PromiseInv, PromiseTypeOK, ArchiveRows
<1>. USE DEF PromiseInv, PromiseTypeOK, PromiseKept, OnlyOfBegun
<1>1. ASSUME NEW s \in Snaps, NEW ts \in SUBSET TxIds, BeginSnapshot(s, ts) PROVE PromiseInv'
  <2>1. /\ owed' \in [Snaps -> SUBSET TxIds] /\ begun' \subseteq Snaps
        /\ \A x \in Snaps : x # s => owed'[x] = owed[x]
    BY <1>0, <1>1 DEF BeginSnapshot
  <2>2. mark[s] = 0 /\ s \notin declared
    BY <1>1 DEF BeginSnapshot
  <2>3. \A t \in TxIds : ~(t <= 0)
    BY DEF TxIds
  <2>. QED BY <1>0, <1>1, <2>1, <2>2, <2>3 DEF BeginSnapshot
<1>2. ASSUME NEW s \in Snaps, NEW batch \in Batches, NEW at \in Instants,
             WriteSnapshot(s, batch, at)
      PROVE  PromiseInv'
  <2>1. /\ rows' \in [Snaps -> [TxIds -> ArchiveRows]]
        /\ \A x \in Snaps : Archived(rows[x]) \subseteq Archived(rows'[x])
    BY <1>0, <1>2, MergeKeeps DEF WriteSnapshot
  <2>. QED BY <1>0, <1>2, <2>1 DEF WriteSnapshot, ArchiveRows
<1>3. ASSUME NEW s \in Snaps, NEW t \in 0 .. MaxTx, SetMark(s, t) PROVE PromiseInv'
  BY <1>0, <1>3 DEF SetMark
<1>4. ASSUME NEW s \in Snaps, Declare(s) PROVE PromiseInv'
  BY <1>0, <1>4 DEF Declare
<1>5. CASE UNCHANGED promise
  BY <1>5 DEF promise
<1>. QED BY <1>1, <1>2, <1>3, <1>4, <1>5 DEF PromiseNext

(* Whoever reads the archive while exports go on may rely on what the      *)
(* protocol told him: up to a checkpoint, and in a snapshot declared       *)
(* complete, nothing owed is missing, then or later.                       *)
THEOREM PromiseIsKept == PromiseSpec => []PromiseKept
<1>1. PromiseInv => PromiseKept
  BY DEF PromiseInv
<1>. QED BY <1>1, PromiseInvInit, PromiseInvStep, PTL DEF PromiseSpec
=============================================================================
