----------------------- MODULE SnapshotExportRefines -----------------------
(***************************************************************************)
(* export_snapshot implements the archive's promise: whatever calls do,    *)
(* overlapping, cut short, resumed, the archive changes as ArchivePromise  *)
(* lets it change.  A snapshot is declared complete by a call that returns *)
(* complete=True and whose reader did not fail.                            *)
(***************************************************************************)
EXTENDS SnapshotExportInv

BegunSnaps == {s \in SnapIds : Begun(s)}

DeclaredSnaps ==
  {s \in SnapIds : \E r \in Runs : pc[r] = "complete" /\ ~failed[r] /\ snap[r] = s}

Abstract ==
  INSTANCE ArchivePromise
  WITH Snaps <- SnapIds, Instants <- Times,
       rows <- archive, mark <- checkpoint, begun <- BegunSnaps, owed <- due,
       declared <- DeclaredSnaps

(* Every step of every call, of its reader thread, of the live stream and  *)
(* of a crash is a step of the promise or changes nothing of it            *)
(* (export_snapshot and _reader_thread as a whole, lines 95-234).          *)
KeepsPromise == Abstract!PromiseSpec

-----------------------------------------------------------------------------
(* What the mapping needs besides IInv.                                    *)

\* A snapshot nobody has begun has no rows, so only a begun one is resumed.
Untouched == \A s \in SnapIds : Archived(archive[s]) # {} => Begun(s)

\* A reader whose sentinel was taken can fail no more.
ReaderIsDone ==
  \A r \in Runs :
    pc[r] \in {"clear", "verify", "complete"} => rpc[r] \in {"exited", "killed"}

RInv == IInv /\ Untouched /\ ReaderIsDone
=============================================================================
