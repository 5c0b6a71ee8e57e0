# Vigilia in TLA+

Vigilia ingests transactions over HTTP into a hot graph in Memgraph, archives
that graph to Neo4j in resumable snapshots, compares the two, writes archived
rows back when it must, and keeps trained models in a file registry. Scripts
load the graph in bulk, feed it synthetic streams and measure it. This
directory specifies those parts, checks them with TLC on small instances, and
proves the central results with TLAPS for every value of the constants.

`PROJECT.json` lists components, runs, mutants, findings, hazards and theorems,
and maps each definition to the lines it models.

## 1. Inventory

| Component | State | Operations | Speaks to |
|---|---|---|---|
| Ingest API (`api/v1/routers/ingest.py`) | requests under way | POST transaction, edge, and batches of each | hot store, by a cached factory |
| Graph store factory (`infra/graph/__init__.py`) | one cached store | `get_graph_store` | hot store |
| Hot store (`infra/graph/memgraph_client.py`) | Transaction nodes: txId, class, archiveWrittenAt; SENT_TO edges; a unique constraint | `ensure_constraints`, upserts, batch upserts, `write_back_batch`, `get_neighbors` | Memgraph |
| Archive store (`infra/graph/neo4j_client.py`) | rows by (snapshotId, txId): class, exportedAt; a checkpoint per snapshot | `write_batch`, `count_snapshot`, save/get/clear checkpoint, two paged streams | Neo4j |
| Store protocols (`domain/graph/store.py`) | none | what both stores promise | everybody |
| Snapshot export (`infra/graph/snapshot_export.py`) | per call: queue, stop event, reader thread, cursor | `export_snapshot` | both stores |
| Snapshot diff (same file) | two generators, counts, samples | `diff_snapshot` | both stores |
| Write-back (`infra/graph/write_back.py`) | per call: queue, stop event, reader thread | `write_back_snapshot` | both stores |
| Model registry (`ml/registry/`) | version directories, stage files | register, get, list, promote, get_stage | file system |
| Bulk loaders (`scripts/benchmark_*load*.py`) | per run: rows to skip, a thread pool, its batches or shards; storage mode and constraint | load all nodes, then all edges | Memgraph |
| Synthetic stream (`scripts/generate_synthetic_stream.py`) | run id, rows counted, recency window | one transaction and its edges after another | ingest API, or a store of its own |
| Endpoint benchmark (`scripts/benchmark_ingest_endpoint.py`) | phase, pool, winner, counts | three phases of batches | ingest API |
| Seeding, feature model, logging | none, or one file | run once | hot store, data set |

What is hard here, and what makes each part correct:

- **Ingestion.** Requests run in threads; the first of them each build a store;
  a client that stops waiting leaves its handler running; statements are not
  consumed, so a refusal may be answered ok; an edge makes the nodes it does
  not find. Correct means: a txId has one node, and what a client counts or
  builds on has been written.
- **Export.** Two threads share a bounded queue and a stop event; the reader's
  one query runs while the graph changes; each batch takes two store calls with
  a crash possible between them; calls on one snapshot may overlap; a deadline
  abandons the reader. Correct means: a checkpoint never runs ahead of the
  archive, complete means nothing due is missing, a row never goes back in
  time, a stalled reader cannot hang the call, and the queue cannot wedge it.
- **Diff.** Pages of two stores that both grow. Correct means: certain
  differences are reported, impossible ones are not, and nothing is counted
  twice at a page boundary.
- **Write-back.** The same two threads without a checkpoint, over pages of an
  archive that exports may be writing, and a guard that is all that orders
  overlapping calls. Correct means: class and stamp stay in step, a finished
  restore stays in force, and what a complete snapshot owed comes back.
- **Registry.** Files opened, emptied and written by several processes without
  locks. Correct means: whatever get or promote accepts is whole.
- **Bulk load.** A killed load resumes by counting what is there, while what
  was in flight may still be committed; the parts of a pool end in any order
  and may fail one by one; a pool works in a mode without rollback or
  constraint, which it may not live to leave. Correct means: a load that
  finishes has loaded every row once, and a load that would miscount cannot
  start.

## 2. Modules

| Module | Models | How |
|---|---|---|
| `HotGraph` | Memgraph's nodes, as exports and write-backs see them | a function from txId to class; `Null` for a node only an edge has mentioned, `Absent` for none |
| `Archive` | one snapshot's rows | the guarded MERGE of `write_batch` as `MergeRow`, a batch as one transaction |
| `ArchivePromise` | what `ArchiveStore` promises, and nothing of how | a snapshot is begun, owes nodes, gets batches, has a mark, is declared complete |
| `SnapshotExport` | `export_snapshot` | one run per call; `pc` for the calling thread, `rpc` for the reader; one action for each store call, queue operation or record, and for each way either thread can end |
| `SnapshotExportRefines` | that it keeps the promise | `INSTANCE ArchivePromise WITH ...`, section 5 |
| `DiffSnapshot` | `diff_snapshot` and both generators | a store is a set of txIds; one action for the start and one for the end of each page, for each `next()` and for each branch of the merge |
| `WriteBack` | `write_back_snapshot`, `write_back_batch`, `stream_snapshot_rows` | extends `ArchivePromise`: the archive it reads moves as the promise lets it; `stamp` is archiveWrittenAt; a page is read row by row |
| `ModelRegistry` | `LocalRegistry` | one action per file-system call |
| `BulkLoad` | the three loaders | one run per invocation; a part is a batch or a shard; actions for the start, sending a part, its commit, its failure, a refusal nobody sees, the end of a phase, the switch back, the constraint, a kill, and a wipe by hand |
| `IngestService` | factory, handlers, upserts | a call goes from `asked` by `building` to `ready`, `open` and its answer; a transaction MERGEs against the snapshot it began with |
| `SyntheticStream` | `generate_synthetic_stream` | one stream per process, through either sink; one action per call and per answer |
| `EndpointBenchmark` | the benchmark | one action per batch sent, answered or failed, per end of a run and of a phase |
| `Ingest` | the service with its clients | composes the three and a live source |
| `...Inv`, `...Proofs` | invariants and theorems | section 5 |
| `MC...` | instances for TLC | definitions of small constants, symmetry |

How they compose: `SnapshotExport` extends `Archive`, which extends `HotGraph`,
so every thread of every call uses one definition of each store.
`SnapshotExportRefines` shows that all an export does to the archive is a
behaviour of `ArchivePromise`; `WriteBack` then takes `ArchivePromise`'s actions
for the exports that run beside it. `Ingest` joins the service, its two clients
and a live source, whose calls are records of the one variable `calls`. To the
export and the write-back, which care for classes and not for calls, ingestion
is `IngestTransaction` and `IngestEdge`.

Names follow the code: `pc` of a run tells where in `export_snapshot` it is
(`count`, `spawn`, `loop`, `write`, `save`, `clear`, `verify`, and how it
ended), `resumeFrom`, `exportedAt`, `batch`, `queue`, `stop` are its locals, and
`view`, `rcur`, `rbatch` belong to the reader. History variables (`due`,
`failed`, `first`, `only`, `by`, `ever`, `base`, `whole`, `again`, `classed`,
`lost`) guard no action.

Decisions a reader should know:

- A txId is a number where the code compares txIds; 0 is Python's `None`. In
  the ingestion modules it is a name and an index.
- **A reader's query is not atomic.** It must return every node that was there
  when it began, may or may not return later ones, and shows each node as it
  was or as it is (`NextRecords`, `ReaderTakes`; `FetchRow` for a page of the
  archive). The module docstring of the export states the same.
- **The deadline may be found gone by at any pass of the loop.** How long a
  batch takes is not modelled.
- A store call that raises may have had its effect or not (`CallRaises`,
  `CommitUnheard`).
- `ProcessDies` ends a call and its reader at any point; what is in memory goes.
- A snapshot id to resume is one a caller can know (`Known`): reported by an
  earlier call, or visible in the archive.
- **What Memgraph and its driver do of their own accord is nondeterminism**:
  two transactions that do not see each other's node both make it unless the
  constraint is there (`Conflict`); a refusal nobody consumed may be raised or
  passed over (`Refused`), and then the rows are in `lost`. The properties of
  ingestion say "written, or lost" for that one case, since no code of the
  repository can tell.
- A request whose client timed out runs on (`TimesOut`); a restart of the API
  empties the cache and leaves open transactions to Memgraph (`Restart`).
- `ModelRegistry` lets one call at a time register a given version, because a
  version id carries the id of the training run that made it (`make_version`);
  retries after a crash, and registering a whole version again, are included.
- `BulkLoad`: the pool scripts begin only when no other load is under way, and
  LOAD CSV only on an empty graph, which they ask of their user; a full load
  may begin at any time. No txId and no edge is twice in the CSV files, as the
  data set has it. What a killed process had sent may be committed later, or
  fail. A part that raises has been applied or not, and in analytical mode,
  which has no rollback, any of its rows. Only the LOAD CSV script consumes its
  results; in the other two a refusal that comes after RUN is dropped when the
  session closes (`Refused`), the part passes for loaded, and its rows are in
  `lost` until a wipe. A run that has ended keeps no variables (`Exits`).
- A reader of the export that raises leaves its sentinel (`ReaderRaises`),
  unless it raises outside the `try`, where it makes its driver, or in the
  `finally` block before the `put`, where it closes it (`ReaderDies`). The
  reader of a write-back is given its stores and has only the `put` there.

## 3. Runs

| Run | Question | Properties | Bounds | States |
|---|---|---|---|---|
| `export_live` | do checkpoints and results mean what they say, whatever is cut short? | `TypeOK`, `CheckpointCovers`, `CompleteCovers`, `ReconciledIsExact` | 2 calls, 3 nodes, batches of 2, queue of 1, one node written live | 4.3M |
| `export_overlap` | do rows keep their newest version, and does the archive keep its promise? | `CompleteIsFresh`, `ArchiveMonotone`, `KeepsPromise` | 2 calls, 2 nodes, batches of 1, 2 instants | 0.9M |
| `export_fair` | does a call end, and its reader? | `DeadlineEnds`, `QueueDrains` | 1 call, 3 nodes | small |
| `diff` | is the diff right over moving stores? | `TypeOK`, `DiffBounds`, `CountsAreIds`, `SamplesAreLowest` | all pairs of stores over 4 txIds, pages of 2, samples of 1 | 3.6M |
| `write_back` | does the guard order write-backs, and does the archive come back whole? | `TypeOK`, `ClassHasItsStamp`, `RestoreCovers`, `RoundTrip` | 2 calls, 2 snapshots, 2 nodes, 2 classes, pages of 1, an export that writes one snapshot meanwhile | 1.6M |
| `registry` | is what is handed on whole? | `TypeOK`, `ArtifactsAreWhole`, `StagesAreWhole` | 4 calls, 2 versions, 1 stage | 0.2M |
| `bulk_load` | has a load that finishes loaded every row once, but for what was refused unseen? | `TypeOK`, `LoadedOnce`, `HolesAreAnalytical` | 3 invocations of any of the scripts, 4 node rows, 3 edge rows, batches of 2, 2 workers | 2.7M |
| `ingest` | has a txId one node, and is what clients report written? | `TypeOK`, `OneNodePerTx`, `CountedIsWritten`, `NoHollowNode`, `SentIsWritten`, `WinnerWroteAll` | 2 streams of 2 rows in 1 or 2 seconds; the benchmark with 2 sizes and 2 levels; or 3 live calls on 2 txIds; 2 faults | 1.0M |

Why these bounds are enough to meet the interesting cases: three nodes in
batches of two give a full batch, a short one and a checkpoint between them;
a queue of one place fills whenever the writer is one batch behind; a second
call overlaps the first, resumes it after a deadline, an exception or a crash,
or shares its millisecond; a node written live changes class, appears behind or
ahead of the cursor, or gains a class after an edge has made it. Two instants
date the two calls differently in either order. Four txIds in pages of two give
full last pages, short pages, empty pages and single-sided tails. In the
write-back a page ends after every row, so an export may write on either side
of `last_tx_id` between any two queries. With four registry calls a version can
be cut short, registered again, read and promoted in one behaviour. With four
nodes in batches of two, each edge needs nodes of both batches and of both
shards, three edges leave a short batch at the end, and three loads can be
killed, resumed, doubled, lose a batch that was refused unseen and be counted
by the next, or follow a pool that failed in analytical mode, with a wipe in
between. In `ingest` two streams of two rows
with a window of one push an id out of the window, share a second and hence
their txIds, and use either sink; two faults are a timeout and a late refusal,
or two restarts; three live calls on two txIds are two overlapping MERGEs and
the first request of a process that builds its store beside them.

`CHECK_DEADLOCK FALSE` is set where calls are finite and nothing else moves:
when all of them are over, the system has stopped. In `write_back`,
`export_live` and the liveness runs the live stream never stops, so
deadlock is checked there, though a live stream makes that weak; what stands
for it is `DeadlineEnds` and `QueueDrains`.

### What the code does not do

Each of these runs checks one statement of the documentation, which TLC refutes.

| Run | Statement | What happens |
|---|---|---|
| `export_failed_reader` | a snapshot needs resuming until complete is True (`CompleteMeansComplete`) | the reader's exception leaves the sentinel of a reader that is done; the call clears the checkpoint and reports complete |
| `export_abandoned_reader` | an abandoned reader exits on its own (`AbandonedReaderExits`) | it blocks in `put` on a full queue nobody takes from |
| `export_reverify` | resuming a complete snapshot exports nothing (`ResumeOfCompleteIsNoOp`) | without a checkpoint every row is written again |
| `registry_list` | `list_versions` returns the registered versions (`ListAnswers`) | one half-registered version makes it raise |

The properties that pass say `~failed[r]` where they mean a reader whose query
did not raise: that is exactly the case the first of these runs is about.

What a reconciled export proves is limited by its two counts:
`ReconciledIsExact` has the premise that the graph has no node the run did not
count. When nodes come in between, equal numbers may be of different sets, and
nothing in the repository says otherwise. In the same way `StagesAreWhole`
leaves out a version that is registered again while a promotion is between its
check and its write: that race exists, and no text rules it out.

Three smaller disagreements have no run of their own. The comment "surface any
exception now, not silently" of `benchmark_parallel_load.py`, line 80, holds for
what reaches the future; a batch that is refused after RUN does not, because
`session.run` at line 66 (and at line 76 of `benchmark_full_load.py`) is not
consumed. The load then ends like any other with rows missing, and a full load
that resumes by counting need not send them again: `LoadedOnce` and
`HolesAreAnalytical` except those rows, and the edges of such nodes, and show
that nothing else goes missing, and nothing at all from the LOAD CSV script,
which consumes. The docstring of
`get_graph_store` calls building the store a one-time cost on first use;
`BuildStore` shows several threads paying it at once, which `OneNodePerTx`
shows to be harmless. And overlapping calls may move a checkpoint back, because
`save_checkpoint` overwrites: the promise allows it, and it costs only work.

## 4. Fairness

`export_fair` runs under `FairSpec`: weak fairness of the calling thread's
steps, that is, the thread runs and its store calls return or raise. Each of
its properties adds one premise and no more:

- `DeadlineEnds` assumes `TimeRunsOut`: a loop a call stays in outlasts 60
  seconds, because `q.get` has a timeout. Nothing is assumed of the reader
  thread or of Memgraph. The code has no bound on a hang inside `write_batch`
  or `save_checkpoint`, and none is claimed.
- `QueueDrains` assumes `ReadersRunOn`: Memgraph answers or raises and the
  reader thread runs. Nothing is assumed of the deadline. A reader that died
  without its sentinel (`ReaderDies`) is excepted: nothing but the deadline
  ends that call, which is `DeadlineEnds`.

`export_abandoned_reader` runs under both kinds of thread fairness
(`HealthySpec`). A crash, an exception and the live stream are never fair.

`DeadlineEnds` holds because the poll returns; its mutant, a blocking `get`,
fails. `QueueDrains` holds because the sentinel is put in a `finally` block; its
mutant lets an exception end the thread without one, and fails.

## 5. Abstract specification and proofs

All theorems hold for any value of the constants that the named assumptions of
the modules allow: any number of calls, nodes, classes, streams, processes,
batch size, queue length and clock.

**The export** (`SnapshotExportInv`, `SnapshotExportProofs`):

- `TypeCorrect`: `Spec => []TypeOK`. Types depend on one more fact, that a
  call in `write` or `save` holds a batch that is not empty (`HasBatch`), or
  there would be no last txId to save.
- `ArchiveNeverRegresses`: `Spec => ArchiveMonotone`.
- `Invariant`: `Spec => []IInv`, and from it `CheckpointsCover`
  (`CheckpointCovers`) and `CompleteRunsCover` (`CompleteCovers`).

Neither goal is inductive: a checkpoint is right because the batch before it
was written, that batch was right because of what was ahead of it in the queue,
and the queue because of what the reader had passed. `IInv` says where every
due node is that a run will not read again, one stage at a time: up to
`resumeFrom` it is in the archive (`ResumeIsCovered`); up to the reader's cursor
it is in the archive, the call's batch, the queue or the reader's batch
(`CursorIsCovered`); up to the last txId of the i-th batch of the queue it is in
the archive, the call's batch or the first i batches (`QueueIsCovered`); up to
the call's batch it is in the archive or that batch (`BatchIsCovered`); and once
a healthy reader is done it is nowhere else (`EndIsCovered`). `SentinelIsLast`
keeps a batch from following a sentinel. Three facts tie runs together: due
nodes stay classed (`DueIsClassed`), archived rows stay (`ArchiveStep`, from the
second theorem's proof), and the shared checkpoint covers what is below it
(`CheckpointCovers`), which holds of every value any run saves and so needs
nothing of how runs interleave. The proof has a lemma for each kind of step of
the run that moves (`BatchTaken`, `RecordTaken`, `StreamEnded`, `BatchPut`,
...), a lemma that the other runs keep `RunInv` (`RunsAreApart`), and lemmas
about queues (`QueuePut`, `QueueGet`). TLC checked `IInv` before it was proved.

`CompleteRunsAreFresh` (`CompleteIsFresh`) and `ReconciledRunsAreExact`
(`ReconciledIsExact`) follow from `ExportInv`, which adds two conjuncts for each
run and one for the archive. `FreshRun` walks the same stages as `IInv`, with
"in the archive" replaced by "skipped by this run, or dated at its own export
or later" (`Fresh`): `IInv` alone would be content with the row of an older run.
It survives other runs because dates never go back (`ArchiveStep`). `ExactRun`
says that what a run counts, reads or holds is a node, and nodes are never
deleted (`NodesGrow`); with that, rows are of nodes only (`KeptAreNodes`,
`RowsComeFromBatches`), so two equal numbers are the sizes of one set inside
another, and the sets are equal (`CountsAgree`).

**The promise** (`ArchivePromiseProofs`, `SnapshotExportRefinesProofs`):

- `PromiseIsKept`: `PromiseSpec => []PromiseKept`. Whoever resumes at the mark
  of a snapshot, or reads one that was declared complete, misses nothing it
  owes, whatever is written later.
- `ExportKeepsPromise`: `Spec => KeepsPromise`. The mapping takes `archive` for
  the rows, `checkpoint` for the mark, and calls a snapshot declared when a
  call with a healthy reader returned complete. `WriteRows` maps to
  `WriteSnapshot`, `SaveCheckpoint` and `ClearCheckpoint` to `SetMark`, `Finish`
  to `Declare`; steps of readers and of the live stream are stutters. The
  guards of `SetMark` and `Declare` are what `IInv` is for; besides, `RInv`
  says that only begun snapshots have rows (`Untouched`) and that a reader
  whose sentinel was taken can no longer fail (`ReaderIsDone`).

**Ingestion** (`IngestProofs`):

- `UpsertsMakeOneNode`: `Spec => []OneNodePerTx`. The invariant
  (`StoresAreSafe`) is that nobody has a store before the constraint is there:
  a cached store, a call that is ready or open, a stream that writes through a
  store of its own.
- `StreamsCountWhatIsWritten` (`CountedIsWritten`) and `StreamsLeaveNoHollowNode`
  (`NoHollowNode`). The invariant (`WritesAreKept`) follows a row from its call
  to the window: a transaction that was answered ok is kept, in the graph or
  lost (`CallsKeep`); a stream listens to one call at a time, and that is the
  one of its row (`Listens`); so its targets, its window and its count are kept
  (`Keeps`), and with them whatever an edge under way mentions.
- `SentStaysInTheGraph` (`SentIsWritten`) and `WinnersWroteAll`
  (`WinnerWroteAll`). The invariant is `BenchInv`. The benchmark hears of each
  batch under way by one call, and of no other batch of its phases
  (`BatchesAreHeard`), so what returned is kept, by `CallsKeep`, whoever else
  writes and however late other handlers are. A level without an error has its
  rows kept up to what is under way (`LevelKeeps`), and a winner has nothing
  under way. `total_sent` is at most the number of rows that are kept and no
  longer under way (`SentCounts`): a batch that returns adds to those as many
  as to the count, since batches do not overlap (`FlightsApart`). The rest is
  about cardinalities (`SustainedRows`, `BatchCounts`).
- `IngestTypesHold`: `Spec => []TypeOK`. It needs the two invariants above and
  a third (`AllFit`): targets and window of a stream are rows it has counted,
  which is why it never joins a row to itself (`StreamFits`), and what a
  transaction saw was there, so a node with a class is there (`CallFits`).

**The registry** (`ModelRegistryProofs`): `RegistryTypeCorrect`,
`ArtifactsStayWhole`, `StagesStayWhole`. The invariant is about the order of
file operations: where metadata.json is, the weights are, and nobody is
registering (`MetaIsLast`), because the weights are there before metadata.json
is opened (`WeightsBefore`) and a version has one registrar (`OneAtATime`);
promote writes only what its get found (`PromotesWhatItGot`).

**The diff** (`DiffSnapshotProofs`): `DiffTypeCorrect`, `DiffIsBounded`
(`DiffBounds`), `CountsAreOfIds` (`CountsAreIds`), `SamplesStayLowest`
(`SamplesAreLowest`). The invariant is `DiffInv`. A page is the beginning of
what its query selects, so up to its cursor a generator has skipped no id that
was there from the start (`PagesAreCovered`) and its chunk lies beyond the id in
hand (`ChunkIsNext`). What the merge has passed on one side it has passed on the
other, or it would have been counted by mistake (`InStep`); so whatever is
passed was counted or is in the other store (`Decided`). Counts are cardinalities
of history sets, to each of which a step adds an id beyond all that are in it.

**The write-back** (`WriteBackProofs`): `WriteBackTypeCorrect`,
`ClassKeepsItsStamp` (`ClassHasItsStamp`), `RestoresCover` (`RestoreCovers`),
`CompleteComesBack` (`RoundTrip`). The invariant is `WInv`. Rows in a page, in
an unfinished batch, in the queue and in the batch being written are one set,
`Held`: rows the archive has had, one of a txId, at or before the reader's
cursor (`HeldIsEver`). Every row that was there when the call began is settled
in the graph, held, or still to read (`BaseIsCovered`), as it was or newer:
exports only make rows newer, and stamps never go back (`GraphGrows`).
`RoundTrip` needs the promise of `ArchivePromise` besides: what a declared
snapshot owes is there (`DeclaredIsThere`).

**The bulk load** (`BulkLoadProofs`): `LoadTypeCorrect`, `DoneIsLoadedOnce`
(`LoadedOnce`), `HolesKeepFullLoadsOut` (`HolesAreAnalytical`). The invariant is
`LoadInv`. Everywhere it says "in the graph", it means the rows that are, and
for the scripts that do not consume their results also the rows excused
(`Kept`): those refused unseen, and the edges of nodes refused unseen. A full
load skips as many rows as it counts. Where the rows that are there have no
holes but excused ones, that many rows from the start are there or excused
(`CountedArePrefix`): holes can make it skip too few, which MERGE forgives, never
one too many. There are no other holes whenever the mode is not analytical
(`NoGaps`), because each full load has one batch in flight, which follows on
what is kept (`FollowsOn`), also when it outlives its process, and because a
pool that fails stays analytical (`Mode`). Pools have many parts in flight, but
no other run beside them (`Alone`), and what they have sent is kept or in
flight (`Progress`). Edges need all nodes (`Behind`), where MATCH would drop
them; that a dropped edge has a lost end is why `Excused` reaches from nodes to
edges. That LOAD CSV, which has CREATE, adds no row twice is `Fresh`. TLC
checked `DiffInv`, `WInv` and `LoadInv` on the runs of their modules before
they were proved, and `BenchInv` on `ingest`.

**Only model-checked:** the two liveness properties, with the four runs that
refute a statement. Liveness under fairness, and ENABLED, which fairness is made
of, are beyond this proof system. Every invariant and every action property of
the runs that pass is a theorem.

## 6. Not modelled

Relationships and `get_neighbors`; feature properties; what a request body must
look like, and `/health`; `make_version`, a format string; the order of
`list_versions`; rates, elapsed times and row counts that only report; the index
of the LOAD CSV script; seeding, a loop of upserts that to the graph is a
synthetic stream; the fit of the feature model, linear algebra that is run once;
logging and packaging. `PROJECT.json` gives each its reason.

A write-back over a class written live since the archive was made is in the
model but is no property: the source states it as a limitation of its guard. A
write-back whose reader failed returns a result like any other; its result
claims nothing about completeness, so there is nothing to refute.

## 7. Plan

Done: the stores, the export with its proofs, its refinement of the archive's
promise, the diff, the write-back over a moving archive, the registry, the bulk
loaders with their storage modes, the ingestion service with its clients, and
the safety properties of each as theorems. What section 5 lists as only
model-checked stays so. Open: promises of the other components like the
archive's, so that those who use them could be checked against the promise
alone, as the write-back is.
