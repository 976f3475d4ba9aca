# The context-graph layer in TLA+

This directory holds the verification project of `cj-mills/cjm-context-graph-layer`:
TLA+ modules of its core, TLC runs over small instances, and theorems TLAPS checks
for every value of the constants. Paths below are relative to
`src/cjm_context_graph_layer/`.

## The system

A workflow's knowledge is a graph of nodes and edges kept in a graph store. The
store is a *disposable projection*: the source of truth is a journal family next to
it. Every write is appended to the journal, then applied to the store through the
handler a replay would use, then the store's *applied cursor* advances.

| part | state | operations | what makes it correct |
|---|---|---|---|
| write order (`journal.py`) | journal, cursor, graph, family lock, op clock | `journal_extend`, `journal_op`, `write_window`, unit windows | the db is its journal's projection at every crash point; a unit lands whole or not at all; a verb plans on the whole journal |
| replay (`journal.py`, called by `rebuild.py`) | a db, its cursor, one reading of the family, batches | `replay_journal`, `_replay_records`, `apply_wires` | the stamped cursor never stands past a record the db does not hold; no record is skipped |
| genesis export (`journal.py`) | journal | `genesis_export` | one complete baseline, from which a replay alone rebuilds the db |
| handler registries (`journal.py`) | per process: the composition it keeps | `composed_replay_handlers`, `installed_handlers`, `workflow_handlers` | no verb silently dropped; a declared core's record is applied by that core's handler, in every process |
| storage door and extend (`ops.py`) | graph, op clock, write observer | `graph_task`, `plan_extend`, `extend_graph`, `GraphCursorStore` | emit if absent, verify if present, stamps are the op's time |
| compaction (`compact.py`) | segments, archive, manifest, cursor | `plan_compaction`, `move_compaction`, `compact_family` | at every crash point a replay of the family gives the db's graph; nothing is lost |
| rebuild and adopt (`rebuild.py`) | live and scratch db | `rebuild_db`, `diff_dbs`, `adopt_db` | a db takes its journal's end for cursor only if it is the journal's projection up to a named drop list |
| graph diff (`graphdiff.py`) | two streams | `merge_sorted`, attribution, `diff_graphs` | every difference is in exactly one bucket |
| spine edits (`edits.py`) | decisions in the graph, superseded and never changed | `resolve_active`, `project_effective_spine` | the latest decisions that stand are what is seen; a moved word is neither lost nor repeated |
| grammar, identity, declarations | none | constants, hashed ids | same emission, same id |
| in-memory store (`testing.py`) | nodes, edges, cursors | `MemGraph` | stands for the store in the tests |
| crash proof harness (`testing.py`) | a run's journal and db, child processes | `crash_variants`, `run_proof` | passes exactly the verbs that survive every boundary |

How they interact: a core's verb opens a window (`write_window`), which opens the
family's `JournalWriter` (package `cjm_context_graph_primitives`, external): it takes
the family's lock, seals off what a cut-short append left, and applies every record
past the cursor (the heal). The verb then plans through `plan_extend` and lands its
op; the writer applies it by `apply_op`, which dispatches to a handler that calls
`extend_graph`, `update_node` or `delete_nodes` through `graph_task`. `replay_journal`
runs the same `apply_op` per record. Compaction runs inside an open writer; adoption
replays into a scratch db and diffs it with the live one.

What is hard: several processes on one family; a crash between any two steps of
append, apply, advance, and between the two storage calls of one extend; an append of
several ops cut short; plans made on a stale db; the op clock read before the lock;
replay beside live writers, with a cursor read before the lock; a move of records
under a cursor; exports side by side, which take no lock; processes whose environments
hold different cores; decisions that arrive after later ones and supersede each other.
`PROJECT.json` lists each at its line, with the properties that would catch it, or with the
part of it that no run meets and why: most often because the property is false of the code
there, as the configurations under Findings show.

## Modules

| module | models | how |
|---|---|---|
| `GraphStore` | `MemGraph._run`, `plan_extend`, `extend_graph`, `stamp_op_time`, `apply_op` | constant operators only; a graph is two functions from ids to rows or `Absent` |
| `SerialGestures` | the promise of `write_window` | abstract specification: gestures one at a time, planned on the graph of all earlier ones |
| `WriteOrder` | `graph_writer`, `journal_extend`, `journal_op`, `write_window`, `_unit_window`, with `JournalWriter` as they use it | one action per step between two awaits; `Crash` before any step |
| `Replay` | `replay_journal`, `_replay_records`, beside live gestures | one action per await; live gestures are those of `SerialGestures`, of one op |
| `Compaction` | `compact_family`, `plan_compaction`, `move_compaction`, `journaled_ops`, beside live gestures | one action per file or store step; `Crash` before any of them |
| `Adopt` | `adopt_db`, `diff_stores`, `stream_elements`, `amerge_sorted`, `KindDiff.add`, `LagAttribution`, beside journaled and unjournaled writes | one action per page read, merged pair and storage call |
| `GenesisExport` | `genesis_export`, several side by side, with an adoption and journaled writes after it | one action per scan, append and end; `Die` before any of them |
| `Registries` | `composed_replay_handlers`, `installed_handlers`, `workflow_handlers`, the dispatch of `apply_op`, as the writer and the rebuild use them | one action per use by a process; `Restart` and `Install` change what a process finds |
| `SpineEdits` | `edits.py` | the projection is a fold over the log; `Decide` is a decision that reaches it, with edges to those it supersedes |
| `CrashProof` | `run_proof`, `crash_variants`, `_crash_of`, `ProofStep`, and the child processes they start | one action per spawn, append, apply and assertion |
| `MCWriteOrder`, `MCReplay`, `MCCompaction`, `MCAdopt`, `MCGenesisExport`, `MCRegistries`, `MCSpineEdits`, `MCCrashProof` | | instances for TLC |
| `GraphStoreProofs` | | lemmas: induction over the naturals by sets, the folds; the graph operators |
| `WriteOrderProofs`, `ReplayProofs`, `CompactionProofs`, `AdoptProofs`, `GenesisExportProofs`, `RegistriesProofs`, `SpineEditsProofs` | | the theorems; those of `CrashProof` are at the end of `WriteOrderProofs` |

`GenesisExport` uses `GraphStore`'s operators on the whole graph, and takes the steps of
`WriteOrder` (a gesture) and of `Adopt` (an adoption) as one action each: what they do
inside is checked there. `Registries` and `CrashProof` take the graph as the records
applied to it, since what they are about is who applied which record and how often.

A node's label and source hashes are what `node_identity_mismatch` compares: one value
of `Hash`. Its properties are one `prop` that a merge sets. An op's body is a wires op
(`extend`), a property merge (`update`) or a drop (`delete`), the shapes the tests'
handlers have (`tests/test_write_order.py`). The wires' own times are the op's: a wire
that carries an earlier time keeps it both live and on replay.

### WriteOrder, state and actions

`journal` and `torn` are the file: landed records, and what an append cut short left
past them. `cursor` and `graph` are the db. `lock`, `pc`, `window`, `clk`, `batch`,
`edgesDue` are what lives in the processes and dies with them. `OpenWriter` takes the
lock and seals; `ApplyWrite`, `ApplyEdges`, `Advance` repeat until `CaughtUp` (a heal)
or `CloseLanded` (a landed window); `Plan` is `_journal_extend` or `journal_op` up to
its append, buffered in a unit; `CloseUnit` and `AppendOps` land what is planned.
`replayed` is a history variable: the graph after each record, as a replay would
build it. The run `write_unit` compares it with the replay itself, and
`ReplayedIsReplayHolds` proves them equal.

### Replay, state and actions

`live` says whether the db is the one writers write, or a fresh build beside them.
`Start` reads the cursor; `Enter` takes the lock only if one was held; `ReadFamily`
reads the family once and applies the offset guard; `TakeWires`, `ApplyDomain`,
`FlushNodes`, `FlushEdges` are `_replay_records`; `Stamp` closes. `FlushedNodes` and
`DueEdges` are what one extend over a batch plans on what the db held before it,
`WithEdges` its edges as the store takes them. `PutInPlace` is a
built db becoming the live one, which is its caller's step and not `rebuild_db`'s. A live merge goes to a node its verb has read: the
cores that plan merges are other packages. `clean` is a history variable: a replay onto a
db with a cursor that dies or refuses, or takes again a tail the db holds, ends it, since
from then on `StampIsApplied` is false of the code (`MCReplay_crash`, `MCReplay_tail`).
Deaths and refusals of a fresh build leave it true.

### Compaction, state and actions

`family` is the segments' ops, the live tail last; `archive` the archived ops; `graph`
and `cursor` the db, the cursor a place in a segment known by what stands before it
there, which is what a position's offset and digest tell (`journal.py:191`). `Open` is
the writer's open with its heal; `Rotate`, `Scan` or `ScanRefused`, `AppendDrop`,
`ApplyDrop`, `AdvanceDrop`, `Archive` or `NothingToMove`, one `Rewrite` per changed
segment and `Restamp` follow `compact_family` in its order. `Crash` stands for a death, a
failing storage call and a segment changed underfoot; one inside the archive's write
may cut it short. `Rebuild` is what is left when no record ends at the cursor. What the
domain's callback removes (`Domain`) and how the caller makes `journaled_ids` (`Pending`)
are the caller's, hence constants: `"journaled"` is the recipe of
`tests/test_write_order.py:229`, `"removed"` takes of those only the ids the db no longer
holds. Besides the bodies of `GraphStore`, an op may be a curation, wires and deletes
in one, as in `tests/test_compact.py:50`. A genesis line moves as an op of its one wire.
`log`, every op ever journaled, is a history variable for `NothingLost`. The graph of the
family is always recomputed from it by `ReplayOf`.

### Adopt, state and actions

`Init` is a db as the writers before the op clock left it: its journal's graph, some
nodes stamped a tick early, no cursor (or one at which no record ends, which is the same
to a writer). `Open` takes the family's lock and replays the journal into `scratch` (one
step: the lock keeps the journal still, and `Replay` models the replay). `FetchPage`
reads the next page of the live db in id order (`Past`, in the order `Stream` gives it) while
the one before is merged; `OnlyLive`,
`OnlyScratch` and `InBoth` are the branches of the merge, `found` what `KindDiff` collects.
`Refuse` or `Accept` decides, then `DropEdges`, `DropNodes` and `Stamp`; `Crash` may end it
anywhere. `Gesture` is a journaled write, which needs the lock; `Unjournaled` is a write
with `unjournaled=True`, which does not. `opened` and `proven` are history variables: how
many unjournaled writes there had been when an adoption began, and when the last stamped
one did.

### GenesisExport, state and actions

`Init` is a db without a journal. An exporter's `Start` is the one look at the journal
that refuses a second baseline; `ScanNodes` and `ScanEdges` read everything of one kind
and leave it in `due`; `AppendRecord` appends a record of it, in any order; `Finish`
returns. An export takes no lock, so others may have started before its first append, and
`Unjournaled` writes may fall between its scans. `Die` is a death or a scan that fails.
`Adopt` gives the db a cursor if its journal's replay is the db; `Gesture` is then a
journaled write with its heal. `proven` counts the unjournaled writes at the last
adoption. A genesis record carries its row's times and properties, and meets a row that
is there by verifying it, as `extend` on a carried wire does.

### Registries, state and actions

`env` is what `entry_points` would find in a process's environment now; `composed`,
`installed` and `checked` are the two caches of the module (`journal.py:440` on). A handler
is a model value: equal values are the same object. `OpenWriter` and `Rebuild` ask
`WorkflowHandlers`, `UnjournaledOp` only `InstalledHandlers`; a refusal leaves no trace and
is no action. `ApplyNext` and `ApplyRefused` are the two outcomes of `apply_op`, for a record
healed or just landed. `applied` has each record with the handler that applied it. `Restart`
is a process that ends, anywhere, and one that starts, maybe after an install or an
uninstall; `Install` is one under a running process, which `InstallLate` allows or not once
it has composed. `refused` is a history variable.

### SpineEdits, state and actions

`log` has the decisions in the order they reached the graph, each with its decider's own
time and its random id, so that times tie and come late; `supersedes` has the edges.
`Decide` is the only action: deciding and writing are the correction cores'. `shown` is
what `project_effective_spine` gives of the active decisions, kept as a history variable so
that a step's properties can speak of both views. A text is a sequence of characters, as
the comparison in `edits.py` is one of characters; a word is read off it by the properties
only. Targets and boundaries may be no unit of the spine (`NoUnit`): such a target is passed over,
such a boundary refused, as is a direction that is neither a push nor a pull. The projection's
raise is `refused`: the properties say nothing of what is shown then.

### CrashProof, state and actions

A step has what its core declares of it (`ops`, `unit`, `retried`, `units`) and what its verb
really does (`lands`, `presence`, `derived`, `fragile`), and the two are chosen apart from
each other. `SpawnStep`, `SpawnAgain` and `SpawnHeal` start the children of `run_proof`;
`Apply`, `Land`, `PlanEmpty` and `Exit` are what a child does, dying where it is armed
to; `StepDone` and `StepFails`, `NotCrashed`, `RunDone` and `RunFails` are the
assertions. A passed step or run leads to the next one, a failed one ends the suite.
`struck` is a history variable.

## Runs

| run | question | bounds |
|---|---|---|
| `write_plain` | calls and plain windows, emissions that disagree: projection, delta only, no landed record refuses | 2 writers, 4 records, 1 crash, 1 tick |
| `write_unit` | units, alone and nested: whole or none, plans see the journal, serial gestures | 2 writers, 3 records, 2 crashes, 1 tick |
| `write_live` | the heal happens | 2 writers, 2 records |
| `replay_exported` | replay from 0 or past the baseline, fresh and live, over changing contents: no stamp past what the db holds, nothing skipped, a fresh build takes every record | 3 baseline records, 4 live, 2 replays, offsets 0 and 3 to 7, batches 1, 2, 5, deaths anywhere |
| `compact_ops` | the op first, or refused: crash safety, nothing lost, the cursor a place | 4 ops, 3 compactions of n1 or n2, 2 crashes |
| `compact_pending` | ids a standing drop has removed, alone or with others: `CrashSafe`, which is `SelfConsistent` and `NothingLost` | the same, and live drops |
| `adopt_paged` | a stamped db is, once healed, its journal's projection; the paged merge is exact; only named, unjournaled elements go | 2 histories, 3 nodes and 2 edges in pages of 2, 2 adoptions, 2 unjournaled writes, 1 or 2 gestures |
| `export_side` | two exports side by side, dying anywhere: an export that ends leaves a journal that rebuilds its db, late records are idle, no partial baseline is stamped | 3 dbs of up to 2 nodes and an edge, 2 journaled ops, 2 unjournaled writes |
| `registries_roles` | processes with different cores on one lane: no record dropped, none of a declared core refused late, each applied by its own core's handler | 2 processes, 5 cores of which 2 declared, 5 environments, 3 records |
| `edits_log` | the view is that of the latest decisions that stand; shifts keep the words and undo; prunes only drop | 3 positions, 3 decisions of 10 kinds, 2 times, 3 ids |
| `crash_proof` | the suite passes sound verbs and no others, and has struck every boundary | every declaration with every verb of up to 3 ops, alone or after a core's step |
| `compact_cursor` | violation, see Findings | as `compact_ops` |

Why the bounds are enough: two nodes joined by one edge is the least graph in which
an extend has two storage writes and a drop cascades; two writers the least in which
one can plan while the other's record is landed; a second crash can strike the heal of
the first. Four records hold put, drop, put of other content and a merge. Batch
sizes 1, 2 and 5 flush at each record, inside the baseline and only at its end.
For compaction four ops
make up to three cold segments with retired wires in two of them, and three compactions
let a crashed one be run again and run a third time over what the second left. In
`compact_ops` and `compact_pending` the domain's op deletes the nodes and names their
edges: with an op that deletes the nodes only, the property is violated
(`MCCompaction_between` below). `CursorFinds` is asked where every compaction plans an op;
without one see Findings.
For adoption a page of two divides two elements and not three, so a
stream ends on a full page, on a short one and on an empty one; the second adoption meets
what a crashed one left, or a stamped db whose last op, a delete, is not yet applied.
Two exports are the least of which one can lose the race, and three records the least in
which it loses it half way. The five environments are: a declared core missing, none
missing, one more core, another one that binds the same verb to another handler, and a
rival of a declared core, which is refused. Three decisions are the least in which one
supersedes a decision while a third stands between the two in time; the middle position
is empty, so shifts meet an empty side, and the first text ends on a blank. Three ops are
the least that can be cut into a unit and a further append, with a derived op in either.
Writers, exporters and processes are symmetric. `CHECK_DEADLOCK FALSE`, where it is used, is for bounds that are
used up: no process of the code has to open a window or start a replay.

Fairness: `write_live` assumes that the code of an open window runs on (weak fairness
of `WriterStep`). It awaits only the storage queue, whose jobs end. Nothing is assumed
of callers, of opening a window, or of the lock; after the last crash the property asks
only for what a writer that holds the lock does.

## Findings

Where a comment of the code claims what a run refutes: `compact_cursor`. A compaction with
`journaled_ids` alone plans no op, so the cursor stays in the former tail; if that segment
is rewritten and the run dies before `restamp`, no record ends where the cursor stands and
no re-run can open (`compact.py:386`: a re-run completes the move "from every boundary").
A rebuild or an adoption mends it.

Limits of the code that other instances of the same modules show. Their configurations
are kept beside the runs'; each violates the property it names, on a use of the code
that the passing runs leave out:

| configuration | property | use |
|---|---|---|
| `MCReplay_skip` | `StampIsApplied` | an `offset` into a db with no cursor skips records and stamps past them: `journal.py:190` guards only a cursor past the origin |
| `MCReplay_tail` | `AnyReplayConverges` | the delta replay that `journal.py:162` calls idempotent: a drop whose node lies before the offset leaves an edge standing. The offset need not be wrong: one equal to the cursor is behind it when a writer lands an op between the read of the cursor and the lock |
| `MCReplay_contents` | `ReplayConverges` | a whole replay onto a live db refuses when a dropped node came back with other content (`journal.py:168` and `:215` speak of convergence) |
| `MCReplay_crash` | `AnyReplayConverges` | a whole replay onto a live db executes its merges and drops again; dying half way it leaves an earlier graph under a cursor at the end |
| `MCWriteOrder_unit_contents` | `ApplyNeverRefuses` | two contents of one node in one unit land a record that refuses in every later heal (`journal.py:382`) |
| `MCAdopt_race` | `StampIsProof` | an unjournaled write behind the page being read, or after the last one: the cursor is stamped over a graph the comparison did not see (`rebuild.py:151`). `CursorIsProven` holds because it speaks of dbs with no such write since the adoption began |
| `MCCompaction_between` | `SelfConsistent` | a domain op that deletes nodes and leaves their edges to the cascade: between two rewrites a replay adds an edge whose endpoint's record is gone, and the op finds no row to cascade from (`compact.py:384`). Finishing the move mends it |
| `MCCompaction_opless` | `SelfConsistent` | one pending id switches off the refusal of a move with no op for the caller's own ids too (`compact.py:399`) |
| `MCCompaction_reemitted` | `SelfConsistent` | every journaled drop taken for pending moves the wires of a node emitted again since, with no op after them |
| `MCCompaction_curation` | `SelfConsistent` | an op whose wires all move takes its deletes of other nodes out of the family with it (`compact.py:181`) |
| `MCGenesisExport_died` | `RefusedIsBaseline` | an export that dies leaves a part of its baseline, and every later one refuses the journal as having one (`journal.py:54`) |
| `MCGenesisExport_dropped` | `LateRecordsIdle` | a node dropped by a journaled op while an export that lost the race still appends: its late record brings the node back in the next heal |
| `MCRegistries_stale` | `NoLateRefusal` | a core installed under a process that has composed before: the check reads the environment, the cached union lacks the core's verbs, and the writer fails at the record instead of at the open (`journal.py:442` on) |
| `MCRegistries_undeclared` | `OneHandlerPerVerb` | a verb of undeclared cores is applied by whichever of them the process has: live and rebuild may differ |
| `MCSpineEdits_pruned` | `WordStreamKept` | a shift between a pruned and a standing position makes its words vanish or appear, and one that names the end of a word splits it: the projection compares characters (`edits.py:41` promises the word stream) |
| `MCCrashProof_chain` | `EveryUnitTorn` | in a chain of units only the first is ever torn (`testing.py:160`) |

## Proofs

Assumptions: the named assumptions on the constants, which TLC evaluates on the runs'
instances (`GraphStore`'s `EdgeEndpoints`, `AbsentIsNoHash`, `NoPropIsNoProp` and
`AbsentIsNoRow`, and those of the component's own module), and the hypotheses a theorem
states, each given below with its reason. Ids, hashes, properties, bodies, processes, the
bounds on journals, runs and crashes: all are arbitrary.

**Folds.** A replay is a fold over a journal, so most of what there is to prove is
an induction over its length. The library's induction theorems take an operator as a
parameter. The first part of `GraphStoreProofs` uses sets instead: `SetInduction` says that a set of naturals
with 0 and closed under successor holds them all. A property to prove by induction is
then a set, `{m \in Nat : P(m)}`. From it come the laws of `Folded`, a fold given by its value
after each element: `FoldedEmpty`, `FoldedAppend`, `FoldedConcat`. `FoldedByPositions` carries
them to `FoldLeft`, `ReplayLaws` to the replay of a journal, `FoldEdits` of
`SpineEditsProofs` to the projection of a spine.

**The store.** The second part of `GraphStoreProofs` has what each operator preserves and returns. The key
lemmas: `ExtendResumes`, an extend restarted after its first storage write gives the graph of
an uninterrupted one, times included; `SingleWriteIdempotent`, the same of merges and drops;
`IsDelta` and its lemmas, an op that was planned on a graph emits only what is absent there, so
its replay never refuses. Its last section is the convergence of a replay, below.

**Write order.** `WriteOrderProofs` proves `Spec => []IInv` and from it `TypeOK`, `LiveIsReplay`,
`WholeOrNone`, `PlanSeesJournal`, `ReplayedIsReplay` and the refinement `ImplementsSerial`, for
any number of writers, windows, units and crashes. `IInv` adds to `LiveIsReplay`:
`LockInv` (whoever is past `opening` holds the lock), `QuietInv` (nothing is torn while a
writer is open, nothing is batched or due while none needs it), `HistoryInv` (the
history variable is the replay's recurrence over `journal \o batch`) and `StandInv`
(for each `pc` of the holder, which of the three boundary graphs the db is exactly).
`LiveIsReplay` is not inductive by itself: at `edges` or `advance` it must be known
which boundary the db stands at and which edges are due. `ImplementsSerial` maps the step
that lands a batch to one gesture planned op by op on the replay of what is before it; every
other step, a crash in the middle of an append included, maps to a stutter.
`DeltaOnly` and `ApplyNeverRefuses` assume `"unit" \notin Windows`: in a unit every op is
planned on the graph before the unit, so two of them may emit one node, and
`MCWriteOrder_unit_contents` violates the second.

**Replay.** `ReplayProofs` proves every invariant the run checks. `TypeOK` and `ReadIsCurrent`
come from `PhaseInv`: which cursor a call holds, and that the lock it takes after reading it
makes its read the family until its stamp. `NothingSkipped` adds `GuardInv`. `StampIsApplied`,
that a build or a replay never leaves a db standing past what it holds, takes
`BatchInv` (what is pending are the last records taken, one domain op or a part of the baseline),
`StandInv` and `BuildInv`. They say what a db holds *inside* a call, which is not a replay of any
prefix: a build may go over what dead builds have left, and a replay from 0 onto a live
db meets the rows of ops it has not come to yet. `Leftover(s, g)` describes a graph that earlier
passes over `s` can have left, `Taken(s, j, g)` one over which a pass has
taken the first `j` ops of `s`: what the first `j` ops wrote stands as a replay gives it, what they
dropped is gone, and any other row is one a later op will write or drop. `TakenStep` carries it
over one op, `FlushIsReplay` shows that one extend over a batch is the extends of its records,
and `TakenEnds` that after all of `s` nothing is left but the replay. A journal is `Sound` when
each op was planned on what is before it; `SoundAppended` is that live gestures keep it so.
`FreshBuildsTakeAll` has the simpler `FirstInv`: the first build of a db is at every point the
replay of what it has applied. The hypotheses, each a way the code calls it, all met by the
instance of `replay_exported`:

| hypothesis | says | why |
|---|---|---|
| `WholeBuilds` | a db without a cursor is built from the start | `rebuild_db` and `adopt_journal` call it so; `MCReplay_skip` violates `StampIsApplied` without |
| `SomethingExported` | the baseline has a record | the guard passes every offset over a cursor that is 0 (`journal.py:190`) |
| `EachOnce` | no two genesis records emit one row | a record is one row of the db, listed once |
| `NodesFirst` | an exported edge comes after its nodes | `genesis_export` scans nodes, then edges |
| `EndsEmitted` | an emission wires the ends of its edges | the cores emit so; `compact.py:168`: a dangling edge is never replayed onto an absent node |

**Genesis export.** `GenesisExportProofs` proves `TypeOK`, `StampedIsWhole`, the action property
`ExportIsWhole` and `LateRecordsIdle`, for any number of exporters side by side, dying anywhere.
The invariant is `BaselineInv`: the genesis records of a journal are rows of the db as it
stood, and an exporter's `due` holds what of its scan is not yet in the journal; a replay of genesis
records gives the same graph in any order and however often each is repeated. `CursorInv` says
that every record past a cursor is a genesis record, and `IdleInv` that no element an exporter
has scanned leaves the db, whatever lands meanwhile. `LateRecordsIdle` assumes that no journaled body deletes: `MCGenesisExport_dropped` violates it otherwise.

**Registries.** `RegistriesProofs` proves, for every set of cores, registries and environments,
`Spec => []IInv` and from it `TypeOK` and `NothingDropped`; and, assuming `~InstallLate`,
`NoLateRefusal` and `OwnHandlerApplies`. `~InstallLate` is needed: `MCRegistries_stale` violates
the first property
without it, and a process that composed where only a rival of a declared core was installed
violates the second. Neither property is inductive: that a writer has a declared core's handler
takes `CheckedHasDeclared` (whoever passed the check has the declared cores, and so has
whoever has a writer open) and `KeptIsUnion` (what a process keeps is the union of what its
environment holds, free of collisions). `AppliedIsPrefix` is the inductive form of
`NothingDropped`. The key lemma is `DeclaredBound`: in a union free of collisions that holds
a declared core, that core's verbs have its own handlers.

**Adopt.** `AdoptProofs` proves the three invariants and the action property of the run, for
every page size, id order and number of adoptions, with unjournaled writes between any two
steps. `IInv` is what holds whatever they change: `CallInv` (what a call has when, and that
nothing found to be the live db's alone is in the replay) rests on `MergeInv`: a scratch element
that the merge has passed by lies before every live one still to come, so no live element
read later can be its equal. `TypeOK` and `OnlyNamedDropped` follow. `ExactInv` is what holds
besides as long as no such write falls in: `ExactSoFar` says of each id, by whether it is live,
in the replay and already read, in which bucket it is, and that the two streams have passed it
or have it to come together; at the end of both kinds that is `DiffIsExact`, and after the drops
it is agreement. `HealInv` carries `CursorIsProven`: gestures keep two graphs that agree agreeing,
since what an op does to a row depends on no time of it (`SameAfter`), and a db that is one op
behind meets that op in its next heal (`HealsAnyway`). An earlier form of `CursorIsProven`
compared the db with the replay up to its cursor, and is not true: a second adoption may delete
from a stamped db what an appended and not yet applied op will delete, and die between its two
deletes. Healed, the db is the projection there too. Assumed: the stores have finitely many
ids and order them (`AdoptedStores`, `RankOrders`), and the ops of the old journals are
stamped past 0 (`AdoptedHistories`), so that the tick they lag by leaves a time.

**Compaction.** `CompactionProofs` proves of every family, of any number of segments and
crashed compactions, `TypeOK`, `NothingLost` and the action property `MovedOut` without a
hypothesis, and `CursorFinds` where callers name no pending ids (`compact_cursor` violates it
with them). `ShapeOK` says which segments a compaction may rewrite, and that the tail's last
op is its own while it is applied. `CursorOK` says where the cursor stands at each step: at the
family's end, before the op just landed, or nowhere because its segment was rewritten; that no
rewrite leaves it at a place *inside* a segment takes `KeptShorter`. `FoundOK` adds that the
tail holds a record once an op has landed, so that the end of the family is in the tail, which
no move rewrites. `NothingLost` is not inductive while a move runs: `LostOK` adds that the
archive holds what will be taken of every segment still to rewrite (`HeldByParts`: an op is held
by the part kept and the part moved). `CleanOK`, for `MovedOut`, says that from the scan on
nothing outside `todo` splits, the tail included, and nothing that is kept splits again
(`SplitParts`).

`SelfConsistent`, and with it `CrashSafe`, is proved under `MovesSafely`, which says how a
move is used; the runs that check them, `compact_ops` and `compact_pending`, satisfy it. Its
parts: no domain's op leaves edges to the cascade (`MCCompaction_between` violates
`SelfConsistent` without it), no caller takes every journaled drop for pending
(`MCCompaction_reemitted`), a curation brings or drops and not both
(`MCCompaction_curation`); and where callers name pending ids, every domain has an op
(`MCCompaction_opless`) and every body is `Tidy`: it wires both ends of its edges and names
the edges of what it deletes. The last is asked of the cores and not enforced by the code:
with a plain delete, with a curation that leaves edges to the cascade or with an extend
that wires one end, TLC finds `CrashSafe` violated on the instance of `compact_pending`,
since an op planned for other ids deletes no edge of a pending node.

The argument. `Out(s)` is what a sequence of ops leaves *outstanding*: the nodes and edges
it brings that nothing after drops, edges that wait for an end included. What the replay
holds is outstanding (`PresentIsOut`), and `Free(ids, s)` says that nothing of `ids` is, nor
an edge at one. Where the moved ids are free in the family, taking an op's moved wires out
of a segment changes nothing of the replay (`RewrittenReplay`, by `KeptStep` an op at a
time), and leaves no more outstanding than before, so that the next rewrite finds them free
again. The op of a domain makes them free (`DropNamesAll`: it names every edge that stands,
and the graph it was planned on has what the replay has); pending ids are free because the
family is tidy (`TidyOp`, `TidyStep`). `JournalOK` carries this through the steps: `GraphOK`
(the db is the replay but for the op being applied, and when a move begins it has been
healed), `FreeOK`, `CallerOK`, `TidyOK` and `OneSidedOK`.

**Spine edits.** `SpineEditsProofs` proves all the run checks, for every spine, every text, every
set of payloads and every log. The invariant, `IInv`, says that what is shown is the projection of
the decisions that stand. The work is in what a projection is. `SpineEdits` orders the decisions by
a `CHOOSE` among the sequences of a set; `OneEnumeration` says that decisions with ids of their own
have at most one order by time and id, `EnumerationExists` that they have one, and from these
`InOrderInserts` (one more decision has a place in it, and the others stay as they are) and
`InOrderAppends` (after all others it is last). `PrunesOnlyDrop` then rests on `PruneLater`: a prune
changes places with whatever is applied after it. `LatestTextWins` rests on `PlainRun`, what a
sequence without a shift leaves, and on `LatestAgrees`, that the last replacement in the order is
the one `Latest` chooses.

The words of a text are read by a fold that drops every gap but one between two words. Its laws,
`ReadingLaws`, say that a text read after a gap, or after one that ends in a gap, adds what it
reads alone: so stripping an end of a text changes no word of it, and two texts with a gap
between them read as the one and then the other (`StrippedReads`, `JoinedReads`).
`ShiftsUndo` follows (`ShiftBack`: the mirror finds its words where the shift put them). For
`ShiftsKeepWords`, the stream of a view is cut at the boundary of the shift: `StreamsAgree` says
that two views whose texts read the same, but for two neighbours that read the same together, have
one stream. That is why the two sides must be in the view together: `MCSpineEdits_pruned` shows
what happens otherwise.

**Crash proof.** `CrashProof` names its journal, db and specification apart from the write order's
(`landed`, `cut`, `store`, `SuiteSpec`), so that the last part of `WriteOrderProofs` can speak of the
harness that kills the write order. `SuiteTypeCorrect` is its type invariant; `EveryBoundary` proves
`EveryBoundaryStruck` of every scenario, of any number of steps, ops and units, and of verbs that
do not do what they declare. In the invariant, `StruckInv`, `StruckSoFar` says that the suite leaves
no step of a run behind before that step has died where the run's variant gives it to; `ChildArmed`,
that a heal or a second call only comes after that death, which is why a step that was to die and
did not ends the suite; `StruckAtOwn`, that nothing dies at a boundary its step has not. `VariantsAre`
says that the variants go up to the most boundaries of any step, and `CrashOfOwn` that a step
takes each of its own as it is. `EveryBoundary` assumes `UnitsHaveOps`: a step without ops declares no
units. Units of no op would pass the assertion of `testing.py:257`, count as appends and never be
struck. The scenarios of `crash_proof` satisfy it.

Only model-checked: `HealConverges` (liveness), and `PassesIfSound`. The latter rests on
which records of a journal are a step's, a `SelectSeq`, which the prover has no definition of. And it is
about the verbs of the instance, not about every verb: one that fails only in an op its step
does not have is unsound and passes.

## Not modelled

Not modelled: the write observer, row counters and run instruments of `ops.py` (what reads
them is in other packages, and they change no state of the graph or the journal); the
unjournaled paths of `journal_extend` and `journal_op` beyond what `Adopt` and
`GenesisExport` say of unjournaled writes; `compact_journal`, the same move for a family no
db applies, and dry runs; the attributions by id and by mark, path maps, counts, samples and
rendering of `graphdiff.py` (an adoption decides by none of them); what becomes of a scratch
file; the worker reaper and `_normalized` of `testing.py`, whose comparisons are made in the
cores' own tests. `grammar.py`, `identity.py` and `declare.py` are constants, hashes and
dataclasses without state. Command-line wiring is left out, and so are the manual scripts
under `tests_manual/`, which drive the library against installed stores.
