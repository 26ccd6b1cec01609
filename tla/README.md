# layertwine in TLA+

layertwine is a Rust service that keeps the work of a person and of several
agents on one project in *layers*, moves it from layer to layer through review,
and commits the result as *checkpoints* on branches. This directory holds TLA+
modules translated from the code under `src/src`, the TLC configurations that
check them on small instances, and theorems about them that TLAPS checks for
every instance.

- [1. The system](#1-the-system)
- [2. Modules](#2-modules)
- [3. Model and code](#3-model-and-code)
- [4. Runs](#4-runs)
- [5. Theorems](#5-theorems)
- [6. Findings and divergences](#6-findings-and-divergences)
- [7. Not modelled](#7-not-modelled)

## 1. The system

| component | state it keeps | operations | correct when |
|---|---|---|---|
| storage of layers (`storage/sqlite/{partition,snapshot,delta}.rs`, `core/`) | tables `snapshots` (content addressed, immutable), `deltas`, `partitions` (current snapshot), `partition_history` | store a snapshot, create a partition, update its pointer, reset it to its baseline | the pointer is the last history row; every row names a stored snapshot; the snapshot graph is acyclic; what was stored is what is read |
| layered state machine (`layered/`, `layered.rs`) | none of its own: partitions manual, agent, approval, integrated, staged | edit, submit, approve, reject, merge to staged, roll back, discard | changes flow only between neighbouring layers (iron law 1); nothing submitted is lost; baselines stay; merges are three-way merges |
| engine (`engine/`) | none | `diff`, `apply_deltas`, `merge_texts` | merging keeps what one side alone changed and flags what both changed |
| service (`api/service.rs`, `http.rs`, `rpc.rs`) | one storage behind an `RwLock` taken *per storage call*, one `CheckpointRepo` behind another | one handler per request | requests of several clients that overlap do not undo each other |
| checkpoint repository (`checkpoint/repo.rs`, `branch.rs`) | branches, current branch, the checkpoints it knows, in memory and in tables | commit, create/switch/remove/merge branches, rollback, sync | memory and tables agree; a head is never lost |
| checkpoint DAG (`checkpoint/dag.rs`) | edges, generations, in memory and in tables | add an edge, cycle check, ancestry, removal, load and rebuild | acyclic; ancestry is answered as a full search would |
| gc (`git_sync/gc.rs`) | none | protect, mark, remove | keeps what a head needs and removes the rest |
| transactions, time index (`checkpoint/transaction.rs`, `time_index.rs`) | pending checkpoints; a sorted index | begin, commit or roll back a batch; nearest and range queries | storage and memory agree after each; a search finds the nearest |
| restore (`checkpoint/restore.rs`, walks of `repo.rs`) | none | logs, ancestors, restore of a checkpoint's snapshots | a log is the whole history; what could be restored can be |
| backup (`backup/`) | a database of its own with the deltas and base content of snapshots | back up, delete, restore into staged | a backup gives back its text; a restore onto its base too |
| SQLite connection (`storage/sqlite/connection.rs`, `layered.rs`) | one connection behind a re-entrant mutex; savepoints | `with_conn`, `with_atomic`, `with_transaction`, maintenance | a unit is all or nothing; what is answered is durable; nobody waits for ever |
| transports (`api/http.rs`, `rpc.rs`, `cli.rs`) | none | receive, reject, run, answer | a refused request wrote nothing; a panic does not lock the others out |
| git bridge (`git_sync/git_bridge.rs`) | anchors in checkpoints, a git repository | export, import, pull | outside: drives git2 |
| configuration, output | files | parsing, printing | outside: I/O |

**How they interact.** A request (HTTP, RPC or the command line) calls one
`ApiService` handler. The handler calls functions of `layered/` one after
another; each reads and writes the tables through `StorageRepository`, and each
storage call takes and gives back the lock on the connection. `commit`,
`branch_switch` and `checkpoint_rollback` also call the `CheckpointRepo`, which
keeps a copy of branches and checkpoints in memory. `merge`, `gc`,
`git_commit`, `clean` and `pull` load *another* `CheckpointRepo` from the
tables, work on it and drop it; the service's own copy is not told. Nothing
calls back.

**The way of a change.**

```
 edit ---> manual ------------------------------------+
                                                      v
 agent_edit ---> agent(a) --submit--> approval(a)   staged --commit--> checkpoint
                                        |  ^          ^                   |
                                 approve|  |reject    |merge_to_staged    |branch_switch,
                                        v  |          |                   |rollback
                                     integrated(f) ---+ <-----------------+
```

A partition is created the first time it is needed, on the snapshot that is
then its *baseline*, row one of its history. Whether a submission is pending
is derived from the length of a history; merges take a baseline as common
ancestor; a rejection returns to it.

**What is hard.** Long sequences of legal requests (roll back, submit again,
approve into another feature) that leave a merge base, a history length or a
parent type other than what the next operation takes it for. Requests that
overlap between storage calls. A stop of the process between two calls of one
request, and the client's retry. Two copies of the checkpoint repository. The
`hazards` of PROJECT.json list each at its line, with the properties that
cover it.

## 2. Modules

| module | what it is |
|---|---|
| `TextMerge` | texts, line diffs and the three-way merge of `engine/` on texts whose edited places lie apart |
| `LayerStore` | EXTENDS TextMerge. The tables of the layers as one value and each storage call as a function from tables to tables; what the tables satisfy between calls (`WellFormed`) |
| `LayerOperations` | EXTENDS LayerStore. The operations of `layered/` as functions from tables to tables, and which layers a snapshot may come from |
| `LayeredPipeline` | EXTENDS LayerOperations. The handlers of `ApiService` as actions of one step, the properties |
| `LayerRequests` | EXTENDS LayerOperations. The same requests as sequences of storage calls of several clients, with crashes |
| `LineMerge` | `engine/` by line positions: diffs with every longest alignment, application, the walk of `merge_texts` |
| `TextSession` | EXTENDS LineMerge. Two sides edit a base and are merged |
| `BackupStore` | EXTENDS LineMerge. The backup database beside the core: backups, restores, edits in between, losses |
| `SqliteConnection` | the connection's mutex, statements, savepoints, failing units, crashes, with fairness |
| `CheckpointDag` | a graph of `dag.rs` as a value, its methods and the two ways to load it as functions of graphs |
| `DagGrowth` | EXTENDS CheckpointDag. How a repository grows one graph: commits and merges from any checkpoint, removals, a removed checkpoint made again |
| `BranchLedger` | the abstract specification of branches: pointers of which the current one alone moves, and to a child of where it was |
| `CheckpointRepo` | EXTENDS CheckpointDag, INSTANCEs BranchLedger. The tables of checkpoints, branches and graph, the service's repository, one request with a repository of its own, stops inside a commit |
| `CheckpointLibrary` | EXTENDS CheckpointDag. A repository as the library offers it: with or without storage, transactions, removals, the time index, failing storage calls |
| `CheckpointRestore` | EXTENDS CheckpointLibrary. What it answers: logs, ancestors, searches by time, restores |
| `ApiServer` | the transports: requests as sequences of locks, lookups, writes and places that may fail or panic |
| `MC...` | the instances for TLC: constants, and scenes |
| `LayerOperationsProofs` | the lemmas about the storage calls and the operations of the layers |
| `LayeredPipelineProofs`, `LayerRequestsProofs`, `CheckpointRepoProofs`, `SqliteConnectionProofs`, `ApiServerProofs` | the theorems and their invariants |
| `CheckpointRestoreProofs` | EXTENDS CheckpointRestore and DagGrowth. The lemmas about the library and the graph of `dag.rs`, their theorems |
| `TextProofs` | the lemmas about `LineMerge`, the theorems of `TextSession` and `BackupStore` |

Three compositions tie them together. `LayeredPipeline` and `LayerRequests`
apply the same operations, one to the tables and one to what a request has read,
and `AloneIsAtomic` says when the sequence of calls is the pipeline's atomic step.
`CheckpointRepo` implements
`BranchLedger`. `BackupStore` drives the texts of `LineMerge` through the
snapshots of two databases.

A module's definitions carry the names of the code's functions in CamelCase.
Definitions whose comment starts with "Mutant of" are not used by any
specification: each is a plausible bug in the definition it stands before.
A *scene* in an MC module is a restriction of the next-state relation chosen
with the initial state, so that one run covers several parts of the system
without their product.

## 3. Model and code

**Text (`TextMerge`).** A text is a function from `Regions` to `Lines`: each
region is one line that edits may change, and regions are kept apart by lines
nobody touches. On such texts `diff` yields one Replace per changed region,
`apply_line_diff` replaces exactly those, and `merge_texts` decides region by
region; that is what `DiffOf`, `ChainText` and `Merge` say. Change ranges that
touch or overlap, insertions of several lines, and the trailing newline are
`LineMerge`'s. With one region and `""` among the lines, the initial text is
the empty file that `init` stores. With two or more regions the instance is a
project whose initial snapshot has the text that keeps them apart.

**Tables (`LayerStore`).** `db.snaps` is the `snapshots` table in insertion
order. A snapshot's id is the hash of its content and the insert is OR IGNORE,
so the model stores a row once and uses its index as its id. A delta's id hashes
everything but the timestamp, so the model lets a delta be its own id.
`get_deltas` fetches rows into a map and *removes* an entry for each id of the
chain, so the second occurrence of a delta is not returned: `Returned`,
`ChainText`. `db.pointer` and `db.history` are the tables `partitions` and
`partition_history`; `update_pointer_internal` writes both and always appends.
Storage calls are one step each.

**Requests (`LayeredPipeline`).**

| action | handler | notes |
|---|---|---|
| `ManualEdit` | `ApiService::edit` | `apply_manual_edit` and, in the same request, `merge_manual_to_staged`, whose base is a copy of staged |
| `AgentEdit` | `agent_edit` | creates the partition on the current staged snapshot |
| `AgentSubmit` | `agent_submit` | creates the approval partition *before* a missing agent partition is reported |
| `ApproveAgent` | `approve_agent` | `merge_agent_to_feature`, with both early returns that leave the approval partition as it is |
| `Approve` | `approve` | the same, into the feature of the agent's name, then every feature into staged |
| `MergeToStaged`, `MergeToUnified` | `merge_to_staged`, `merge_to_unified` | pick the features to merge |
| `MergeNextFeature` | one round of `merge_features_to_staged` | in the order `list_partitions` returns them (`Rank`) |
| `Crash` | none | the process stops between two rounds |
| `RejectAgent` | `reject_agent`, `execute_rollback(ApprovalToAgentRaw)` | |
| `DiscardAgentEdit`, `RollbackPartition`, `RollbackStaged` | `discard_agent_edit`, `rollback_partition`, `execute_rollback(Staged...)` | public functions of the library; its tests call them, no handler does |
| `Commit` | `commit` | the repository's "no changes" error is the guard |
| `SwitchBranch`, `SwitchBranchFails`, `CheckpointRollback` | `branch_switch`, `checkpoint_rollback` | staged jumps to a checkpoint's baseline |

`merging` is the loop of an approve or merge_to_staged request: the other
actions may run between its rounds, which is what the per-call lock allows. At
most one such loop runs at a time (`merging = {}` in its guards), and all other
requests are one step: overlaps *inside* a request are `LayerRequests`. `head` and `committed` are what the layers see of the
repository; `SwitchBranch` may go to any committed baseline, more than the
branches of one repository would offer. `awaiting` is a history variable for
the properties: the snapshot an agent's submission left in its approval partition, until
it is answered or that partition is rolled back.

Failing requests that change nothing are left out. Those that change something
before they fail are in: `AgentSubmit` without an agent partition,
`SwitchBranchFails`.

**The graph (`CheckpointDag`, `DagGrowth`).** `gens` is the `generation` map and
its domain the nodes; `edges` stands for the two adjacency maps, which the code
always changes together. Functions carry the guards of the methods: `AddEdge` is `add_edge` with its
cycle check, which searches only when generations do not decide, and
`AddEdgeUnchecked` raises the child's generation and nobody else's.
`Visited` is what any of the breadth-first searches visits, defined as the least
closed set rather than by recursion, so that it can be proved about.
`BuildDag` and `LoadDag` go through a `HashMap`: the order is a parameter, and
whoever calls them considers all orders that can make a difference.
`DagGrowth` lets the head of a commit be any checkpoint that is known, which
covers every branch, and remembers the parents of every checkpoint ever made,
because an id is a hash of them.

**The repository (`CheckpointRepo`).** `rows` are the tables, `repo` the
`CheckpointRepo` that `ApiService` keeps behind its lock, `request` that of a
request which loaded its own.

| action | code | notes |
|---|---|---|
| `Stage` | edits, reviews, merges into staged | all the repository sees of the layers: the staged pointer gets a snapshot |
| `Commit` | `ApiService::commit`, `CheckpointRepo::commit` | in memory first, then `store_checkpoint`, three statements per `store_dag_edge`, `update_branch_head`; then the source note and its second, ignored, insert |
| `StopDuringCommit(k)` | the same | the process stops after k of the statements, another one loads what is there |
| `Restart` | `ApiService::open`, `CheckpointRepo::load` | in any order of the maps |
| `BranchCreate`, `BranchSwitch`, `CheckpointRollback` | `branch_create`, `branch_switch`, `checkpoint_rollback` | the switch takes the repository's branch and the table's head |
| `LoadRepo` | `load_checkpoint_repo` | a request begins: it has a copy of the tables as they are now |
| `Merge`, `Gc`, `GitCommit`, `Clean`, `Pull`, `PullFindsNothing` | `merge`, `gc`, `git_commit`, `clean`, `pull` | the rest of the request, on the copy and on the tables as they are by then |
| `RequestFails` | the same | it ends before it writes |

A checkpoint is its parents and snapshots; author, message and timestamp are
left out, so two commits of one snapshot on one head are one checkpoint, as they
are in the code when author and message agree. `made` lists every checkpoint
ever made and its index is the id. `rows.notes` are the columns `git_anchor` and
`snapshot_sources`, which only matter because `store_checkpoint` is
INSERT OR IGNORE. `Synced` is `sync_all`: its loop over dirty checkpoints has
nothing left to do in these requests, because each persisted what it made.
No storage call fails in this module without a stop of the process; that is
`CheckpointLibrary`'s. `CleanupOrphanSnapshots` deletes every row: `snapshot_ids` is a JSON array of
byte arrays, `json_each` yields their text, and the `id` column holds a BLOB,
which is equal to no text (confirmed by running the statement in SQLite).
The layers' `StoreConsistent` therefore says nothing about a database that a
clean request went over; `clean_snapshots` does.

A handler that indexes `branches` beyond its end panics; the model leaves the
action out (`HasCurrent`), except in `sync_all`, whose statements before the
panic count. `branch_switch` drops its lock before its `assert_eq!`, so a
failing assertion loses the answer and nothing else.

One request with its own repository runs at a time (`request` holds none or
one), and between its load and the rest of it the service may do anything. The
rest is one step. Two such requests at once, and stops inside one, are not
modelled.

**Overlapping requests (`LayerRequests`).** `client[c].todo` is what the request
still has to do, a list of storage calls and computations; `read` is what it has
read, and `Effect` applies the operation to a database whose pointers are
those that were *read* while the snapshots are those of now (they are immutable).
The loop of `merge_features_to_staged` is a step per round: "list" reads the features
there are, "rounds" goes on with those left.
`ensure_*` is two calls, look and create, and the second one may meet the primary
key. `approve` moves the feature and resets the approval in two calls; the empty
diff that ends an operation drops both. `Crash` ends all requests and leaves the
tables as they are. `commit` and `branch_switch` run under the repository's write
lock and are one step after what they read before it. `alone`, `solo` and `began`
are history variables: who overlapped the request, and what it found.

**Lines (`LineMerge`, `TextSession`).** A text is its lines and whether the last one
is terminated; `Text` is what joining lines gives: `apply_deltas` and `merge_texts` add the
last newline unless the *joined string* is empty (`merge.rs:41`, 333), so a lone blank line is gone,
and a blank last line is too where no newline is added. `Gives` says that a text is the given
lines up to that. A diff is its change ranges and how far its hunk's context reaches,
which is what makes `apply_line_diff` fail on a shorter text. The alignment is the
`similar` crate's; `DiffsOf` allows every longest common subsequence.
`Patched` and `ApplyDeltas` are the loops over changes and deltas, `MergeChanges` is the
loop of `merge_texts`, change by change in the order of
their first line, with its treatment of equal starts in `SameStart`: each a function
from the number of turns to the loop's variables. A diff is one hunk; the runs' texts are
short enough for that.

**Backups (`BackupStore`).** `snaps` holds contents and an index stands for the
hash; `present` are the rows the core has, none after a `Clean`. Edits follow `apply_manual_edit` and
`merge_manual_to_staged` by position. `Copy` is `BackupSnapshot::with_options`: the
deltas, the base's content, and the *last* delta's file as the name of the row. A
restore is three steps: the file is written back, the backup and staged are read,
and the merge is written; between them the core may be edited, cleaned or lost. The
backup database's transaction keeps other backups out of the last two (`Unlocked`).

**Connection (`SqliteConnection`).** A thread is a stack of frames, one per call or unit
entered; a request is a list of calls and units. `stack` holds what each open savepoint would
restore. All savepoints have one name, so RELEASE and ROLLBACK TO mean the
innermost; `RollbackTo` leaves it open, as the code does. `disk` is what is committed:
a statement outside every savepoint commits at once. `Refused` lists what SQLite
refuses: primary and foreign keys, a row that is not there, BEGIN and VACUUM
inside a transaction. A "transaction" is `with_transaction`, whose closure's error
`with_atomic` never sees. `Items` is what requests and closures are made of;
`ItemsAssumption` says that these are the storage calls of `repository.rs`, units and
failures, and that a batch stores a graph with all its generations, as its comment has it.

**Library (`CheckpointLibrary`, `CheckpointRestore`).** `Init` chooses a repository in
memory or on a storage. `Moved` is what commits do before their first storage call,
`Persisted` the calls, `Noted` what comes last; a failing call leaves the first two
without the rest. `TransactionMoved` and `TransactionRows` are the same of a transaction, which
does not touch the time index. `RemoveBranch` leaves the index of the current
branch, `SyncAll` stores before it deletes, `SyncAllFails` has drained what it did
not store. `FromCheckpoints` and `RebuildDag` go over all orders of the map.
`tracked` is a history variable: nothing failed since the storage had everything, or was
last given it by a `sync_all` or read by a load.
`Walk` is the breadth-first loop of `log_from`, `get_ancestors_to` and
`get_ancestry_chain`: what is visited and the queue behind it are one sequence, each id
where it is first met, and turn k takes the k-th, as many turns as there are checkpoints.
The clock does not go back, so `insert` appends; `Retain`, the `retain` of a vector, is
also what `query_range` keeps.

**Transports (`ApiServer`).** `Program` is a request's way through locks and hazards, in
the order of its handler: "db" and "/db" take and give back the connection's
mutex, "read", "write" and "drop" the `RwLock` around the repository, "backup" the
backup database's mutex; "parse", "find", "taken" and "refuse" may end the request, as may "recall"
and "again", the lookups of a switch in memory and, after its first write, in the table; "current",
"compare", "fresh" and "sync" may panic, "put" writes. `WaitToWrite` is the
lock's preference for writers. A panic while a writer holds the lock poisons it
(`Panics`). `transport` is chosen once: over HTTP a panic drops the
connection, over gRPC it is a join error, on the command line a request is a
process that opens the service (`OpenService`). `memory` and `table` keep of the two
repositories only whether there is a branch and whether they have diverged; `cleaned` are the
switches between whose lookups a clean has removed a branch.

## 4. Runs

| run | instance | states | what it shows |
|---|---|---|---|
| `pipeline` | scene "one agent": all actions, 1 agent, texts changed as a whole, 6 snapshots; scene "two agents": 2 agents, 2 features, 2 regions, a word for each agent, 9 snapshots; 3 history rows | 340 500 | the pipeline's nine properties |
| `requests` | 2 clients, 2 agents; scene "any": 3 requests of any kind; scene "review": an edit, a submission and 3 requests that concern it | 489 000 | overlaps between storage calls, and crashes |
| `merges` | all pairs of texts of up to 3 lines over 5, one blank, from 5 bases | 448 000 | diff, apply and merge by position |
| `backups` | scene "losing": 1 loss, clean, 5 snapshots; scene "undoing": an insertion made and undone, 6 snapshots; scene "blanking": a lone blank line, 5 snapshots; 1 backup | 57 000 | backups and restores |
| `connection` | 2 threads, 3 of 16 requests, 1 crash | 102 000 | durability, whole units, liveness |
| `grows` | 4 checkpoints in every graph they can form | | generations and ancestry |
| `service` | the service, restarts and stops inside commits; 2 branches, 2 snapshots, 5 checkpoints | | tables and memory agree, and implement `BranchLedger` |
| `overlap` | all of that and the requests on copies, cleans of either branch, but for the clean of a copy's last branch; 3 checkpoints | 378 000 | no hole in any history, no ancestor unknown |
| `library` | scenes "timed", "memory", "failing", "removing"; 2 branches, 3 checkpoints, 2 readings of the clock, 1 transaction, 1 removal or failure, snapshots cached before a storage is attached; without the steps `SyncLoses` and `AttachLoses` | 325 000 | storage, logs, searches, restores |
| `transports` | 2 clients, one request of each kind, 3 transports, restarts | 960 000 | locks, panics, refusals |
| `clean_snapshots`, `failed_transaction` | expect a violation | | see [Findings](#6-findings-and-divergences) |

`grows`, `service`, `overlap` and `transports` check deadlock; the others set
`CHECK_DEADLOCK FALSE` because their bounds stop a behaviour (`MaxSnaps`,
`MaxHistory`, `MaxRequests`, `MaxMade`) or, in `merges`, because a merge is its end.
For `transports` that is not enough, since a process can always restart; `SomeoneSteps`
says that without one somebody can go on.

**Why these bounds.** *Pipeline.* A lap (edit, submit, approve, merge) stores four
snapshots on top of the initial one. Six leave room for a manual edit besides, three
rows of history for a rollback or a re-submission after it. Two agents with two
regions are the smallest instance in which an approval can merge one line and clash
on the other, and in which features of different baselines meet in staged; a clash
needs three lines (base, ours, theirs). They edit once each, because a second edit
multiplies the states without adding another kind of merge, and submit in one order, since
apart from their features' ranks the two are alike; a submission without an edit is in the other scene. *Requests.* Two that overlap,
after one that made what they meet; a review needs two more to have a submission to
look at. *Lines.* Three lines of base have a first, a middle and a last, and two change
ranges that touch, overlap or lie apart; a base that repeats a line has several
alignments; a blank line alone, first and last, with and without a terminator, is where the
joined string and the lines part. *Backups.* A line replaced, inserted in front and removed move positions in
every direction; the undone edit makes a chain name one text twice. *Connection.* Two threads contend, a third
request comes after both, so that what a failed unit left meets later work.
*Graph.* Four checkpoints make every shape in which a removed node leaves a gap between
ancestors and descendants. *Repository.* Five checkpoints let both branches grow, be stopped
inside a commit and make a checkpoint a second time; the three of `overlap` are the
root, a commit that the copy of a request does not know, and the request's own merge
or pull beside it. A second branch is enough to have one that a request moves or
removes under the service; it sorts before main, so that the index of the current
branch is off after it is gone. *Library.* Two readings, 1 and 3, have a middle at the same
distance from both; three checkpoints include two at one time. *Transports.* Two
requests meet in every pair of steps; gRPC serves only those that take more than one lock, since
the handlers are those of HTTP.

Symmetry is used on regions, clients, snapshots and checkpoints where no
definition tells them apart, and never in the run with a liveness property. Branch
names are not symmetric (`list_branches` sorts them). The graph tables are loaded in
every order only where some node has no row: elsewhere the rows overwrite whatever
the order led to.

**Fairness.** `RequestsReturn` is checked under weak fairness of each thread's
steps, which is what the operating system's scheduler gives runnable threads. Nothing
is assumed of the mutex: a behaviour has finitely many requests, so the holder
finishes and the mutex is free while the last waiter is enabled. Crashes answer
nobody and count as the end of a request. Elsewhere no liveness is stated: clients owe the
service nothing and its own loops are finite. `SomeoneSteps` is the safety half for the
transports, an invariant: whenever requests run, one of them has a step that is not a restart.

**The properties.**

- `StoreConsistent`: pointers are the last history row, rows, parents and
  checkpoint baselines are stored snapshots, the snapshot graph is acyclic.
- `NoCrossLayerFlow`: iron law 1 of docs/architecture/03. A snapshot of a layer
  is made only of its own layer's, the previous layer's, and of snapshots of
  the ground layers; no partition points elsewhere, also after rollbacks and
  branch switches.
- `BaselinesPinned`: no request moves the baseline of a partition.
- `SubmissionsStayPending`: a submission that nobody answered, and whose own partition nobody
  rolled back, is on the pending list and is what an approval would merge, whatever other
  requests do.
- `SubmissionsAnswered`: a submission leaves the list only by rejection, or with every line
  in which it differs from the feature's baseline written to the feature.
- `StagedMergeIsThreeWay`: one round of the loop keeps what staged changed since
  the feature's baseline and brings the feature's lines elsewhere; stated on
  what the *stored chain* reads back as.
- `RoundsRepeatable`: a round repeated at once changes nothing, so a retry
  after a crash is harmless.
- `FreshEditsReadBack`: an edit whose delta is not in the chain yet reads back.
- `GenerationsGrow`, `AncestryExact`: what `is_ancestor` and the cycle check rely on
  when they leave a search out, through commits, merges, removals and
  checkpoints made again.
- `HistoryComplete`: a stored branch leads to a stored checkpoint, and from there
  through stored parents to the root, but for the clean of a copy's last branch.
- `AncestryAnswered`: the graph the service has answers for all pairs in the past
  of its branches, after any stop and restart, in a database that has had its graph tables from
  the start.
- `TablesConsistent`: `StoreConsistent` and iron law 1 between any two storage calls of any
  requests, and of the pointers they are about to write.
- `AloneIsAtomic`: a request nobody overlapped did what the atomic action does to the
  database it found. The reference for its loop (`Rounds`) goes by ranks, the model by the features left.
- `AgentsIsolated`: an agent's edit reads back whatever others did meanwhile.
- `ApprovalRepeatable`: an approval stopped between its two writes can be repeated.
- `DiffsReproduce`, `ApartChangesLand`, `OursSurvives`: a diff applied gives the other text; changes of
  different lines all land, against a reference that works position by position and knows no
  order of changes; what our side wrote is in the merge, in order. All three up to `Gives`, a
  blank last line.
- `BackupsReadBack`: a backup gives back the text it was taken of after anything that happened
  to the core.
- `FilesAddressedUntilLoss`: a restore writes the base content under the last delta's
  hash, and finds the right row there unless the core was lost.
- `RestoresOntoBase`: onto a staged that reads as the backup's base, a restore gives the
  backed-up lines, unless a blank line was lost on the way (`BothInFull`, `Gives`).
- `SettledWritesDurable`, `UnitsWhole`: until a unit is rolled back, what is written outside units or by
  a finished unit is on disk, and nothing of an unfinished one.
- `CrashTearsOne`: calls are not transactions, and a crash tears at most the one it hit.
- `FailuresLeaveNoTrace`: a refused call or failing unit leaves the tables as they were, until a unit
  has been rolled back (then see Divergences).
- `BranchesStored`, `CheckpointsStored`: through commits, merges, transactions, removals,
  syncs and loads, the storage has what the memory has, unless a call failed since and but for
  the two steps of `SyncLoses`.
- `LogsWholeHistory`, `NearestInTime`, `RestorableStays`: see the comments in `CheckpointRestore`.
- `CommitUnseen`: nobody looks at the repository while a commit has moved the head and not entered
  the checkpoint.
- `PoisonedOnlyBranchless`: the lock is only poisoned in a service opened without a branch.
- `RefusalsChangeNothing`: a request refused for a malformed, taken or unknown name has written
  nothing by then. A switch whose branch is cleaned away between its lookups is the exception (the answer's cause is
  "gone").
- `AutoPersisted`: without requests on copies, tables and memory agree after every
  call, so a restart loses nothing that was answered.
- `LedgerKept`: refinement of `BranchLedger`. A stop inside a commit is a
  step that makes a checkpoint nobody points to (`Abandon`).

Several of the layers' are conditional on `ReadsBack`, the absence of a duplicated
delta in a chain; what happens without it is the first of the divergences.

## 5. Theorems

For every set of agents, features, clients, regions, lines, paths, branch names and
snapshots, every bound, every set of checkpoints, and all threads and requests,
however their calls interleave and their units nest:

| theorem | module | states |
|---|---|---|
| `TypeCorrect` | `LayeredPipelineProofs` | `Spec => []TypeOK` |
| `StoreStaysConsistent` | `LayeredPipelineProofs` | `Spec => []StoreConsistent` |
| `BaselinesStay` | `LayeredPipelineProofs` | `Spec => BaselinesPinned` |
| `NoFlowAcrossLayers` | `LayeredPipelineProofs` | `Spec => []NoCrossLayerFlow` |
| `SubmissionsPend` | `LayeredPipelineProofs` | `Spec => []SubmissionsStayPending` |
| `SubmissionsGetAnswers` | `LayeredPipelineProofs` | `Spec => SubmissionsAnswered` |
| `StagedMerges` | `LayeredPipelineProofs` | `Spec => StagedMergeIsThreeWay` |
| `EditsReadBack` | `LayeredPipelineProofs` | `Spec => FreshEditsReadBack` |
| `RoundsStayRepeatable` | `LayeredPipelineProofs` | `Spec => []RoundsRepeatable` |
| `TablesStayConsistent` | `LayerRequestsProofs` | `Spec => []TablesConsistent` |
| `ApprovalsRepeat` | `LayerRequestsProofs` | `Spec => []ApprovalRepeatable` |
| `AgentEditsIsolated` | `LayerRequestsProofs` | `Spec => []AgentsIsolated` |
| `RequestsAloneAreAtomic` | `LayerRequestsProofs` | `Spec => []AloneIsAtomic` |
| `GenerationsAlwaysGrow` | `CheckpointRestoreProofs` | `GrowthSpec => []GenerationsGrow` |
| `AncestryAlwaysExact` | `CheckpointRestoreProofs` | `GrowthSpec => []AncestryExact` |
| `AlwaysAcyclic` | `CheckpointRestoreProofs` | `GrowthSpec => []Acyclic` |
| `HistoryStaysComplete` | `CheckpointRepoProofs` | `ServiceSpec => []HistoryComplete` |
| `StaysPersisted` | `CheckpointRepoProofs` | `ServiceSpec => []AutoPersisted` |
| `LedgerRefined` | `CheckpointRepoProofs` | `ServiceSpec => LedgerKept` |
| `CopiesShare` | `CheckpointRepoProofs` | `Spec /\ [][~ LastBranchCleaned]_vars => []SharedInv`, the invariant the next two rest on |
| `HistorySurvivesCopies` | `CheckpointRepoProofs` | `Spec /\ [][~ LastBranchCleaned]_vars => []HistoryComplete` |
| `AncestrySurvivesCopies` | `CheckpointRepoProofs` | `Spec /\ [][~ LastBranchCleaned]_vars => []AncestryAnswered` |
| `SettledWritesDurableHolds` | `SqliteConnectionProofs` | `Spec => []SettledWritesDurable` |
| `UnitsWholeHolds` | `SqliteConnectionProofs` | `Spec => []UnitsWhole` |
| `CrashTearsOneHolds` | `SqliteConnectionProofs` | `Spec => []CrashTearsOne` |
| `FailuresLeaveNoTraceHolds` | `SqliteConnectionProofs` | `Spec => FailuresLeaveNoTrace` |
| `Invariance` | `ApiServerProofs` | `Spec => []Inv`, the invariant the next three rest on |
| `CommitsUnseen` | `ApiServerProofs` | `Spec => []CommitUnseen` |
| `PoisonIsBranchless` | `ApiServerProofs` | `Spec => []PoisonedOnlyBranchless` |
| `RefusalsAreClean` | `ApiServerProofs` | `Spec => []RefusalsChangeNothing` |
| `BranchesAlwaysStored` | `CheckpointRestoreProofs` | `Spec => []BranchesStored` |
| `CheckpointsAlwaysStored` | `CheckpointRestoreProofs` | `Spec /\ [][~ SyncLoses]_vars => []CheckpointsStored` |
| `RestorableAlwaysStays` | `CheckpointRestoreProofs` | `Spec /\ [][~ AttachLoses]_vars => RestorableStays` |
| `AlwaysNearestInTime` | `CheckpointRestoreProofs` | `Spec => []NearestInTime` |
| `LogsAlwaysWhole` | `CheckpointRestoreProofs` | `Spec => []LogsWholeHistory` |
| `DiffReproduces` | `TextProofs` | any diff of two texts fits the first and gives the lines of the second |
| `DiffsAlwaysReproduce` | `TextProofs` | `Session => []DiffsReproduce` |
| `OursAlwaysSurvives` | `TextProofs` | `Session => []OursSurvives` |
| `ApartChangesAlwaysLand` | `TextProofs` | `Session => []ApartChangesLand` |
| `BackupsAlwaysReadBack` | `TextProofs` | `Spec => []BackupsReadBack` |
| `FilesStayAddressed` | `TextProofs` | `Spec => []FilesAddressedUntilLoss` |
| `RestoresReproduce` | `TextProofs` | `Spec => RestoresOntoBase` |

**Assumptions.** `KeepAssumption` (the diff entry Keep is not a line),
`InitAssumption` (the initial file has a path and a text), `RankAssumption` (the features have
an order, and it is total: their partitions are named after them), `FeatureOfAssumption` (a type), `RequestsAssumption` and
`MaxRequestsAssumption` (the requests are of the kinds the transports accept, and
their bound is a number); `MainAssumption` (main is a
name), `NameRankAssumption` (names are totally ordered), `MaxMadeAssumption`
(the bound is a number), `NoneAssumption` (no thread and no snapshot is called
None), `ItemsAssumption` (requests make storage calls and enter units); `TextsAssumption` and
`SessionAssumption` (the texts given are sequences of lines, and the empty one ends in no
newline); `ContentsAssumption` (contents are sequences of snapshots) and `ReadingsAssumption`
(a clock shows natural numbers, finitely many of them in one behaviour). Nothing else is
assumed finite.

**The argument.** *Layer of functions.* Since an operation is a function from
tables to tables, each has a lemma: well-formed tables go to well-formed tables
that `Follow` the old ones, that is, keep their stored rows and the baselines
of existing partitions. `StoreSnapshotKeeps` and `PartitionWriteKeeps` prove it for the two
primitive writes, and the operations of `layered/` are compositions of those.
*Invariant.* `TypeOK` and `StoreConsistent` are not inductive: creating any
partition reads staged's pointer, a first approval reads the approval's
baseline. `Inv` adds that manual and staged always exist and that committed
baselines are stored; each action preserves it by its operation's lemma.
*Iron law 1.* `NoCrossLayerFlow` is not inductive either, because discards
return to the first parent of the current snapshot, approvals and rejections
to a baseline, branch switches to a checkpoint. `FlowInv` adds that first
parents, baselines and committed baselines are of a type the partition they
return to may hold.

*What is read back.* Four of the pipeline's theorems are about texts, however long
the chains of deltas. No induction over a chain is needed: `AppendedDelta` says that
one delta more is read as its own writes over the text before it, and
`DifferenceReadsBack` that a delta made of the difference to a text turns it into the
new one, both from the definition of the last write to a region. `EditMoves`,
`MergeMoves` and `MergeFeatureMoves` carry that to the operations (`MovedTo`: one
partition moves on to a child of its current snapshot that reads as the given text,
and the others stay). Where a delta occurs twice in the chain the old one is lost and
none of this holds, which is what `ReadsBack` is for. `RoundsRepeatable` then needs
`MergeSettles` (merging over what the merge wrote changes nothing) and that the first
round leaves baseline and feature alone. `SubmissionsPend` is an invariant about the
pointers and the lengths of histories: `Grown` says that no step takes a row from the approval
partition of an agent but the reset that answers it, and `Holds` that its pointer stays
where it is; a submission of the agent and a rollback of the partition are the cases left.

*Overlapping requests.* A request computes with what it has read, which may be stale,
so nothing about the current pointers is inductive for it. `Inv` of
`LayerRequestsProofs` keeps what stays true of its readings: the partitions are
still there on the same baseline, and the pointers, current once, name stored
snapshots of a type the partition may hold (`Recalls`). The steps it has left are
`Legal`, that is, what they are about to write is stored and of a type its target may
hold, and `Planned`: whatever a step reads was read before and not forgotten since,
or is read by a step that comes first. `RequestPlan` shows it of every request,
`FirstStep` and `...Served`, one lemma per storage call, that serving the first step
keeps it for the others (`Continues`). `EffectMakes` is the heart of it: an edit or
merge of stale readings stores a snapshot that fits the tables of now. Rows are never
changed and no step moves a baseline (`Later`), so what other requests do keeps the
invariant of this one (`JobLater`). `ApprovalRepeatable` holds of all such tables
(`ApprovalRepeats`). For `AgentsIsolated`, `IsolationInv` says where an edit of an
agent is that nobody else touches: still to be computed from the pointer of now
(`Computing`), with its snapshot stored and the pointer still to be moved (`Moving`),
or done and read back (`Edited`); `EditingOthers` keeps it through the steps of
others, which write no partition of an agent they do not name.

*A request alone.* `AloneIsAtomic` is about a request that has ended, and says nothing of one on
its way. `AloneInv` does: as long as nobody overlaps it, all others are idle, what it has read
is current (`Fresh`), and what the steps it has left make of the tables of now is what
all its steps make of those it found (`Towards`). `Did` is what one step does to tables that nobody
else touches, where a "make" stands for its moves too, and `After` is a list of steps one after
the other: a function on the number of steps (`RunExists`, `RunsAgree`). The list in `todo` changes as it is
served: "ensure" puts a create before the rest, "make" its moves, "list" and "rounds" the
next turn of the loop. `TakesItsPlace` says that the steps put in place of one must do what that one does,
and `...Alone` shows it of each storage call. For "make" this is `EffectAlike`: an edit or merge
of what was read is the same as one of what is there when the two agree on the partitions it
works on; for the loop it is `RoundsOneByOne`: merging the first feature left and then the others is
merging them all in the order of their ranks. That the loop ends needs that there is a last
feature, which every step keeps (`Bounded`), however many names there could be.
`RequestAfter` then says that all steps of a request make what `Atomic` makes. A branch switch
is one call and has a case of its own, because it chooses the head.

*The graph.* `add_edge` raises one generation and not those below it, so
"generations grow along edges" is preserved only because the child of a new
edge has no children. `Grown` says that the graph's nodes are the known
checkpoints and its edges and generations a graph over them (`IsDag`); each lemma
(`AddNodeKeeps`, `AddEdgeKeeps`, `RemoveNodeKeeps`) keeps that, and the first two
that the new node is a leaf. `LaterGenerations` shows that a search from a
node visits later generations only, because the nodes of later generations
are closed under edges; exactness and acyclicity follow. `Acyclic` is not checked
by a run of its own: it is a consequence of what `grows` checks.

*The repository.* `ServiceSpec` is one service with its restarts and its stops
between any two statements of a commit; no storage call fails in it and no
request has a repository of its own: section 6 says what becomes of `AutoPersisted`
and of the ledger when they do. `HistoryComplete` alone is not inductive: a
branch switch moves to any stored branch, a commit goes on from what is in
memory. `IInv` of `CheckpointRepoProofs` says that checkpoints are made after their parents
(`IsHistory`), that the stored checkpoints are closed under parents and hold every
stored head (`IsStored`), and that the repository is what the tables say, with a closed
set of checkpoints of its own (`IsCopy`): commit looks for its parent there and
`AutoPersisted` speaks of both.
`PersistedRows` says what the first k statements of a commit write; a checkpoint goes
before its head, so `IsStored` holds after every one of them (`PersistedIsStored`). `LoadedIsCopy` shows
that `load` gives such a copy, which needs that `list_branches` lists each branch once:
that finitely many names with distinct ranks can be sorted is `NamesSort`, where
a name's place is the number of names up to it. `HistoryInClosed` then gives the properties. For the
refinement, `MakeGrows` shows that a new checkpoint, or one made before, adds one pair to
the lineage; a stop after it is made is `Abandon`, a commit `Advance`. The graph is
not part of `IInv`.

*Requests on copies.* In `Spec` a request decides on a repository that it loaded earlier,
and the service commits, switches and restarts meanwhile. `SharedInv` says of the tables,
the service's repository and every copy alike that their graph agrees with the lineage as
far as it goes (`IsGraph`: edges lead from parents to children, no generation is beyond
the depth `d`, the longest way from the root, and the root leads to every node), and that it
`Settles` the heads that the repository has: the head lies in a set closed under parents of
checkpoints whose incoming edges are all there and whose generation is the depth. A copy's
checkpoints stay stored and its heads settled in the tables, because no request takes anything
away: `collect_garbage` protects the past of every head, the root is in it
(`PastHasRoot`), and `mark_reachable` goes from the root to every node, so that
there is no garbage (`NoGarbage`) and the tables only grow (`TablesGrow`,
`RepositoryOutlives`). `LoadedIsRepository` shows that both ways to load a graph, from its
rows (`GraphLoads`) and from the parents (`GraphBuilds`), give a graph with this
property, for every order of the rows: `LoadDag` and `BuildDag` are folds, unfolded
one entry at a time, with a minimal counterexample (`UpTo`) in place of an induction scheme.
`HistoryInClosed` then gives `HistoryComplete`, and `AncestorsKnown` gives
`AncestryAnswered`: within a settled set generations are depths, so the test on
generations never hides a path.

The argument needs a protected head. A clean of the only branch its copy has protects
nothing and deletes every checkpoint without an anchor, also the past of a branch that the
service has made since the copy was loaded: `LastBranchCleaned` is this step. `HistoryComplete`
is false after it, and the theorems and the `overlap` run are about the behaviours without it. They are also about databases that have had their graph tables from
the start, as `Init` says: in an older one `AncestryAnswered` can be false after a restart or a commit
(section 6). TLC checked `SharedInv`, with `d` computed, as an
invariant of `overlap` (377 830 states) before it was proved.

*The connection.* `SettledWritesDurable` and `UnitsWhole` say what is on disk, which does
not follow from the step before: releasing a unit is right
only if the savepoint on top is that unit's. `IInv` of `SqliteConnectionProofs` says
that a thread's frames nest as closures do (`Nested`: a request, units of depth one
more each, at most one call on top), that a thread has more than one frame exactly
if it owns the mutex (`MutexInv`), that without a savepoint what is read is what is on disk
(`StackInv`), and that as long as nothing was rolled back the disk is what the owner's
outermost unit found (`WholeInv`). `EnteredShape` and `LeftShape` are what pushing and popping a
frame do to the depths; `OneOwner` carries any step of one thread over to the mutex
and the number of open units. This part does not look at what a statement does
to the tables: it holds for every schema.

`CrashTearsOne` and `FailuresLeaveNoTrace` do. `DataInv` adds `CallInv`: the call that runs
is `Underway` from the tables it found, that is, at most one partition or edge is torn that
was not, and what its remaining statements count on holds (a row for the history row to
insert, a history that is not empty for a reset, no edge left at a node whose generation
goes). `StatementExecuted` takes every statement of every call one further;
`RefusedAtOnce` says that none but the first can be refused, so a refused call has changed
nothing; a call that is done has torn nothing (`TornByCall`). `TablesInv` bounds by the
number of crashes what is torn in the view between calls, on disk, and at every savepoint,
since a rollback brings any of them back. `RestoreInv` says that savepoint i is what the
i-th unit of the owner found, which `rolledBack = 0` is needed for.

*The transports.* The order of a request's steps carries the three theorems, and every
end of an ordered program is ordered (`TailOrder`), so `Inv` of `ApiServerProofs` speaks of
the steps left: names are looked up before anything is written (`LooksUpFirst`), a step
that may panic finds the lock dropped (`DropsBetween`, and `DropsFirst` while the
request holds it), a commit holds the lock from the move of the head to the end
(`CommitOrder`). With `WriterAlone`, which relates the lock to the requests that are past
their "write", this gives all three; that a panic under the lock needs a missing branch
is `PoisonedOnlyBranchless` itself, as part of `Inv`.

*The library.* None of its five properties is inductive, and all rest on one invariant of
types, `LibraryTyped` (`AlwaysTyped`): parents are checkpoints that were made (`MadeTyped`), the
index is in the order of time (`IsIndex`), branches have distinct names, and what repository,
tables and open transactions name was made. Its hard part is `FromCheckpoints`, which sorts the entries
of a map taken in any order: that there is an order by time to choose is an argument about
positions, the number of entries sooner than one.
The many calls come to few effects on branches, checkpoints and snapshots (`OneStep`), which
the three properties about storage go through:

- `BranchesTied`: a storage has no branch the memory has not, tracked or not, since only then
  is a `sync_all`, which stores the branches and deletes the removed, enough to make them equal.
- `CheckpointsTied`: a held checkpoint without a row is dirty, which is what `sync_all` relies on, and
  without failures no row is of one that is not held. The code breaks it in two places, both in
  `sync_all`, and `SyncLoses` says exactly which steps these are: one that fails to store a dirty
  checkpoint and forgets that it was dirty, and one that deletes a held checkpoint because it was
  removed before it was made again. Both are divergences of section 6. The theorem is about every behaviour without such a step.
- `SnapshotsTied`: what is cached over a storage is stored. Its one exception is a storage
  attached while something is cached (`AttachLoses`; see section 6): such a snapshot is gone at the next load.

TLC checked the three, with all calls in any order but for those steps, as invariants on two
checkpoints (181 694 states) before they were proved.
`NearestInTime` follows from the order of the index alone, by the code's cases (an exact hit, before the first, after
the last, between two). For `LogsWholeHistory`, `Queue` says of the loop that after k turns what
is visited or queued is without repetition, lies in any set that is closed under parents and
holds the start, and contains the parents of its first k. As there are no more ids than were made, after as many turns
every one has had its turn (a pigeonhole, `WalkIsWhole`), so it is closed
under parents, hence what the full search `Reached` visits.

*Lines.* `DiffReproduces` is about positions: the diff is read off an alignment, and
`apply_line_diff` goes by line numbers. The proof numbers the matches of an alignment,
with a place before and one after both texts (`IsAligned`; that a set of positions can be
counted up at all is `AscendingOrders`). A change stands at each place whose neighbours
are not neighbouring lines of both texts (`ChangedAt`), and `ChangesAligned` shows that these
are the changes `ChangesOf` lists. Between two changes the texts match line by line
(`BetweenChanges`, `EqualStretch`), so that after the change at a place the patched text is
the new one up to that place (`Reproduced`), an induction over the changes along the
loop (`PatchedInSteps`). That the loops of `LineMerge` have a value after each turn is
`LoopRuns`; `UpTo` is the induction. `DeltasApply` and `MergeIsText` say that reading a chain
and merging give texts, `JoinedGives` that joining lines gives them up to a blank last line,
`OneMoreDelta` that the lines of a chain with one delta more (`PatchedBy`, before they are joined)
are that delta applied to the lines before. Nothing is needed of which alignment the diff takes,
not even that it is a longest one.

*Merges.* Both theorems about a merge go through its loop turn by turn (`WalkInSteps`) and
through its fast paths. For `OursSurvives` it is enough that a turn which takes a change of ours
appends a part that holds what the change writes (`TurnHolds`, and `SameHolds` for two changes
of one line: ours, or a text of which ours is a prefix), and that what is held in order by two
parts is held by both together (`ConcatWithin`). `ApartChangesLand` compares the loop, which
counts changes, with a reference that counts lines: `Laying` relates them between two turns. What
was written, with the lines copied up to any place before the next change, is the first part of
the reference, as long as the changes done are those that start before the place. The changes of
a diff come in order with a line between them (`ChangesInOrder`: a matching line), so with the
sides apart the loop always takes the first change that is left of either (`ApartTurn`,
`NextOfList`), and writing it preserves `Laying` (`LayingGoesOn`). On the fast paths one side is
the base and the text is the other's, which is the reference by the same invariant along
`apply_line_diff` (`PatchedLands`); two equal sides that differ from the base have the same diff, and
are never apart.

*Backups.* `BackupsReadBack` needs that the row of the file init stored is never
another's (`InitFileKept`), since a copy takes the base's content from there and a restore
writes rows whose content is not that of their hash. `FilesAddressedUntilLoss` is not inductive:
a restore files a backup's base under the hash of its last delta's file. `FilesFound` adds that
until a loss every delta of every snapshot, every backup and the request that is being served
finds a row for its file, because an edit stores the row before the delta that names it; then the
restore's row is never the first. `RestoresOntoBase` needs that a request about to write could
read both texts (`ReadBeforeWritten`). Then the merge of a staged that reads as the base is
the backed-up text, and each of the three diffs that `merge_to_staged` may store turns the base
into its lines (`RestoreDiffs`: a new one by `DiffReproduces`, the only delta of the backup or
of staged because it did so when it was read); appended to a chain that does not
contain it, the delta is read last (`ReturnedAppend`). TLC checked `BackupInv` as an invariant of
`backups` before it was proved.

**Only model-checked.** Liveness (`RequestsReturn`) and `SomeoneSteps`, which uses ENABLED, are
out of the prover's reach. Every other property of a passing run is a theorem.

## 6. Findings and divergences

Two runs expect a violation: the property states the quoted comment, and the code
does otherwise.

| run | the code | says otherwise |
|---|---|---|
| `clean_snapshots` | the snapshot cleanup compares BLOBs with texts and deletes every snapshot | `connection.rs:200` |
| `failed_transaction` | `with_transaction` puts its closure's error aside, `with_atomic` sees a success and keeps what the failed transaction wrote | `layered.rs:198` |

Elsewhere the modules follow the code where it differs from a comment or a
document, and the properties are stated so as to hold of the code. No run shows
these; each was met while the property next to it was being stated. Of those marked (TLC) the
quoted sentence was stated as a property of the module, and TLC refuted it on the instance of its
run or on a smaller one.

*Layers.*
- A delta that occurs twice in a chain is returned once (`delta.rs:124`): an edit made, reversed
  and made again is not read back. Hence `ReadsBack` in several properties.
- The base of a manual merge is a copy of staged (`manual.rs:165`), so manual's text wins
  everywhere, against the comment at 123.
- An approval that finds nothing to merge returns before it clears the submission
  (`integrated.rs:145`), against `approval.rs:61`.
- The merge base of an approval is the feature's baseline, not the submission's
  (`integrated.rs:129`, against the comment at 111): a line the agent set back to what
  that baseline holds does not reach the feature. Approving an agent with nothing
  pending can rewrite the feature in the same way.
- `rollback_partition` appends to the history (`transition.rs:184`) and a second
  rollback returns to where the first one started; the comment at 166 says it pops. On an approval
  partition it leaves the baseline on the pending list, where `approval.rs:56` has only what an
  agent submitted (TLC). Hence the exception of `SubmissionsStayPending`.
- `branch_switch` moves and stores the current branch (`service.rs:670`) before the state machine
  finds that the head has no snapshot (`SwitchBranchFails`); docs/user-guide/02:614 has staged
  reset with the switch (TLC).
- Of two requests that merge into staged at once, the second moves staged off the first's merge,
  against iron law 3 of docs/architecture/03 (TLC). A commit that overlaps a merge packages what
  staged was before (`service.rs:585`), against `repo.rs:381` (TLC). `AloneIsAtomic` is about requests nobody
  overlaps.
- A staged snapshot never has an approval parent, so `rollback_staged_to_layer` to
  approval, which `check_rollback_valid` allows, always fails.
- `commit` does not look at `has_conflicts`; `validate_staged_for_commit` is not
  called on its path.
- A submission stored between an approval's read and its reset is reset with the one that was
  merged (`integrated.rs:175`): it is neither approved nor rejected.

*Engine.*
- A diff carries no newline of the last line and `apply_deltas` takes it from the base
  (`merge.rs:37`): a change of it is lost. `DiffsReproduce` speaks of lines.
- `merge_texts` compares only changes that start at one line (`merge.rs:238`); where one starts
  inside another, both are written and no conflict is returned, against the comment at 156 (TLC: base
  "a a", ours "c", theirs "a c" merge to "c c").
- `apply_deltas` and `merge_texts` lose a blank last line (`merge.rs:41`, 333): "b" edited to "a\n\n" reads
  back as "a\n", "a\n" edited to "\n" as nothing, against "the complete file content" of the comment at 4
  (TLC). Hence `Gives`.

*Connection.*
- A unit that fails is rolled back to its savepoint, which stays open (`connection.rs:36`): all that the
  process writes from then on is uncommitted until it ends, and a unit that contains the failed one
  rolls back to the inner savepoint, against `repository.rs:114` (TLC). Hence `rolledBack = 0` in `SettledWritesDurable`, `UnitsWhole` and
  `FailuresLeaveNoTrace`.
- `clean --all` swallows the errors of its DELETEs (`service.rs:1137`) and says that all was cleared.

*Backups.*
- `merge_to_staged` diffs the merged text against the *backup's base* and appends the result to
  the chain of staged (`backup_repo.rs:480`): unless staged reads as that base the result is no merge
  of the two, and where positions reach past its end staged cannot be read any more.
- A restore reads staged's chain and the source snapshot from the core (440) and fails after
  the loss that backups are for.
- After a loss a restore enters a base's content under another text's hash (118).

*Repository.*
- `merge` works on a repository of its own (`service.rs:716`): the service's next commit starts
  from its own head and writes that over the merge. Afterwards `branch_switch` finds two heads, and
  its `assert_eq!` (682) panics.
- A commit moves its head in memory before it stores anything (`repo.rs:422`) and stays there when the
  storage fails, against iron law 4 (TLC); `branch_create` then stores that head. A transaction does the same
  (`transaction.rs:172`), against the comment at 81 (TLC), and makes no entry in the time index. Hence
  `tracked`.
- `remove_branch` leaves the index `current_branch` as it is (`repo.rs:579`): the next branch becomes current,
  and past the end `sync_all` panics. A database whose checkpoints have no branch but an
  anchor opens a service without a branch, whose `commit` panics and poisons the lock.
- A graph rebuilt from the checkpoints (271) takes them in the order of a map and can give a
  node the generation of its descendant. In a database that was made before the graph tables this
  is how every graph is loaded, and after a restart `is_ancestor` can deny an ancestor; and since a rebuilt
  graph is not stored, a commit leaves its one edge in the tables, and the next process takes its
  graph from there (194) (TLC, both). `AncestryAnswered` is about databases that have had the tables
  from the start: there a graph is rebuilt only as long as the first branch's head has no row, and the order
  does not matter yet. `add_edge` between two
  nodes that have children can close a cycle (`dag.rs:77`); no caller adds such an edge.
- `sync_all` of a gc or git_commit request writes all the heads of its copy, over a commit
  made since it was loaded. It stores a checkpoint that was removed and made again, and then
  deletes it (345). It drains the set of dirty checkpoints while it stores them (332), and a drain
  that an error ends early leaves the set empty: the next `sync_all` stores the branches over
  checkpoints that have no row and succeeds, against the comment at 321 (TLC, both: `SyncLoses`). Snapshots
  cached before a storage was attached are never stored (TLC: `AttachLoses`).
- A checkpoint made a second time is entered in the time index a second time, and removing
  it leaves the first entry (`time_index.rs:36`). `get_ancestry_chain` (842) is not in the order
  its comment (819) says when paths have different lengths.
- `mark_reachable` keeps the descendants of what is protected, and the root is: cleaning a
  branch removes no checkpoint, unless it is the only one its copy has: that
  clean protects nothing and removes them all, with those of a branch that the service made after the
  copy was loaded, against `gc.rs:34` (TLC: `LastBranchCleaned`).
- `branch_switch` has the state machine look the branch up again after the repository switched to it
  (`service.rs:677`): a clean in between refuses the request, and the switch stays made and stored,
  against iron law 4 (TLC).
- The anchor that `git_commit` sets is not marked dirty and its row exists: it is never stored.

*Transports.* A panic over HTTP and a request that axum cannot deserialize are answered without
the envelope of docs/user-guide/02; an unknown backup, snapshot or checkpoint of some requests with
STORAGE_ERROR and 500 (`backup_repo.rs:104`); a taken branch name with INVALID_PARAMS
(`service.rs:637`). The command line exits with 1 whatever the error (`runtime.rs:254`).

## 7. Not modelled

- The git repository behind the git bridge, driven through git2. What the bridge does to
  checkpoints and branches is in `CheckpointRepo`.
- The contents of answers (status, show, log and diff texts), argument parsing, output,
  configuration files, serialisation of rows: they change no state.
- Creating the tables (`migrations.rs`); their keys are in `SqliteConnection`.
- `commit_staged_to_checkpoint`, `sync_layers`, `reset_staged` and `migrate_between_partitions`, which only
  tests call, and the flows of `layered/api.rs`, which compose calls that are modelled.
- `clean --layer` and listings. Two requests on copies of the repository at once, and stops
  inside one.
- Texts whose diffs have several hunks: the runs' texts are shorter than two contexts.

