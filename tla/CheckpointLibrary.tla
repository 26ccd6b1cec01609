-------------------------- MODULE CheckpointLibrary --------------------------
(***************************************************************************)
(* A CheckpointRepo as the library offers it: in memory or on a storage,   *)
(* with commits, merges, branches, removals, transactions, a time index    *)
(* and the queries of log and restore.  A storage is attached to it at any *)
(* time; it is loaded from one and synchronised with it.  A storage call   *)
(* may fail, and has then no effect.                                       *)
(*                                                                         *)
(* As in CheckpointRepo, a checkpoint's id is its index in made and stands *)
(* for the hash of its parents and snapshots; the time of creation is not  *)
(* part of it.                                                             *)
(***************************************************************************)
EXTENDS CheckpointDag, Integers, FiniteSets, SequencesExt

CONSTANTS
    Names, Main,    \* branch names, the one a new repository has
    Contents,       \* the sequences of snapshots that checkpoints are made of
    Removable,      \* branches that remove_branch is called for
    MaxMade,        \* bound: checkpoints a behaviour makes, entries of the time index
    Readings,       \* bound: what the clock shows
    MaxOpen,        \* bound: transactions open at a time
    MaxRemoved,     \* bound: checkpoints removed
    MaxFailures     \* bound: storage calls that fail

(* The times of a clock are natural numbers. *)
ASSUME ReadingsAssumption ==
    /\ Readings # {} /\ IsFiniteSet(Readings)
    /\ Readings \subseteq Nat
ASSUME ContentsAssumption == Contents \subseteq Seq(UNION {ToSet(c) : c \in Contents})

VARIABLES
    made,       \* every checkpoint ever made
    repo,       \* the repository
    rows,       \* the tables of its storage
    open,       \* transactions begun and not ended
    clock,      \* the time
    removed,    \* number of checkpoints removed
    failures,   \* number of failed storage calls
    tracked     \* whether every change since the storage knew all went to it

vars == <<made, repo, rows, open, clock, removed, failures, tracked>>

MaxTime == Max(Readings)
Root == 1
Ids == 1..Len(made)
Snaps == UNION {ToSet(c) : c \in Contents}

(* retain: those of a sequence that are in a set, in their order *)
Retain(list, S) ==
    LET kept[i \in 0..Len(list)] ==
            IF i = 0 THEN << >>
            ELSE IF list[i] \in S THEN Append(kept[i - 1], list[i]) ELSE kept[i - 1]
    IN  kept[Len(list)]

-----------------------------------------------------------------------------
(* Storage calls *)

NoRows == [checkpoints |-> << >>, branches |-> << >>, current |-> "", edges |-> {},
           gens |-> << >>, snapshots |-> {}]

(* What f says, and g where f says nothing *)
Over(f, g) == [x \in DOMAIN f \cup DOMAIN g |-> IF x \in DOMAIN f THEN f[x] ELSE g[x]]

(* INSERT OR IGNORE *)
StoreCheckpoint(r, id, time) ==
    IF id \in DOMAIN r.checkpoints THEN r ELSE [r EXCEPT !.checkpoints = Over(@, [n \in {id} |-> time])]

(* store_dag_edge for each of some edges: the generation of a child is        *)
(* replaced, that of a parent kept                                            *)
StoreDagEdges(r, edges, gens) ==
    [r EXCEPT !.edges = @ \cup edges,
              !.gens = Over([c \in {e[2] : e \in edges} |-> gens[c]],
                            Over(@, [p \in {e[1] : e \in edges} |-> 0]))]

(* Mutant of UpdateBranchHead: nothing is written. *)
HeadUnsaved(r, n, id) == r

(* UPDATE: no row, no effect *)
UpdateBranchHead(r, n, id) ==
    IF n \in DOMAIN r.branches THEN [r EXCEPT !.branches[n] = id] ELSE r

(* The head of every branch of a list, by its name *)
HeadsByName(branches) ==
    [n \in {branches[i].name : i \in DOMAIN branches} |->
        branches[CHOOSE i \in DOMAIN branches : branches[i].name = n].head]

(* store_branch for each of some branches *)
StoreBranches(r, branches) == [r EXCEPT !.branches = Over(HeadsByName(branches), @)]

DeleteBranches(r, names) == [r EXCEPT !.branches = [n \in DOMAIN @ \ names |-> @[n]]]

(* delete_checkpoint fails where there is no row; delete_dag_node does not *)
DeleteRows(r, ids) ==
    [r EXCEPT !.checkpoints = [n \in DOMAIN @ \ ids |-> @[n]],
              !.edges = {e \in @ : e[1] \notin ids /\ e[2] \notin ids},
              !.gens = [n \in DOMAIN @ \ ids |-> @[n]]]

-----------------------------------------------------------------------------
(* The repository *)

Held(rep) == DOMAIN rep.held
HasCurrent(rep) == rep.current \in DOMAIN rep.branches
CurrentName(rep) == rep.branches[rep.current].name
HeadOf(rep) == rep.branches[rep.current].head
FindBranch(rep, n) == {i \in DOMAIN rep.branches : rep.branches[i].name = n}

(* insert: checkpoints come in the order of their creation *)
Indexed(index, time, id) == Append(index, [time |-> time, id |-> id])

Orders(S) == {o \in [1..Cardinality(S) -> S] : \A n \in S : \E i \in DOMAIN o : o[i] = n}

(* from_checkpoints, in the order in which a map yields them: by time, those *)
(* of one time in that order                                                 *)
FromCheckpoints(held, order) ==
    LET Sooner(i, j) == held[order[i]] < held[order[j]] \/ (held[order[i]] = held[order[j]] /\ i < j)
        place == CHOOSE p \in Orders(DOMAIN order) : \A i, j \in DOMAIN p : i < j => Sooner(p[i], p[j])
    IN  [i \in DOMAIN place |-> [time |-> held[order[place[i]]], id |-> order[place[i]]]]

Parents(ids) == [n \in ids |-> made[n].parents]

NewRepo ==
    [held |-> [n \in {Root} |-> Min(Readings)], branches |-> <<[name |-> Main, head |-> Root]>>, current |-> 1,
     dag |-> AddNode(EmptyDag, Root), index |-> Indexed(<< >>, Min(Readings), Root), cached |-> {},
     dirty |-> {}, deletedCheckpoints |-> {}, deletedBranches |-> {}, stored |-> FALSE]

(* The tables that load of an empty database leaves *)
RootRows ==
    [NoRows EXCEPT !.checkpoints = [n \in {Root} |-> Min(Readings)], !.branches = [n \in {Main} |-> Root],
                   !.current = Main]

(* list_branches, in some fixed order of the names *)
SortedBranches(r) ==
    LET names == SetToSeq(DOMAIN r.branches)
    IN  [i \in DOMAIN names |-> [name |-> names[i], head |-> r.branches[names[i]]]]

(* load, when the map of checkpoints yields them in this order *)
LoadedInOrder(r, order) ==
    LET branches == SortedBranches(r)
        current  == {i \in DOMAIN branches : branches[i].name = r.current}
        linked   == SetToSeq({e[1] : e \in r.edges} \cup {e[2] : e \in r.edges})
    IN  [held |-> r.checkpoints, branches |-> branches,
         current |-> IF current = {} THEN 1 ELSE CHOOSE i \in current : TRUE,
         dag |-> IF branches # << >> /\ branches[1].head \in DOMAIN r.gens
                 THEN LoadDag(r.edges, r.gens, linked)
                 ELSE BuildDag(Parents(DOMAIN r.checkpoints), order),
         index |-> FromCheckpoints(r.checkpoints, order),
         cached |-> r.snapshots \cap UNION {ToSet(made[n].snaps) : n \in DOMAIN r.checkpoints},
         dirty |-> {}, deletedCheckpoints |-> {}, deletedBranches |-> {}, stored |-> TRUE]

-----------------------------------------------------------------------------
Init ==
    /\ made = <<[parents |-> << >>, snaps |-> << >>]>>
    /\ clock = Min(Readings)
    /\ \/ rows = NoRows /\ repo = NewRepo
       \/ rows = RootRows /\ repo = [NewRepo EXCEPT !.stored = TRUE]
    /\ tracked = repo.stored
    /\ open = {}
    /\ removed = 0 /\ failures = 0

Tick ==
    /\ clock' \in {t \in Readings : t > clock}
    /\ UNCHANGED <<made, repo, rows, open, removed, failures, tracked>>

(* A snapshot of a file is stored and cached by whoever makes it. *)
StoreSnapshot(s) ==
    /\ s \notin repo.cached
    /\ repo' = [repo EXCEPT !.cached = @ \cup {s}]
    /\ rows' = IF repo.stored THEN [rows EXCEPT !.snapshots = @ \cup {s}] ELSE rows
    /\ UNCHANGED <<made, open, clock, removed, failures, tracked>>

IdOf(cp) == IF \E i \in Ids : made[i] = cp THEN CHOOSE i \in Ids : made[i] = cp ELSE Len(made) + 1

Make(cp) ==
    /\ IdOf(cp) <= MaxMade
    /\ made' = IF IdOf(cp) \in Ids THEN made ELSE Append(made, cp)

Linked(dag, id, parents) == FoldLeft(LAMBDA d, p : AddEdge(d, p, id), AddNode(dag, id), parents)

(* What commits and merges do before their first storage call *)
Moved(rep, id, parents) ==
    [rep EXCEPT !.index = Indexed(@, clock, id), !.dag = Linked(@, id, parents),
                !.branches[rep.current].head = id]

(* ... the first k calls: the checkpoint, an edge from each parent, the head *)
Persisted(r, rep, id, parents, k) ==
    LET stored == IF k >= 1 THEN StoreCheckpoint(r, id, clock) ELSE r
        edges  == {<<parents[i], id>> : i \in {j \in DOMAIN parents : j < k}}
        linked == StoreDagEdges(stored, edges, rep.dag.gens)
    IN  IF k >= Len(parents) + 2 THEN UpdateBranchHead(linked, CurrentName(rep), id) ELSE linked

(* ... and their last two lines *)
Noted(rep, id) ==
    [rep EXCEPT !.held = Over([n \in {id} |-> clock], @), !.dirty = @ \cup {id}]

(* Making a checkpoint succeeds, or the storage call after the first k fails *)
MakeCheckpoint(cp) ==
    LET id    == IdOf(cp)
        moved == Moved(repo, id, cp.parents)
        calls == Len(cp.parents) + 2
    IN  /\ Make(cp)
        /\ Len(repo.index) < MaxMade
        /\ \/ /\ repo' = Noted(moved, id)
              /\ rows' = IF repo.stored THEN Persisted(rows, moved, id, cp.parents, calls) ELSE rows
              /\ UNCHANGED <<failures, tracked>>
           \/ /\ repo.stored /\ failures < MaxFailures
              /\ \E k \in 0..(calls - 1) : rows' = Persisted(rows, moved, id, cp.parents, k)
              /\ repo' = moved
              /\ failures' = failures + 1
              /\ tracked' = FALSE
        /\ UNCHANGED <<open, clock, removed>>

(* commit *)
Commit(snaps) ==
    /\ HasCurrent(repo)
    /\ snaps # << >>
    /\ HeadOf(repo) \in Held(repo)
    /\ made[HeadOf(repo)].snaps # snaps
    /\ MakeCheckpoint([parents |-> <<HeadOf(repo)>>, snaps |-> snaps])

(* commit_allow_empty *)
CommitAllowEmpty(snaps) ==
    /\ HasCurrent(repo)
    /\ MakeCheckpoint([parents |-> <<HeadOf(repo)>>, snaps |-> snaps])

(* merge_branches *)
MergeBranches(n, snaps) ==
    /\ HasCurrent(repo)
    /\ snaps # << >>
    /\ \E i \in FindBranch(repo, n) :
          MakeCheckpoint([parents |-> <<HeadOf(repo), repo.branches[i].head>>, snaps |-> snaps])

(* create_branch and create_branch_from *)
NewBranch(n, head) ==
    /\ FindBranch(repo, n) = {}
    /\ repo' = [repo EXCEPT !.branches = Append(@, [name |-> n, head |-> head])]
    /\ rows' = IF repo.stored THEN StoreBranches(rows, <<[name |-> n, head |-> head]>>) ELSE rows
    /\ UNCHANGED <<made, open, clock, removed, failures, tracked>>

CreateBranch(n) == HasCurrent(repo) /\ NewBranch(n, HeadOf(repo))

CreateBranchFrom(n, id) == id \in Held(repo) /\ NewBranch(n, id)

SwitchBranch(n) ==
    /\ \E i \in FindBranch(repo, n) : repo' = [repo EXCEPT !.current = i]
    /\ rows' = IF repo.stored THEN [rows EXCEPT !.current = n] ELSE rows
    /\ UNCHANGED <<made, open, clock, removed, failures, tracked>>

(* Vec::remove: the branches after it move up by one. *)
Without(branches, k) == [i \in 1..(Len(branches) - 1) |-> branches[IF i < k THEN i ELSE i + 1]]

(* remove_branch: current_branch stays the index it was *)
RemoveBranch(n) ==
    /\ \E k \in FindBranch(repo, n) :
          repo' = [repo EXCEPT !.branches = Without(@, k),
                               !.deletedBranches = IF repo.stored THEN @ ELSE @ \cup {n}]
    /\ rows' = IF repo.stored THEN DeleteBranches(rows, {n}) ELSE rows
    /\ UNCHANGED <<made, open, clock, removed, failures, tracked>>

(* time_index.remove *)
Unindexed(rep, id) == Retain(rep.index, ToSet(rep.index) \ {[time |-> rep.held[id], id |-> id]})

(* remove_checkpoint, which fails before delete_dag_node without a row *)
RemoveCheckpoint(id) ==
    /\ removed < MaxRemoved
    /\ removed' = removed + 1
    /\ id \in Held(repo)
    /\ repo' = [repo EXCEPT !.held = [n \in DOMAIN @ \ {id} |-> @[n]],
                            !.index = Unindexed(repo, id),
                            !.deletedCheckpoints = IF repo.stored THEN @ ELSE @ \cup {id},
                            !.dag = RemoveNode(@, id)]
    /\ rows' = IF repo.stored /\ id \in DOMAIN rows.checkpoints THEN DeleteRows(rows, {id}) ELSE rows
    /\ UNCHANGED <<made, open, clock, failures, tracked>>

-----------------------------------------------------------------------------
(* Transactions *)

(* transaction and add_snapshot: the parent is the head of this moment *)
BeginTransaction(snaps) ==
    /\ HasCurrent(repo)
    /\ Cardinality(open) < MaxOpen
    /\ open' = open \cup {[parents |-> <<HeadOf(repo)>>, snaps |-> snaps]}
    /\ UNCHANGED <<made, repo, rows, clock, removed, failures, tracked>>

(* rollback, and commit of an empty transaction *)
EndTransaction(tx) ==
    /\ open' = open \ {tx}
    /\ UNCHANGED <<made, repo, rows, clock, removed, failures, tracked>>

(* Mutant of TransactionRows: the snapshots are cached only. *)
TransactionWithoutSnapshots(r, tx, id, k) ==
    LET n      == Len(tx.snaps)
        stored == IF k > n THEN StoreCheckpoint(r, id, clock) ELSE r
    IN  IF k > n + 1 THEN UpdateBranchHead(stored, CurrentName(repo), id) ELSE stored

(* Mutant of TransactionRows: the checkpoint is left to sync_all. *)
TransactionUnsaved(r, tx, id, k) ==
    LET n == Len(tx.snaps)
        snaps == [r EXCEPT !.snapshots = @ \cup {tx.snaps[i] : i \in {j \in 1..n : j <= k}}]
    IN  IF k > n + 1 THEN UpdateBranchHead(snaps, CurrentName(repo), id) ELSE snaps

(* The first k storage calls of a transaction's commit: its snapshots, the   *)
(* checkpoint and the head                                                   *)
TransactionRows(r, tx, id, k) ==
    LET n      == Len(tx.snaps)
        snaps  == [r EXCEPT !.snapshots = @ \cup {tx.snaps[i] : i \in {j \in 1..n : j <= k}}]
        stored == IF k > n THEN StoreCheckpoint(snaps, id, clock) ELSE snaps
    IN  IF k > n + 1 THEN UpdateBranchHead(stored, CurrentName(repo), id) ELSE stored

(* store_checkpoint_internal in memory: no entry in the time index *)
TransactionMoved(tx, id) ==
    [Noted(repo, id) EXCEPT !.cached = @ \cup ToSet(tx.snaps), !.dag = Linked(@, id, tx.parents),
                            !.branches[repo.current].head = id]

CommitTransaction(tx) ==
    LET n  == Len(tx.snaps)
        id == IdOf(tx)
    IN  /\ HasCurrent(repo)
        /\ tx.snaps # << >>
        /\ open' = open \ {tx}
        /\ \/ /\ Make(tx)
              /\ repo' = TransactionMoved(tx, id)
              /\ rows' = IF repo.stored THEN TransactionRows(rows, tx, id, n + 2) ELSE rows
              /\ UNCHANGED <<failures, tracked>>
           \/ /\ repo.stored /\ failures < MaxFailures
              /\ Make(tx)
              /\ \E k \in 0..(n + 1) :
                    /\ rows' = TransactionRows(rows, tx, id, k)
                    /\ repo' = IF k >= n THEN TransactionMoved(tx, id)
                               ELSE [repo EXCEPT !.cached = @ \cup {tx.snaps[i] : i \in 1..k}]
              /\ failures' = failures + 1
              /\ tracked' = FALSE
        /\ UNCHANGED <<clock, removed>>

-----------------------------------------------------------------------------
(* The repository and its storage *)

(* attach_storage of an empty database *)
AttachStorage ==
    /\ ~repo.stored
    /\ repo' = [repo EXCEPT !.stored = TRUE, !.dirty = Held(repo)]
    /\ UNCHANGED <<made, rows, open, clock, removed, failures, tracked>>

(* The dirty checkpoints, each INSERT OR IGNORE, and the edges from their     *)
(* parents                                                                    *)
DirtyStored(r, rep) ==
    LET dirty == rep.dirty \cap Held(rep)
        edges == {e \in Ids \X (dirty \cap Nodes(rep.dag)) : e[1] \in ToSet(made[e[2]].parents)}
    IN  StoreDagEdges([r EXCEPT !.checkpoints = Over(@, [n \in dirty |-> rep.held[n]])], edges, rep.dag.gens)

(* sync_all: deletions come after what is stored, the branches last *)
Synced(r, rep) ==
    LET deleted  == DeleteBranches(DeleteRows(DirtyStored(r, rep), rep.deletedCheckpoints),
                                   rep.deletedBranches)
    IN  [StoreBranches(deleted, rep.branches) EXCEPT !.current = CurrentName(rep)]

Drained(rep) == [rep EXCEPT !.dirty = {}, !.deletedCheckpoints = {}, !.deletedBranches = {}]

SyncAll ==
    /\ repo.stored /\ HasCurrent(repo)
    /\ rows' = Synced(rows, repo)
    /\ repo' = Drained(repo)
    /\ tracked' = TRUE
    /\ UNCHANGED <<made, open, clock, removed, failures>>

(* Its first call fails: drain has emptied the set when it is dropped *)
SyncAllFails ==
    /\ repo.stored /\ repo.dirty \cap Held(repo) # {}
    /\ failures < MaxFailures
    /\ failures' = failures + 1
    /\ repo' = [repo EXCEPT !.dirty = {}]
    /\ tracked' = FALSE
    /\ UNCHANGED <<made, rows, open, clock, removed>>

(* rebuild_dag *)
RebuildDag ==
    LET held == IF repo.stored THEN rows.checkpoints ELSE repo.held
    IN  /\ \E order \in Orders(DOMAIN held) :
              repo' = [repo EXCEPT !.held = held,
                                   !.dag = BuildDag(Parents(DOMAIN held), order),
                                   !.index = FromCheckpoints(held, order)]
        /\ UNCHANGED <<made, rows, open, clock, removed, failures, tracked>>

(* load, in the next process *)
Load ==
    /\ repo.stored /\ DOMAIN rows.checkpoints # {}
    /\ \E order \in Orders(DOMAIN rows.checkpoints) : repo' = LoadedInOrder(rows, order)
    /\ open' = {}
    /\ tracked' = TRUE
    /\ UNCHANGED <<made, rows, clock, removed, failures>>

SnapshotNext == \E s \in Snaps : StoreSnapshot(s)

CommitNext ==
    \/ \E c \in Contents : Commit(c) \/ CommitAllowEmpty(c)
    \/ \E n \in Names, c \in Contents : MergeBranches(n, c)

BranchNext ==
    \/ \E n \in Names : CreateBranch(n) \/ SwitchBranch(n)
    \/ \E n \in Names, id \in Ids : CreateBranchFrom(n, id)

RemoveNext ==
    \/ \E n \in Removable : RemoveBranch(n)
    \/ \E id \in Ids : RemoveCheckpoint(id)

TransactionNext ==
    \/ \E c \in Contents : BeginTransaction(c)
    \/ \E tx \in open : EndTransaction(tx) \/ CommitTransaction(tx)

StorageNext == AttachStorage \/ SyncAll \/ SyncAllFails \/ RebuildDag \/ Load

Next == Tick \/ SnapshotNext \/ CommitNext \/ BranchNext \/ RemoveNext \/ TransactionNext \/ StorageNext

Spec == Init /\ [][Next]_vars
=============================================================================
