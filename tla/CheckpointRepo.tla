--------------------------- MODULE CheckpointRepo ---------------------------
(***************************************************************************)
(* Branches and checkpoints: the CheckpointRepo an ApiService keeps in     *)
(* memory for as long as it lives, the tables it persists to, and the      *)
(* repositories that merge, gc, git_commit, clean and pull load for one    *)
(* request each.  The process may stop between any two statements of a     *)
(* commit; storage calls that fail without a stop are left out.            *)
(*                                                                         *)
(* A checkpoint's id is the hash of its parents, snapshots, author and     *)
(* message.  Author and message are left out: checkpoints with the same    *)
(* parents and snapshots are one, and its index in made is its id.         *)
(***************************************************************************)
EXTENDS CheckpointDag, Integers, FiniteSets

CONSTANTS
    Names,          \* branch names
    Main,           \* the branch that load creates
    NameRank,       \* the ORDER BY name of list_branches
    Snaps,          \* snapshot ids
    MaxMade         \* bound: checkpoints a behaviour makes

ASSUME MainAssumption == Main \in Names
ASSUME NameRankAssumption ==
    /\ NameRank \in [Names -> Nat]
    /\ \A m, n \in Names : NameRank[m] = NameRank[n] => m = n
ASSUME MaxMadeAssumption == MaxMade \in Nat

VARIABLES
    made,       \* every checkpoint ever made
    rows,       \* the tables of checkpoints, branches and the graph
    repo,       \* the service's repository
    staged,     \* the snapshot the staged partition points to
    request     \* the repository of a request that has one of its own: none or one

vars == <<made, rows, repo, staged, request>>

Root == 1
Ids == 1..Len(made)

-----------------------------------------------------------------------------
(* Storage calls, as functions of the tables *)

(* INSERT OR IGNORE: what was written about a checkpoint when it was stored *)
(* stays; notes are its git_anchor and its snapshot_sources                 *)
StoreCheckpoint(r, notes, id) ==
    IF id \in r.checkpoints THEN r
    ELSE [r EXCEPT !.checkpoints = @ \cup {id}, !.notes = @ \cup {n \in notes : n.id = id}]

(* Mutant of StoreDagEdge: the parent's row is replaced. *)
StoreDagEdgeResets(r, p, c, gen, k) ==
    LET edges == IF k >= 1 THEN r.edges \cup {<<p, c>>} ELSE r.edges
        gens  == IF k >= 2 THEN [n \in DOMAIN r.gens \cup {p, c} |->
                                    IF n = c THEN gen ELSE IF n = p THEN 0 ELSE r.gens[n]]
                 ELSE r.gens
    IN  [r EXCEPT !.edges = edges, !.gens = gens]

(* The first k of the three statements of store_dag_edge *)
StoreDagEdge(r, p, c, gen, k) ==
    LET edges  == IF k >= 1 THEN r.edges \cup {<<p, c>>} ELSE r.edges
        stored == IF k >= 2 THEN [n \in DOMAIN r.gens \cup {c} |-> IF n = c THEN gen ELSE r.gens[n]]
                  ELSE r.gens
        gens   == IF k >= 3 /\ p \notin DOMAIN stored
                  THEN [n \in DOMAIN stored \cup {p} |-> IF n = p THEN 0 ELSE stored[n]]
                  ELSE stored
    IN  [r EXCEPT !.edges = edges, !.gens = gens]

(* Mutant of UpdateBranchHead: the branch that load creates moves. *)
UpdateMainHead(r, n, id) == [r EXCEPT !.branches[Main] = id]

(* UPDATE: no row, no effect *)
UpdateBranchHead(r, n, id) ==
    IF n \in DOMAIN r.branches THEN [r EXCEPT !.branches[n] = id] ELSE r

StoreBranches(r, branches) ==
    LET names == {branches[i].name : i \in DOMAIN branches}
    IN  [r EXCEPT !.branches = [n \in DOMAIN r.branches \cup names |->
            IF n \in names THEN (CHOOSE b \in {branches[i] : i \in DOMAIN branches} : b.name = n).head
            ELSE r.branches[n]]]

DeleteBranch(r, n) ==
    [r EXCEPT !.branches = [m \in DOMAIN r.branches \ {n} |-> r.branches[m]]]

(* delete_checkpoint and delete_dag_node *)
DeleteCheckpoints(r, ids) ==
    [r EXCEPT !.checkpoints = @ \ ids,
              !.notes = {n \in @ : n.id \notin ids},
              !.edges = {e \in @ : e[1] \notin ids /\ e[2] \notin ids},
              !.gens = [n \in DOMAIN r.gens \ ids |-> r.gens[n]]]

(* cleanup_orphan_snapshots: json_each yields the text of an id and the id    *)
(* column holds its bytes, so no id is ever IN the list and every row goes    *)
CleanupOrphanSnapshots(r) == [r EXCEPT !.snapshots = {}]

-----------------------------------------------------------------------------
(* The repository *)

HasCurrent(rep) == rep.current \in DOMAIN rep.branches
HeadOf(rep) == rep.branches[rep.current].head
CurrentName(rep) == rep.branches[rep.current].name
FindBranch(rep, n) == {i \in DOMAIN rep.branches : rep.branches[i].name = n}
HeadNamed(rep, n) == rep.branches[CHOOSE i \in FindBranch(rep, n) : TRUE].head

(* Load of an empty database creates the root checkpoint and main. *)
Opened(r) ==
    IF r.checkpoints # {} THEN r
    ELSE [StoreBranches(StoreCheckpoint(r, {}, Root), <<[name |-> Main, head |-> Root]>>)
            EXCEPT !.current = Main]

SortedBranches(r) ==
    LET names == CHOOSE s \in [1..Cardinality(DOMAIN r.branches) -> DOMAIN r.branches] :
                    \A i, j \in DOMAIN s : i < j => NameRank[s[i]] < NameRank[s[j]]
    IN  [i \in DOMAIN names |-> [name |-> names[i], head |-> r.branches[names[i]]]]

Orders(S) == {o \in [1..Cardinality(S) -> S] : \A n \in S : \E i \in DOMAIN o : o[i] = n}

(* The graphs that load may end with: from the graph tables when they know   *)
(* the first branch's head, else from the checkpoints.  The order of a map   *)
(* shows in the generations of nodes that have no row.                       *)
LoadedDags(r, ms) ==
    LET branches == SortedBranches(r)
        linked   == {e[1] : e \in r.edges} \cup {e[2] : e \in r.edges}
        orders   == IF linked \subseteq DOMAIN r.gens THEN {CHOOSE o \in Orders(linked) : TRUE}
                    ELSE Orders(linked)
    IN  IF branches # <<>> /\ branches[1].head \in DOMAIN r.gens
        THEN {LoadDag(r.edges, r.gens, o) : o \in orders}
        ELSE {BuildDag([n \in r.checkpoints |-> ms[n].parents], o) : o \in Orders(r.checkpoints)}

Loaded(r, dag) ==
    LET branches == SortedBranches(r)
        current  == {i \in DOMAIN branches : branches[i].name = r.current}
    IN  [branches |-> branches,
         current |-> IF current = {} THEN 1 ELSE CHOOSE i \in current : TRUE,
         checkpoints |-> r.checkpoints, notes |-> r.notes, dag |-> dag]

-----------------------------------------------------------------------------
(* Making a checkpoint *)

IdOf(cp) == IF \E i \in Ids : made[i] = cp THEN CHOOSE i \in Ids : made[i] = cp ELSE Len(made) + 1

Make(cp) ==
    /\ IdOf(cp) <= MaxMade
    /\ made' = IF IdOf(cp) \in Ids THEN made ELSE Append(made, cp)

(* commit and merge_branches up to their first storage call *)
HeadMoved(rep, id, parents) ==
    LET added  == AddNode(rep.dag, id)
        linked == AddEdge(added, parents[1], id)
    IN  [rep EXCEPT !.dag = IF Len(parents) = 1 THEN linked ELSE AddEdge(linked, parents[2], id),
                    !.branches[rep.current].head = id]

Statements(parents) == 2 + 3 * Len(parents)

(* The first k statements with which they persist the checkpoint *)
Persisted(r, rep, id, parents, k) ==
    LET stored == IF k >= 1 THEN StoreCheckpoint(r, rep.notes, id) ELSE r
        first  == StoreDagEdge(stored, parents[1], id, rep.dag.gens[id], k - 1)
        linked == IF Len(parents) = 1 THEN first
                  ELSE StoreDagEdge(first, parents[2], id, rep.dag.gens[id], k - 4)
    IN  IF k >= Statements(parents) THEN UpdateBranchHead(linked, CurrentName(rep), id) ELSE linked

(* ... and their last line *)
Recorded(rep, id) == [rep EXCEPT !.checkpoints = @ \cup {id}]

Noted(rep, id, key) == [rep EXCEPT !.notes = @ \cup {[id |-> id, key |-> key]}]

(* sync_all: what a request makes it persists at once, so the branches and    *)
(* the current branch are what is left to store.  The last line indexes the   *)
(* branches by current_branch and panics when the index is beyond them.       *)
Synced(r, rep) ==
    LET synced == StoreBranches(r, rep.branches)
    IN  IF HasCurrent(rep) THEN [synced EXCEPT !.current = CurrentName(rep)] ELSE synced

-----------------------------------------------------------------------------
(* Garbage collection *)

(* From each of some checkpoints to its parents *)
ParentEdges(ms, ids) ==
    {e \in ids \X DOMAIN ms : \E i \in DOMAIN ms[e[1]].parents : ms[e[1]].parents[i] = e[2]}

(* Mutant of CollectProtected: heads without their ancestors. *)
CollectHeads(rep) == {rep.branches[i].head : i \in DOMAIN rep.branches}

(* collect_protected_checkpoints *)
CollectProtected(rep) ==
    UNION {Visited(ParentEdges(made, rep.checkpoints), rep.branches[i].head) : i \in DOMAIN rep.branches}
    \cup {n \in Nodes(rep.dag) \cap rep.checkpoints : [id |-> n, key |-> "git_anchor"] \in rep.notes}

(* mark_reachable *)
MarkReachable(rep, protected) == UNION {Visited(rep.dag.edges, n) : n \in protected}

(* What collect_garbage removes: remove_checkpoint fails for unknown nodes. *)
Garbage(rep) ==
    (Nodes(rep.dag) \cap rep.checkpoints) \ MarkReachable(rep, CollectProtected(rep))

RemoveCheckpoints(rep, ids) ==
    [rep EXCEPT !.checkpoints = @ \ ids,
                !.notes = {n \in @ : n.id \notin ids},
                !.dag = [edges |-> {e \in rep.dag.edges : e[1] \notin ids /\ e[2] \notin ids},
                         gens  |-> [n \in Nodes(rep.dag) \ ids |-> rep.dag.gens[n]]]]

-----------------------------------------------------------------------------
Init ==
    /\ made = <<[parents |-> <<>>, snaps |-> <<>>]>>
    /\ staged \in Snaps
    /\ rows = [checkpoints |-> {Root}, notes |-> {}, branches |-> [n \in {Main} |-> Root],
               current |-> Main, edges |-> {}, gens |-> <<>>, snapshots |-> {staged}]
    /\ repo = [branches |-> <<[name |-> Main, head |-> Root]>>, current |-> 1,
               checkpoints |-> {Root}, notes |-> {}, dag |-> AddNode(EmptyDag, Root)]
    /\ request = {}

(* Edits and reviews give staged a snapshot, new or not. *)
Stage(s) ==
    /\ staged' = s
    /\ rows' = [rows EXCEPT !.snapshots = @ \cup {s}]
    /\ UNCHANGED <<made, repo, request>>

StagedCheckpoint == [parents |-> <<HeadOf(repo)>>, snaps |-> <<staged>>]

(* The guards of commit: a known head, and something to commit *)
CanCommit ==
    /\ HasCurrent(repo)
    /\ HeadOf(repo) \in repo.checkpoints
    /\ made[HeadOf(repo)].snaps # <<staged>>

(* ApiService::commit *)
Commit ==
    LET cp       == StagedCheckpoint
        id       == IdOf(cp)
        moved    == HeadMoved(repo, id, cp.parents)
        recorded == Recorded(moved, id)
        noted    == IF staged \in rows.snapshots THEN Noted(recorded, id, "source") ELSE recorded
    IN  /\ CanCommit
        /\ Make(cp)
        /\ repo' = noted
        /\ rows' = StoreCheckpoint(Persisted(rows, moved, id, cp.parents, Statements(cp.parents)),
                                   noted.notes, id)
        /\ UNCHANGED <<staged, request>>

(* Another process opens the database; requests end with the old one. *)
Reopen(r) ==
    /\ rows' = Opened(r)
    /\ \E dag \in LoadedDags(Opened(r), made') : repo' = Loaded(Opened(r), dag)
    /\ request' = {}
    /\ UNCHANGED staged

Restart ==
    /\ UNCHANGED made
    /\ Reopen(rows)

(* The process stops in a commit after k statements. *)
StopDuringCommit(k) ==
    LET cp == StagedCheckpoint
        id == IdOf(cp)
    IN  /\ CanCommit
        /\ k < Statements(cp.parents)
        /\ Make(cp)
        /\ Reopen(Persisted(rows, HeadMoved(repo, id, cp.parents), id, cp.parents, k))

(* ApiService::branch_create *)
BranchCreate(n) ==
    LET branch == [name |-> n, head |-> HeadOf(repo)]
    IN  /\ FindBranch(repo, n) = {}
        /\ HasCurrent(repo)
        /\ rows' = StoreBranches(rows, <<branch>>)
        /\ repo' = [repo EXCEPT !.branches = Append(@, branch)]
        /\ UNCHANGED <<made, staged, request>>

(* Mutant of BranchSwitch: the current branch is switched in memory only. *)
BranchSwitchUnsaved(n) ==
    /\ n \in DOMAIN rows.branches
    /\ FindBranch(repo, n) # {}
    /\ repo' = [repo EXCEPT !.current = CHOOSE i \in FindBranch(repo, n) : TRUE]
    /\ UNCHANGED <<made, rows, staged, request>>

(* ApiService::branch_switch: the repository switches by its own branches,   *)
(* the state machine resets staged by the table's                            *)
BranchSwitch(n) ==
    /\ n \in DOMAIN rows.branches
    /\ FindBranch(repo, n) # {}
    /\ repo' = [repo EXCEPT !.current = CHOOSE i \in FindBranch(repo, n) : TRUE]
    /\ rows' = [rows EXCEPT !.current = n]
    /\ LET head == rows.branches[n] IN
        staged' = IF head \in rows.checkpoints /\ made[head].snaps # <<>>
                  THEN made[head].snaps[1] ELSE staged
    /\ UNCHANGED <<made, request>>

(* ApiService::checkpoint_rollback *)
CheckpointRollback(id) ==
    /\ id \in repo.checkpoints
    /\ made[id].snaps # <<>>
    /\ staged' = made[id].snaps[1]
    /\ UNCHANGED <<made, rows, repo, request>>

-----------------------------------------------------------------------------
(* Requests with a repository of their own *)

(* load_checkpoint_repo; which request it is shows in the step it takes next *)
LoadRepo ==
    /\ request = {}
    /\ rows' = Opened(rows)
    /\ \E dag \in LoadedDags(Opened(rows), made) : request' = {Loaded(Opened(rows), dag)}
    /\ UNCHANGED <<made, repo, staged>>

Answer == request' = {}

(* ApiService::merge: staged takes the source's snapshots one by one *)
Merge(rep, n) ==
    LET source == HeadNamed(rep, n)
        cp     == [parents |-> <<HeadOf(rep), source>>, snaps |-> made[source].snaps]
        id     == IdOf(cp)
    IN  /\ HasCurrent(rep) /\ FindBranch(rep, n) # {} /\ source \in rep.checkpoints
        /\ cp.snaps # <<>>
        /\ Make(cp)
        /\ staged' = cp.snaps[Len(cp.snaps)]
        /\ rows' = Persisted(rows, HeadMoved(rep, id, cp.parents), id, cp.parents, Statements(cp.parents))
        /\ Answer
        /\ UNCHANGED repo

(* ApiService::gc *)
Gc(rep) ==
    LET garbage == Garbage(rep)
    IN  /\ rows' = Synced(DeleteCheckpoints(rows, garbage), RemoveCheckpoints(rep, garbage))
        /\ Answer
        /\ UNCHANGED <<made, repo, staged>>

(* ApiService::git_commit: the anchor is set in memory *)
GitCommit(rep) ==
    /\ HasCurrent(rep) /\ HeadOf(rep) \in rep.checkpoints
    /\ made[HeadOf(rep)].snaps # <<>>
    /\ \A i \in DOMAIN made[HeadOf(rep)].snaps : made[HeadOf(rep)].snaps[i] \in rows.snapshots
    /\ rows' = Synced(rows, Noted(rep, HeadOf(rep), "git_anchor"))
    /\ Answer
    /\ UNCHANGED <<made, repo, staged>>

(* Vec::remove: the branches after it move up by one. *)
Without(branches, k) == [i \in 1..(Len(branches) - 1) |-> branches[IF i < k THEN i ELSE i + 1]]

(* remove_branch, of a branch that find_branch finds *)
BranchRemoved(rep, n) ==
    [rep EXCEPT !.branches = Without(@, CHOOSE k \in FindBranch(rep, n) : TRUE)]

(* ApiService::clean of a branch: remove_branch leaves current_branch as it  *)
(* is; when sync_all panics, the cleanup after it is not reached             *)
Clean(rep, n) ==
    LET removed  == BranchRemoved(rep, n)
        garbage  == Garbage(removed)
        synced   == Synced(DeleteCheckpoints(DeleteBranch(rows, n), garbage),
                           RemoveCheckpoints(removed, garbage))
    IN  /\ rows' = IF FindBranch(rep, n) = {} THEN CleanupOrphanSnapshots(rows)
                   ELSE IF HasCurrent(removed) THEN CleanupOrphanSnapshots(synced)
                   ELSE synced
        /\ Answer
        /\ UNCHANGED <<made, repo, staged>>

(* ApiService::pull: a commit of the git tree's snapshot, then its anchor *)
Pull(rep, s) ==
    LET cp    == [parents |-> <<HeadOf(rep)>>, snaps |-> <<s>>]
        id    == IdOf(cp)
        moved == HeadMoved(rep, id, cp.parents)
        done  == Persisted(rows, moved, id, cp.parents, Statements(cp.parents))
    IN  /\ HasCurrent(rep) /\ HeadOf(rep) \in rep.checkpoints
        /\ made[HeadOf(rep)].snaps # <<s>>
        /\ Make(cp)
        /\ rows' = [Synced(done, Noted(Recorded(moved, id), id, "git_anchor"))
                        EXCEPT !.snapshots = @ \cup {s}]
        /\ Answer
        /\ UNCHANGED <<repo, staged>>

(* The git tree is what the head holds already. *)
PullFindsNothing(rep, s) ==
    /\ HasCurrent(rep)
    /\ HeadOf(rep) \in rep.checkpoints => made[HeadOf(rep)].snaps = <<s>>
    /\ rows' = [rows EXCEPT !.snapshots = @ \cup {s}]
    /\ Answer
    /\ UNCHANGED <<made, repo, staged>>

(* An unknown branch, nothing to merge or commit, no git repository: the    *)
(* request ends before it writes.                                           *)
RequestFails ==
    /\ request # {}
    /\ Answer
    /\ UNCHANGED <<made, rows, repo, staged>>

ServiceNext ==
    \/ \E s \in Snaps : Stage(s)
    \/ Commit
    \/ \E n \in Names : BranchCreate(n) \/ BranchSwitch(n)
    \/ \E id \in Ids : CheckpointRollback(id)
    \/ Restart
    \/ \E k \in 1..4 : StopDuringCommit(k)

RequestNext ==
    \/ LoadRepo
    \/ \E rep \in request :
        \/ \E n \in Names : Merge(rep, n)
        \/ Gc(rep)
        \/ GitCommit(rep)
        \/ \E n \in Names : Clean(rep, n)
        \/ \E s \in Snaps : Pull(rep, s) \/ PullFindsNothing(rep, s)
    \/ RequestFails

Next == ServiceNext \/ RequestNext

Spec == Init /\ [][Next]_vars

(* One service and its restarts, no other copy of the repository *)
ServiceSpec == Init /\ [][ServiceNext]_vars

-----------------------------------------------------------------------------
Branches == [name : Names, head : Ids]
Notes == [id : Ids, key : {"source", "git_anchor"}]

IsRepo(rep) ==
    /\ rep.branches \in Seq(Branches) /\ rep.current \in Nat
    /\ \A i, j \in DOMAIN rep.branches : rep.branches[i].name = rep.branches[j].name => i = j
    /\ rep.checkpoints \subseteq Ids /\ rep.notes \subseteq Notes
    /\ Nodes(rep.dag) \subseteq Ids /\ rep.dag.edges \subseteq Nodes(rep.dag) \X Nodes(rep.dag)
    /\ rep.dag.gens \in [Nodes(rep.dag) -> Nat]

(* Ids are those of made checkpoints, a checkpoint is made after its parents,  *)
(* and a repository has a branch once.                                         *)
TypeOK ==
    /\ \A i \in Ids : made[i].parents \in Seq(1..(i - 1)) /\ made[i].snaps \in Seq(Snaps)
    /\ rows.checkpoints \subseteq Ids /\ rows.notes \subseteq Notes
    /\ rows.edges \subseteq Ids \X Ids /\ rows.current \in Names /\ rows.snapshots \subseteq Snaps
    /\ DOMAIN rows.branches \subseteq Names /\ rows.branches \in [DOMAIN rows.branches -> Ids]
    /\ DOMAIN rows.gens \subseteq Ids /\ rows.gens \in [DOMAIN rows.gens -> Nat]
    /\ IsRepo(repo) /\ staged \in Snaps
    /\ \A rep \in request : IsRepo(rep)

(* A checkpoint with all its ancestors *)
History(ms, id) == Visited(ParentEdges(ms, DOMAIN ms), id)

(* A clean removes the only branch that its copy of the repository has: then   *)
(* the copy protects nothing, and what branches made since it was loaded need  *)
(* is deleted with the rest.                                                   *)
LastBranchCleaned ==
    \E rep \in request, n \in Names :
        (\A i \in DOMAIN rep.branches : rep.branches[i].name = n) /\ Clean(rep, n)

(* Every stored branch leads to a stored checkpoint, and from there through    *)
(* stored parents to the root: no stop in a commit, no repository loaded       *)
(* before others committed, and no gc or clean on one leaves a hole in a       *)
(* branch's past, but for LastBranchCleaned                                    *)
(* (checkpoint/repo.rs:410-436, git_sync/gc.rs:37-66, 100-134).                *)
HistoryComplete ==
    \A n \in DOMAIN rows.branches : History(made, rows.branches[n]) \subseteq rows.checkpoints

(* The service's graph answers is_ancestor for all pairs in the past of its    *)
(* branches, after any restart, in a database that has had its graph tables    *)
(* from the start: a stop may have left them without some rows, or without     *)
(* any (checkpoint/repo.rs:194-218).  But for LastBranchCleaned, and not in a  *)
(* database older than those tables.                                           *)
AncestryAnswered ==
    \A i \in DOMAIN repo.branches : \A y \in History(made, repo.branches[i].head) :
        \A x \in History(made, y) : IsAncestor(repo.dag, x, y)

(* "When storage is set, mutations auto-persist" (checkpoint/repo.rs:94):      *)
(* a process that opens the database gets the branches, the current branch     *)
(* and the history that the service has in memory.                             *)
AutoPersisted ==
    /\ DOMAIN rows.branches = {repo.branches[i].name : i \in DOMAIN repo.branches}
    /\ \A i \in DOMAIN repo.branches :
        /\ rows.branches[repo.branches[i].name] = repo.branches[i].head
        /\ History(made, repo.branches[i].head) \subseteq rows.checkpoints \cap repo.checkpoints
    /\ rows.current = CurrentName(repo)

Ledger == INSTANCE BranchLedger WITH
    Ids <- 1..MaxMade,
    heads <- rows.branches,
    current <- rows.current,
    lineage <- ParentEdges(made, Ids)

(* The tables, as one service and its restarts leave them after every step     *)
(* and every stop inside a commit, are a branch ledger: the current branch     *)
(* alone moves, to a child of its head, and a new one starts where it is.      *)
LedgerKept == Ledger!Spec

(* The snapshots that a stored checkpoint refers to are stored.                *)
ReferencedSnapshotsStored ==
    \A id \in rows.checkpoints : \A i \in DOMAIN made[id].snaps : made[id].snaps[i] \in rows.snapshots
=============================================================================
