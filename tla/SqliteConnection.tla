--------------------------- MODULE SqliteConnection ---------------------------
(***************************************************************************)
(* SqliteStorage: one SQLite connection behind a reentrant mutex.  A       *)
(* storage call locks the mutex and executes its statements one by one;    *)
(* with_atomic locks it for a whole closure, between SAVEPOINT and RELEASE *)
(* or ROLLBACK TO, and the closure makes storage calls of its own.  A      *)
(* statement outside every savepoint commits on its own; the outermost     *)
(* savepoint opens a transaction, and only its RELEASE commits it.         *)
(*                                                                         *)
(* The data is reduced to what statements can disturb: per partition its   *)
(* row and its history rows, the edges and generation rows of the          *)
(* checkpoint DAG, and which of the remaining tables have rows.            *)
(***************************************************************************)
EXTENDS Naturals, Sequences, FiniteSets

CONSTANTS
    Threads,        \* threads that use clones of one SqliteStorage
    Partitions,     \* partition ids
    Snaps,          \* snapshot ids
    Nodes,          \* checkpoint ids in the DAG tables
    None,           \* no row, no thread
    Items,          \* calls, units and failures that requests and units are made of
    Requests,       \* what threads run: sequences of items
    MaxRequests,    \* bound: requests a behaviour starts
    MaxCrashes      \* bound: crashes

ASSUME NoneAssumption == None \notin Snaps /\ None \notin Threads

VARIABLES
    disk,           \* what is committed
    view,           \* what the connection reads: disk and the open transaction
    stack,          \* the view each open savepoint would roll back to
    owner,          \* thread that holds the mutex, or None
    thread,         \* per thread its frames, whether a call failed, what it found
    rolledBack,     \* history: units rolled back since the database was opened
    requests,       \* number of requests started
    crashes         \* number of crashes

vars == <<disk, view, stack, owner, thread, rolledBack, requests, crashes>>

-----------------------------------------------------------------------------
(* The database *)

(* Tables that clean empties beside the partitions *)
Tables == {"checkpoints", "time_index", "branches", "layers", "snapshots", "deltas"}

Databases == [row : [Partitions -> Snaps \cup {None}],
              history : [Partitions -> Seq(Snaps)],
              edges : SUBSET (Nodes \X Nodes),
              generations : SUBSET Nodes,
              filled : SUBSET Tables]

InitDatabase == [row |-> [p \in Partitions |-> None], history |-> [p \in Partitions |-> << >>],
                 edges |-> {}, generations |-> {}, filled |-> {}]

(* Statements SQLite refuses: the primary key of partitions, the foreign key *)
(* of partition_history, a SELECT of one row that finds none, and BEGIN or   *)
(* VACUUM while a transaction is open.                                       *)
Refused(s, d, open) ==
    \/ s.sql = "insert partition" /\ d.row[s.part] # None
    \/ s.sql = "insert history" /\ d.row[s.part] = None
    \/ s.sql = "delete partition" /\ d.history[s.part] # << >>
    \/ s.sql = "select baseline" /\ d.history[s.part] = << >>
    \/ s.sql \in {"batch", "vacuum"} /\ open

WithRow(d, p, x) == [d EXCEPT !.row[p] = x]

(* What a statement that is not refused does to the tables *)
Executed(s, d) ==
    CASE s.sql = "insert partition" -> WithRow(d, s.part, s.snap)
      [] s.sql = "update partition" -> IF d.row[s.part] = None THEN d ELSE WithRow(d, s.part, s.snap)
      [] s.sql = "update to baseline" ->
            IF d.row[s.part] = None THEN d ELSE WithRow(d, s.part, d.history[s.part][1])
      [] s.sql = "delete partition" -> WithRow(d, s.part, None)
      [] s.sql = "insert history" -> [d EXCEPT !.history[s.part] = Append(@, s.snap)]
      [] s.sql = "keep baseline" -> [d EXCEPT !.history[s.part] = SubSeq(@, 1, 1)]
      [] s.sql = "delete history" -> [d EXCEPT !.history[s.part] = << >>]
      [] s.sql = "insert edge" -> [d EXCEPT !.edges = @ \cup {s.edge}]
      [] s.sql = "number" -> [d EXCEPT !.generations = @ \cup {s.node}]
      [] s.sql = "batch" -> [d EXCEPT !.edges = @ \cup s.edges, !.generations = @ \cup s.nodes]
      [] s.sql = "delete edges" -> [d EXCEPT !.edges = {e \in @ : s.node \notin {e[1], e[2]}}]
      [] s.sql = "delete number" -> [d EXCEPT !.generations = @ \ {s.node}]
      [] s.sql = "fill" -> [d EXCEPT !.filled = @ \cup {s.table}]
      [] s.sql = "clear" ->
            [d EXCEPT !.filled = @ \ (IF s.table = "checkpoints" THEN {s.table, "time_index"}
                                      ELSE {s.table})]
      [] OTHER -> d

-----------------------------------------------------------------------------
(* Storage calls: the statements of each.  An error ends the call; a caller *)
(* hands it on unless it ignores it.                                        *)

Sql(name, p) == [sql |-> name, part |-> p]
SqlTo(name, p, x) == [sql |-> name, part |-> p, snap |-> x]

Call(statements) == [do |-> "call", ignored |-> FALSE, rest |-> statements]
Ignored(call) == [call EXCEPT !.ignored = TRUE]

CreatePartition(p, x) == Call(<<SqlTo("insert partition", p, x), SqlTo("insert history", p, x)>>)

UpdatePointer(p, x) == Call(<<SqlTo("update partition", p, x), SqlTo("insert history", p, x)>>)

ResetPartitionToBaseline(p) ==
    Call(<<Sql("select baseline", p), Sql("update to baseline", p), Sql("keep baseline", p)>>)

DeletePartition(p) == Call(<<Sql("delete history", p), Sql("delete partition", p)>>)

StoreDagEdge(parent, child) ==
    Call(<< [sql |-> "insert edge", edge |-> <<parent, child>>],
            [sql |-> "number", node |-> child], [sql |-> "number", node |-> parent] >>)

(* BEGIN, the inserts and COMMIT: nothing of it can fail after BEGIN, and a *)
(* crash before COMMIT undoes it, so it is one statement.                   *)
StoreDagBatch(edges, nodes) == Call(<<[sql |-> "batch", edges |-> edges, nodes |-> nodes]>>)

DeleteDagNode(n) == Call(<<[sql |-> "delete edges", node |-> n], [sql |-> "delete number", node |-> n]>>)

(* INSERT OR IGNORE of a snapshot, a delta, a checkpoint ... *)
Store(table) == Call(<<[sql |-> "fill", table |-> table]>>)

RunMaintenance == Call(<<[sql |-> "vacuum"]>>)

(* with_atomic(closure); a closure may fail on its own account.  The result *)
(* of with_transaction's closure is put aside: with_atomic gets an Ok.      *)
Fail == [do |-> "fail"]
WithAtomic(body) == [do |-> "atomic", ignored |-> FALSE, rest |-> body]
WithTransaction(body) == [WithAtomic(body) EXCEPT !.do = "transaction"]

StoreSnapshotsBatch == WithAtomic(<<Store("snapshots")>>)

ClearTables ==
    [i \in 1..6 |-> Ignored(Call(<<[sql |-> "clear", table |->
        <<"time_index", "checkpoints", "branches", "layers", "snapshots", "deltas">>[i]]>>))]

(* ApiService::clean with all; order lists the partitions by name *)
CleanAll(order) ==
    [do |-> "clean", ignored |-> FALSE,
     rest |-> [i \in 1..Len(order) |-> Ignored(DeletePartition(order[i]))] \o ClearTables]

Units == {"atomic", "transaction", "clean"}

(* The calls of SqliteStorage that write *)
PartitionCalls ==
    {CreatePartition(p, x) : p \in Partitions, x \in Snaps}
    \cup {UpdatePointer(p, x) : p \in Partitions, x \in Snaps}
    \cup {ResetPartitionToBaseline(p) : p \in Partitions}
    \cup {DeletePartition(p) : p \in Partitions}

(* A batch stores a whole graph, with the generations of all its nodes. *)
WholeGraphs ==
    {g \in [nodes : SUBSET Nodes, edges : SUBSET (Nodes \X Nodes)] :
        g.edges \subseteq g.nodes \X g.nodes}

DagCalls ==
    {StoreDagEdge(m, n) : m \in Nodes, n \in Nodes}
    \cup {StoreDagBatch(g.edges, g.nodes) : g \in WholeGraphs}
    \cup {DeleteDagNode(n) : n \in Nodes}

OtherCalls ==
    {Store(table) : table \in Tables}
    \cup {Call(<<[sql |-> "clear", table |-> table]>>) : table \in Tables}
    \cup {RunMaintenance}

StorageCalls == PartitionCalls \cup DagCalls \cup OtherCalls

(* Requests and the closures of units make storage calls and enter units;   *)
(* what else can fail in a closure is Fail.                                 *)
ASSUME ItemsAssumption ==
    /\ Requests \subseteq Seq(Items)
    /\ \A item \in Items :
          \/ item = Fail
          \/ item \in StorageCalls \cup {Ignored(call) : call \in StorageCalls}
          \/ /\ DOMAIN item = {"do", "ignored", "rest"}
             /\ item.do \in Units
             /\ item.rest \in Seq(Items)

-----------------------------------------------------------------------------
(* Threads: a frame per call or unit entered, the request's own at the bottom *)

(* depth counts the units among a frame and those under it; before is the *)
(* view when it was entered (history).                                    *)
Frame(item, depth, before) ==
    [do |-> item.do, rest |-> item.rest, ignored |-> item.ignored,
     depth |-> depth, before |-> before]

Idle == [frames |-> << >>, failed |-> FALSE]

Top(t) == thread[t].frames[Len(thread[t].frames)]
Under(t) == SubSeq(thread[t].frames, 1, Len(thread[t].frames) - 1)
Busy(t) == thread[t].frames # << >>

(* The frames with the first item of the top one taken *)
Taken(t) == [thread[t].frames EXCEPT ![Len(thread[t].frames)].rest = Tail(@)]

Init ==
    /\ disk = InitDatabase
    /\ view = InitDatabase
    /\ stack = << >>
    /\ owner = None
    /\ thread = [t \in Threads |-> Idle]
    /\ rolledBack = 0
    /\ requests = 0
    /\ crashes = 0

Start(t, request) ==
    /\ ~Busy(t)
    /\ requests < MaxRequests
    /\ requests' = requests + 1
    /\ thread' = [thread EXCEPT ![t] =
          [Idle EXCEPT !.frames =
              <<Frame([do |-> "request", rest |-> request, ignored |-> FALSE], 0, view)>>]]
    /\ UNCHANGED <<disk, view, stack, owner, rolledBack, crashes>>

Ready(t, kinds) == Busy(t) /\ Top(t).do \in kinds /\ ~thread[t].failed /\ Top(t).rest # << >>

(* Mutant of MayLock: a mutex that is not reentrant. *)
MayLockOnce(t) == owner = None

(* Mutant of MayLock: no mutex. *)
MayAlwaysLock(t) == TRUE

(* conn.lock(): the mutex is free, or this thread's already *)
MayLock(t) == owner \in {None, t}

(* A storage call locks the mutex *)
EnterCall(t) ==
    /\ Ready(t, {"request"} \cup Units)
    /\ LET item == Head(Top(t).rest)
       IN  /\ item.do = "call"
           /\ MayLock(t)
           /\ owner' = t
           /\ thread' = [thread EXCEPT ![t].frames = Append(Taken(t), Frame(item, Top(t).depth, view))]
    /\ UNCHANGED <<disk, view, stack, rolledBack, requests, crashes>>

(* with_atomic locks it and opens a savepoint *)
EnterUnit(t) ==
    /\ Ready(t, {"request"} \cup Units)
    /\ LET item == Head(Top(t).rest)
       IN  /\ item.do \in Units
           /\ MayLock(t)
           /\ owner' = t
           /\ thread' = [thread EXCEPT ![t].frames = Append(Taken(t), Frame(item, Top(t).depth + 1, view))]
    /\ stack' = Append(stack, view)
    /\ UNCHANGED <<disk, view, rolledBack, requests, crashes>>

(* The closure returns an error of its own *)
FailUnit(t) ==
    /\ Ready(t, Units)
    /\ Head(Top(t).rest).do = "fail"
    /\ thread' = [thread EXCEPT ![t].failed = TRUE]
    /\ UNCHANGED <<disk, view, stack, owner, rolledBack, requests, crashes>>

(* One statement of a call *)
Statement(t) ==
    /\ Ready(t, {"call"})
    /\ LET s == Head(Top(t).rest)
       IN  IF Refused(s, view, stack # << >>)
           THEN /\ thread' = [thread EXCEPT ![t].failed = TRUE]
                /\ UNCHANGED <<disk, view>>
           ELSE /\ view' = Executed(s, view)
                /\ disk' = IF stack = << >> THEN view' ELSE disk
                /\ thread' = [thread EXCEPT ![t].frames = Taken(t)]
    /\ UNCHANGED <<stack, owner, rolledBack, requests, crashes>>

Over(t, kinds) == Busy(t) /\ Top(t).do \in kinds /\ (thread[t].failed \/ Top(t).rest = << >>)

(* The guard is dropped: the mutex is free once the outermost one is *)
Unlocked(t) == IF Len(Under(t)) = 1 THEN None ELSE t

Popped(t) ==
    thread' = [thread EXCEPT ![t].frames = Under(t),
                             ![t].failed = @ /\ ~Top(t).ignored]

LeaveCall(t) ==
    /\ Over(t, {"call"})
    /\ owner' = Unlocked(t)
    /\ Popped(t)
    /\ UNCHANGED <<disk, view, stack, rolledBack, requests, crashes>>

(* Mutant of Release: the savepoint goes and the transaction stays open. *)
ReleaseOnly ==
    /\ stack' = SubSeq(stack, 1, Len(stack) - 1)
    /\ UNCHANGED <<disk, view, rolledBack>>

(* Mutant of Release: COMMIT in its place. *)
CommitAll ==
    /\ stack' = << >>
    /\ disk' = view
    /\ UNCHANGED <<view, rolledBack>>

(* RELEASE: the innermost savepoint goes; the outermost commits *)
Release ==
    /\ stack' = SubSeq(stack, 1, Len(stack) - 1)
    /\ disk' = IF Len(stack) = 1 THEN view ELSE disk
    /\ UNCHANGED <<view, rolledBack>>

(* Mutant of RollbackTo: nothing is rolled back. *)
RollbackNothing ==
    /\ rolledBack' = rolledBack + 1
    /\ UNCHANGED <<disk, view, stack>>

(* ROLLBACK TO: the view of the innermost savepoint, which stays open *)
RollbackTo ==
    /\ view' = stack[Len(stack)]
    /\ rolledBack' = rolledBack + 1
    /\ UNCHANGED <<disk, stack>>

LeaveUnit(t) ==
    /\ Over(t, Units)
    /\ IF thread[t].failed /\ Top(t).do # "transaction" THEN RollbackTo ELSE Release
    /\ owner' = Unlocked(t)
    /\ Popped(t)
    /\ UNCHANGED <<requests, crashes>>

(* The request is answered *)
Return(t) ==
    /\ Over(t, {"request"})
    /\ thread' = [thread EXCEPT ![t] = Idle]
    /\ UNCHANGED <<disk, view, stack, owner, rolledBack, requests, crashes>>

(* The process dies; what is not committed is gone.  SqliteStorage::new opens *)
(* the file again and the migrations find their tables in place.              *)
Crash ==
    /\ crashes < MaxCrashes
    /\ crashes' = crashes + 1
    /\ view' = disk
    /\ stack' = << >>
    /\ owner' = None
    /\ thread' = [t \in Threads |-> Idle]
    /\ rolledBack' = 0
    /\ UNCHANGED <<disk, requests>>

Enter(t) == EnterCall(t) \/ EnterUnit(t)
Leave(t) == LeaveCall(t) \/ LeaveUnit(t) \/ Return(t)

Serve(t) == Enter(t) \/ FailUnit(t) \/ Statement(t) \/ Leave(t)

Next ==
    \/ \E t \in Threads : Serve(t) \/ \E request \in Requests : Start(t, request)
    \/ Crash

Spec == Init /\ [][Next]_vars

(* Every thread is scheduled.  The number of requests is bounded, so a thread *)
(* that waits for the mutex finds it free in the end whatever its fairness.   *)
Fairness == \A t \in Threads : WF_vars(Serve(t))

FairSpec == Spec /\ Fairness

-----------------------------------------------------------------------------
(* Properties *)

(* As long as no unit has been rolled back, whatever a call or a unit wrote *)
(* is committed once the mutex is free.                                     *)
SettledWritesDurable == owner = None /\ rolledBack = 0 => disk = view

(* A unit is all or nothing: while a thread is in one, what a crash would  *)
(* leave is what its outermost unit found.                                 *)
UnitsWhole ==
    rolledBack = 0 => \A t \in Threads :
        Busy(t) /\ Top(t).depth > 0 => disk = thread[t].frames[2].before

(* What an interrupted call leaves behind: a partition whose pointer is not *)
(* its last history row, an edge with an end that has no generation.        *)
TornPartitions(d) ==
    {p \in Partitions :
        IF d.row[p] = None THEN d.history[p] # << >>
        ELSE d.history[p] = << >> \/ d.history[p][Len(d.history[p])] # d.row[p]}

TornEdges(d) == {e \in d.edges : ~({e[1], e[2]} \subseteq d.generations)}

Torn(d) == TornPartitions(d) \cup TornEdges(d)

InCall == \E t \in Threads : Busy(t) /\ Top(t).do = "call"

(* The tables fit each other whenever the mutex is free, although no call   *)
(* is a transaction: only a crash in the middle of a call tears one, and it *)
(* tears what that call was about and nothing else.                         *)
CrashTearsOne ==
    \A d \in {disk, view} : Cardinality(Torn(d)) <= crashes + (IF InCall THEN 1 ELSE 0)

(* A thread leaves its top frame with an error *)
FailsOut(t) ==
    /\ Busy(t) /\ thread[t].failed
    /\ Top(t).do # "request"
    /\ thread'[t].frames = Under(t)

(* A call that is refused, and a unit that fails, leave the tables as they *)
(* found them, as long as no unit had been rolled back before.             *)
FailuresLeaveNoTrace ==
    [][\A t \in Threads :
          FailsOut(t) /\ rolledBack = 0 /\ Top(t).do # "transaction" => view' = Top(t).before]_vars

(* Every request is answered: a thread that holds the mutex may lock it    *)
(* again in the calls of its closure.                                      *)
RequestsReturn == \A t \in Threads : Busy(t) ~> ~Busy(t)

(* A transaction of the state machine that fails leaves no trace: what the *)
(* code's comment says of it, and a run refutes (layered.rs:198).          *)
FailedTransactionsLeaveNoTrace ==
    [][\A t \in Threads : FailsOut(t) /\ Top(t).do = "transaction" => view' = Top(t).before]_vars
=============================================================================
