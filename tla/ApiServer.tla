----------------------------- MODULE ApiServer -----------------------------
(***************************************************************************)
(* The transports: requests that run at once on one ApiService, the locks  *)
(* they take, and the answers they get.  A request is the sequence of its  *)
(* steps: calls that take the connection's mutex, the lock around the      *)
(* repository in memory, the mutex of the backup database, and the places  *)
(* where a name is looked up or the code may panic.  What calls compute is *)
(* the matter of the other modules.                                        *)
(*                                                                         *)
(* HTTP runs a handler on the thread of a worker, gRPC on one of a pool;   *)
(* a command-line process is a service with one request.                   *)
(***************************************************************************)
EXTENDS Naturals, Sequences, FiniteSets

CONSTANTS
    Clients,        \* each has one request at a time
    NoClient,       \* none of them
    Workers,        \* threads that run handlers
    Ops             \* the requests that clients make

ASSUME NoClientAssumption == NoClient \notin Clients
ASSUME WorkersAssumption == Workers \in Nat \ {0}

VARIABLES
    transport,  \* "http", "grpc" or "cli"
    job,        \* what each client asked and how far it is
    lock,       \* the RwLock around the service's CheckpointRepo
    mutex,      \* the re-entrant mutexes of the two connections
    memory,     \* the repository in memory
    table,      \* the tables of checkpoints and branches
    cleaned     \* switches between whose lookups a branch was removed

vars == <<transport, job, lock, mutex, memory, table, cleaned>>

-----------------------------------------------------------------------------
(* What the transports serve, and where a request's fields come from *)

HttpEdits == [init |-> "body", status |-> "nothing", edit |-> "body", agent_edit |-> "body",
              agent_submit |-> "path", approve |-> "path"]
HttpHistory == [commit |-> "body", log |-> "query", branch_list |-> "nothing",
                branch_create |-> "body", branch_switch |-> "path", merge |-> "body",
                backup |-> "body", restore |-> "body"]
HttpUpkeep == [gc |-> "nothing", git_commit |-> "body", clean_branch |-> "body",
               clean_all |-> "body", pull |-> "body", show_partition |-> "query",
               show_checkpoint |-> "query"]
HttpReviews == [list_pending_approvals |-> "nothing", approve_agent |-> "body",
                reject_agent |-> "body", merge_to_unified |-> "body", merge_to_staged |-> "body",
                compact |-> "body"]
HttpCheckpoints == [checkpoint_restore |-> "body", checkpoint_restore_by_time |-> "body",
                    checkpoint_diff |-> "body", checkpoint_rollback |-> "body"]

(* A gRPC request is one message. *)
GrpcEdits == [op \in DOMAIN HttpEdits |-> "message"]
GrpcHistory == [op \in DOMAIN HttpHistory |-> "message"]
GrpcUpkeep == [op \in DOMAIN HttpUpkeep \cup {"compact"} |-> "message"]
GrpcCheckpoints == [op \in DOMAIN HttpCheckpoints |-> "message"]
GrpcReviews == [op \in DOMAIN HttpReviews \ {"compact"} |-> "message"]

(* Commands that miss an option which the parser does not require *)
CliEdits == [op \in DOMAIN HttpEdits \ {"approve"} |-> "arguments"]
CliHistory == [op \in DOMAIN HttpHistory |-> "arguments"]
CliUpkeep == [op \in DOMAIN HttpUpkeep \cup {"compact"} |->
                IF op \in {"git_commit", "pull", "clean_branch"} THEN "option" ELSE "arguments"]
CliCheckpoints == [op \in DOMAIN HttpCheckpoints |-> "arguments"]
CliReviews == [op \in DOMAIN HttpReviews \ {"compact"} |-> "arguments"]

Handlers ==
    CASE transport = "http" -> {HttpEdits, HttpHistory, HttpUpkeep, HttpReviews, HttpCheckpoints}
      [] transport = "grpc" -> {GrpcEdits, GrpcHistory, GrpcUpkeep, GrpcReviews, GrpcCheckpoints}
      [] transport = "cli" -> {CliEdits, CliHistory, CliUpkeep, CliReviews, CliCheckpoints}

Served == UNION {DOMAIN h : h \in Handlers}
InputOf(op) == (CHOOSE h \in Handlers : op \in DOMAIN h)[op]

-----------------------------------------------------------------------------
(* What a request does, step by step *)

Call == <<"db", "/db">>
Write == <<"db", "put", "/db">>
Load == Call \o <<"fresh">>

(* Names that are looked up, or a time that no checkpoint is near to *)
Named == {"branch_switch", "merge", "backup", "restore", "checkpoint_restore",
          "checkpoint_restore_by_time", "checkpoint_diff", "checkpoint_rollback",
          "show_partition", "show_checkpoint", "reject_agent"}

(* Ids are parsed before anything else *)
Parsed == {"backup", "restore", "checkpoint_restore", "checkpoint_diff",
           "checkpoint_rollback", "show_checkpoint"}

(* Mutant of Switch: heads are compared before the lock is dropped. *)
SwitchUnderLock ==
    Call \o <<"find", "write", "recall", "put">> \o Write
        \o Call \o <<"again", "refuse">> \o Write \o <<"compare", "drop">>

(* The branch is found in the table, in memory where it becomes the current  *)
(* one, and by the state machine in the table again.                         *)
Switch ==
    Call \o <<"find", "write", "recall", "put">> \o Write
        \o Call \o <<"again", "refuse">> \o Write \o <<"drop", "compare">>

(* Mutant of CommitStaged: the repository is locked for reading. *)
CommitUnderRead ==
    Call \o <<"read", "current", "refuse", "move">> \o Write \o <<"settle">> \o Write

CommitStaged ==
    Call \o <<"write", "current", "refuse", "move">> \o Write \o <<"settle">> \o Write

(* Mutant of MergeBranch: staged takes the snapshots first. *)
MergeWrites == Load \o Write \o <<"find", "refuse">> \o Write \o <<"diverge">>

MergeBranch == Load \o <<"find">> \o Write \o <<"refuse">> \o Write \o <<"diverge">>

(* Mutant of CopyToBackup: the snapshot is read while the core is locked. *)
BackupInside == <<"parse", "db", "find", "backup", "put", "/backup", "/db">>

CopyToBackup == <<"parse">> \o Call \o <<"find", "backup", "put", "/backup">>

(* merge_to_staged holds the backup's transaction around the core's calls. *)
RestoreBackup ==
    <<"parse", "backup", "/backup", "find">> \o Write
        \o <<"backup", "backup", "/backup">> \o Call \o Write \o <<"/backup">>

Program(op) ==
    CASE op = "branch_create" -> <<"write", "taken", "current">> \o Write
      [] op = "branch_switch" -> Switch
      [] op = "branch_list" -> Call \o <<"read", "current">>
      [] op = "commit" -> CommitStaged
      [] op = "log" -> <<"read", "current">>
      [] op = "checkpoint_diff" -> <<"parse", "read", "find">>
      [] op = "checkpoint_restore" -> <<"parse", "read", "find">> \o Call
      [] op = "checkpoint_restore_by_time" -> <<"read", "find">> \o Call
      [] op = "checkpoint_rollback" -> <<"parse", "read", "find">> \o Write
      [] op = "merge" -> MergeBranch
      [] op \in {"gc", "git_commit"} -> Load \o Write
      [] op = "pull" -> Load \o Write \o <<"diverge">>
      [] op = "clean_branch" -> Call \o <<"remove">> \o Write \o <<"sync">> \o Write
      [] op = "clean_all" -> <<"db", "clear", "/db">>
      [] op = "backup" -> CopyToBackup
      [] op = "restore" -> RestoreBackup
      [] op = "show_partition" -> Call \o <<"find">> \o Call
      [] op = "show_checkpoint" -> <<"parse">> \o Call \o <<"find">> \o Call
      [] op = "reject_agent" -> Call \o <<"find">> \o Write
      [] op \in {"status", "list_pending_approvals"} -> Call
      [] OTHER -> Call \o Write       \* init, edits, submissions, reviews, compact

-----------------------------------------------------------------------------
(* Errors and answers *)

MapError(variant) ==
    CASE variant = "Storage" -> "STORAGE_ERROR"
      [] variant = "NotFound" -> "NOT_FOUND"
      [] variant = "General" -> "ERROR"
      [] OTHER -> "CHECKPOINT_ERROR"

(* The lookups whose error keeps the storage's own variant *)
LookedUpInStorage == {"backup", "restore", "show_checkpoint"}

UnknownCode(op) == MapError(IF op \in LookedUpInStorage THEN "Storage" ELSE "NotFound")

NoAnswer == [code |-> "none", cause |-> "none"]

Idle == [op |-> "none", names |-> "known", todo |-> <<>>, running |-> FALSE,
         wrote |-> FALSE, answer |-> NoAnswer]

Busy(c) == job[c].op # "none" /\ job[c].answer = NoAnswer
Running == {c \in Clients : job[c].running}
At(c, step) == c \in Running /\ job[c].todo # <<>> /\ Head(job[c].todo) = step

Free == [readers |-> {}, writer |-> NoClient, waiting |-> {}, poisoned |-> FALSE]
Unlocked == [owner |-> NoClient, depth |-> 0]

-----------------------------------------------------------------------------
(* The service is opened; without a branch when the tables hold only        *)
(* checkpoints with a git anchor.                                           *)
Opened(t) == [branches |-> t # "orphans", stale |-> FALSE]

Init ==
    /\ job = [c \in Clients |-> Idle]
    /\ lock = Free
    /\ mutex = [m \in {"db", "backup"} |-> Unlocked]
    /\ table = "branches"
    /\ memory = Opened(table)
    /\ cleaned = {}
    /\ transport \in {"http", "grpc", "cli"}

(* A process opens the database, which load has completed. *)
OpenService ==
    /\ lock' = Free
    /\ mutex' = [m \in DOMAIN mutex |-> Unlocked]
    /\ table' = IF table = "empty" THEN "branches" ELSE table
    /\ memory' = Opened(table)
    /\ cleaned' = {}

Names(op) ==
    {"known"} \cup (IF op \in Named THEN {"unknown"} ELSE {})
              \cup (IF op \in Parsed THEN {"malformed"} ELSE {})
              \cup (IF op = "branch_create" THEN {"taken"} ELSE {})
              \cup (IF InputOf(op) \in {"body", "query", "message", "option"} THEN {"garbled"}
                    ELSE {})

(* The transport takes a request: a command is a process of its own. *)
Receive(c) ==
    /\ ~Busy(c)
    /\ \E op \in Ops \cap Served : \E n \in Names(op) :
        job' = [job EXCEPT ![c] = [Idle EXCEPT !.op = op, !.names = n, !.todo = Program(op)]]
    /\ IF transport = "cli" THEN (\A d \in Clients : ~Busy(d)) /\ OpenService
       ELSE UNCHANGED <<lock, mutex, memory, table, cleaned>>

(* The transport cannot read it and answers before any handler does. *)
Reject(c) ==
    /\ Busy(c) /\ c \notin Running
    /\ job[c].names = "garbled"
    /\ job' = [job EXCEPT ![c].todo = <<>>,
                          ![c].answer = [code |-> "rejected", cause |-> "garbled"]]
    /\ UNCHANGED <<lock, mutex, memory, table, cleaned>>

(* A thread takes it up. *)
Start(c) ==
    /\ Busy(c) /\ c \notin Running
    /\ job[c].names # "garbled"
    /\ Cardinality(Running) < Workers
    /\ job' = [job EXCEPT ![c].running = TRUE]
    /\ UNCHANGED <<lock, mutex, memory, table, cleaned>>

Next1(c) == job' = [job EXCEPT ![c].todo = Tail(@)]

(* Guards are dropped with the request. *)
Released(c) ==
    [lock EXCEPT !.readers = @ \ {c}, !.writer = IF @ = c THEN NoClient ELSE @]

Answered(c, code, cause) ==
    /\ job' = [job EXCEPT ![c].todo = <<>>, ![c].running = FALSE,
                          ![c].answer = [code |-> code, cause |-> cause]]
    /\ mutex' = [m \in DOMAIN mutex |-> IF mutex[m].owner = c THEN Unlocked ELSE mutex[m]]
    /\ cleaned' = cleaned \ {c}

Answer(c) ==
    /\ c \in Running /\ job[c].todo = <<>>
    /\ Answered(c, "OK", "done")
    /\ lock' = Released(c)
    /\ UNCHANGED <<memory, table>>

Fails(c, code, cause) ==
    /\ Answered(c, code, cause)
    /\ lock' = Released(c)
    /\ UNCHANGED <<memory, table>>

(* A panic ends the handler: hyper drops the connection, spawn_blocking      *)
(* returns a JoinError, the command ends.  A guard for writing poisons.      *)
Panics(c) ==
    /\ Answered(c, IF transport = "grpc" THEN "INTERNAL_ERROR" ELSE "dropped", "panic")
    /\ lock' = [Released(c) EXCEPT !.poisoned = @ \/ lock.writer = c]
    /\ UNCHANGED <<memory, table>>

-----------------------------------------------------------------------------
(* Steps *)

(* A name is parsed or looked up. *)
Parse(c) ==
    /\ At(c, "parse")
    /\ IF job[c].names = "malformed" THEN Fails(c, "INVALID_PARAMS", "malformed")
       ELSE Next1(c) /\ UNCHANGED <<lock, mutex, memory, table, cleaned>>

Find(c) ==
    /\ At(c, "find")
    /\ IF job[c].names = "unknown" THEN Fails(c, UnknownCode(job[c].op), "unknown")
       ELSE Next1(c) /\ UNCHANGED <<lock, mutex, memory, table, cleaned>>

(* The branches in memory may lack one of the table. *)
Recall(c) ==
    /\ At(c, "recall")
    /\ \/ Next1(c) /\ UNCHANGED <<lock, mutex, memory, table, cleaned>>
       \/ memory.stale /\ Fails(c, MapError("NotFound"), "unknown")

(* The branch may have been removed since it was found. *)
Again(c) ==
    /\ At(c, "again")
    /\ \/ /\ Next1(c)
          /\ cleaned' = cleaned \ {c}
          /\ UNCHANGED <<lock, mutex, memory, table>>
       \/ c \in cleaned /\ Fails(c, MapError("Storage"), "gone")

Taken(c) ==
    /\ At(c, "taken")
    /\ IF job[c].names = "taken" THEN Fails(c, "INVALID_PARAMS", "taken")
       ELSE Next1(c) /\ UNCHANGED <<lock, mutex, memory, table, cleaned>>

(* Nothing to commit or merge, or a head without snapshots *)
Refuse(c) ==
    /\ At(c, "refuse")
    /\ \/ Next1(c) /\ UNCHANGED <<lock, mutex, memory, table, cleaned>>
       \/ Fails(c, MapError("Checkpoint"), "refused")

(* A mutex is taken, again by its owner. *)
Acquire(c, m) ==
    /\ At(c, m)
    /\ mutex[m].owner \in {NoClient, c}
    /\ mutex' = [mutex EXCEPT ![m] = [owner |-> c, depth |-> @.depth + 1]]
    /\ Next1(c)
    /\ UNCHANGED <<lock, memory, table, cleaned>>

Release(c, m) ==
    /\ At(c, IF m = "db" THEN "/db" ELSE "/backup")
    /\ mutex' = [mutex EXCEPT ![m] = IF @.depth = 1 THEN Unlocked ELSE [@ EXCEPT !.depth = @ - 1]]
    /\ Next1(c)
    /\ UNCHANGED <<lock, memory, table, cleaned>>

(* A storage call fails. *)
CallFails(c) ==
    /\ At(c, "/db")
    /\ Fails(c, MapError("Storage"), "call")

(* A writer that finds the lock taken waits, and readers wait behind it. *)
WaitToWrite(c) ==
    /\ At(c, "write") /\ c \notin lock.waiting
    /\ lock.readers # {} \/ lock.writer # NoClient
    /\ lock' = [lock EXCEPT !.waiting = @ \cup {c}]
    /\ UNCHANGED <<job, mutex, memory, table, cleaned>>

LockWrite(c) ==
    /\ At(c, "write")
    /\ lock.readers = {} /\ lock.writer = NoClient
    /\ IF lock.poisoned
       THEN /\ Answered(c, "INTERNAL_ERROR", "poisoned")
            /\ lock' = [lock EXCEPT !.waiting = @ \ {c}]
       ELSE /\ Next1(c)
            /\ lock' = [lock EXCEPT !.writer = c, !.waiting = @ \ {c}]
            /\ UNCHANGED <<mutex, cleaned>>
    /\ UNCHANGED <<memory, table>>

LockRead(c) ==
    /\ At(c, "read")
    /\ lock.writer = NoClient /\ lock.waiting = {}
    /\ IF lock.poisoned
       THEN Answered(c, "INTERNAL_ERROR", "poisoned") /\ UNCHANGED lock
       ELSE /\ Next1(c)
            /\ lock' = [lock EXCEPT !.readers = @ \cup {c}]
            /\ UNCHANGED <<mutex, cleaned>>
    /\ UNCHANGED <<memory, table>>

Drop(c) ==
    /\ At(c, "drop")
    /\ lock' = Released(c)
    /\ Next1(c)
    /\ UNCHANGED <<mutex, memory, table, cleaned>>

(* Something is written. *)
Put(c) ==
    /\ At(c, "put")
    /\ job' = [job EXCEPT ![c].todo = Tail(@), ![c].wrote = TRUE]
    /\ UNCHANGED <<lock, mutex, memory, table, cleaned>>

(* branches[current_branch] of the repository in memory *)
Current(c) ==
    /\ At(c, "current")
    /\ IF memory.branches THEN Next1(c) /\ UNCHANGED <<lock, mutex, memory, table, cleaned>>
       ELSE Panics(c)

(* commit moves the head in memory, then stores, then enters the checkpoint  *)
(* into the map: the branch is one in memory and in the table again.         *)
Move(c) ==
    /\ At(c, "move")
    /\ Next1(c)
    /\ UNCHANGED <<lock, mutex, memory, table, cleaned>>

Settle(c) ==
    /\ At(c, "settle")
    /\ \E s \in {FALSE, memory.stale} : memory' = [memory EXCEPT !.stale = s]
    /\ Next1(c)
    /\ UNCHANGED <<lock, mutex, table, cleaned>>

(* "Checkpoint IDs should match": one from memory, one from the table *)
Compare(c) ==
    /\ At(c, "compare")
    /\ \/ Next1(c) /\ UNCHANGED <<lock, mutex, memory, table, cleaned>>
       \/ memory.stale /\ Panics(c)

(* A repository is loaded and its current branch used: load makes a root and  *)
(* main when there is no checkpoint.                                          *)
Fresh(c) ==
    /\ At(c, "fresh")
    /\ IF table = "orphans" THEN Panics(c)
       ELSE /\ table' = "branches"
            /\ Next1(c)
            /\ UNCHANGED <<lock, mutex, memory, cleaned>>

(* The table's branches move while those in memory stay. *)
Diverge(c) ==
    /\ At(c, "diverge")
    /\ memory' = [memory EXCEPT !.stale = TRUE]
    /\ Next1(c)
    /\ UNCHANGED <<lock, mutex, table, cleaned>>

(* Switches between their two lookups in the table *)
Switching ==
    {c \in Running : LET left == {job[c].todo[i] : i \in DOMAIN job[c].todo}
                     IN  "again" \in left /\ "find" \notin left}

(* clean loads a repository and removes a branch, the last one perhaps. *)
Remove(c) ==
    /\ At(c, "remove")
    /\ table' \in IF table = "orphans" THEN {"orphans"} ELSE {"branches", "orphans", "empty"}
    /\ memory' = [memory EXCEPT !.stale = TRUE]
    /\ cleaned' = cleaned \cup Switching
    /\ Next1(c)
    /\ UNCHANGED <<lock, mutex>>

(* sync_all names the current branch by its index, which removing a branch    *)
(* before it leaves behind.                                                   *)
Sync(c) ==
    /\ At(c, "sync")
    /\ \/ table = "branches" /\ Next1(c) /\ UNCHANGED <<lock, mutex, memory, table, cleaned>>
       \/ Panics(c)

Clear(c) ==
    /\ At(c, "clear")
    /\ table' = "empty"
    /\ memory' = [memory EXCEPT !.stale = TRUE]
    /\ cleaned' = cleaned \cup Switching
    /\ job' = [job EXCEPT ![c].todo = Tail(@), ![c].wrote = TRUE]
    /\ UNCHANGED <<lock, mutex>>

Step(c) ==
    \/ Parse(c) \/ Find(c) \/ Recall(c) \/ Again(c) \/ Taken(c) \/ Refuse(c)
    \/ \E m \in DOMAIN mutex : Acquire(c, m) \/ Release(c, m)
    \/ CallFails(c) \/ WaitToWrite(c) \/ LockWrite(c) \/ LockRead(c) \/ Drop(c)
    \/ Put(c) \/ Current(c) \/ Move(c) \/ Settle(c) \/ Compare(c)
    \/ Fresh(c) \/ Diverge(c) \/ Remove(c) \/ Sync(c) \/ Clear(c)
    \/ Answer(c)

(* The process ends and another one opens the database. *)
Restart ==
    /\ job' = [c \in Clients |->
                IF Busy(c) THEN [job[c] EXCEPT !.todo = <<>>, !.running = FALSE,
                                               !.answer = [code |-> "dropped", cause |-> "stop"]]
                ELSE job[c]]
    /\ OpenService

Serve(c) == Receive(c) \/ Reject(c) \/ Start(c) \/ Step(c)

Next ==
    /\ Restart \/ \E c \in Clients : Serve(c)
    /\ UNCHANGED transport

Spec == Init /\ [][Next]_vars

-----------------------------------------------------------------------------
HalfCommitted(c) ==
    /\ c \in Running /\ job[c].op = "commit"
    /\ \A i \in DOMAIN job[c].todo : job[c].todo[i] # "move"
    /\ \E i \in DOMAIN job[c].todo : job[c].todo[i] = "settle"

(* While a commit has moved the head and not entered its checkpoint, no log,   *)
(* branch or restore of another client looks at the repository                 *)
(* (api/service.rs:586-607, checkpoint/repo.rs:399-437).                       *)
CommitUnseen ==
    \A c, d \in Clients : HalfCommitted(c) /\ d \in lock.readers \cup {lock.writer} => d = c

(* One client's panic must not lock the others out: the assertion of a switch  *)
(* comes after the lock is dropped (api/service.rs:680-682), so the lock is    *)
(* only ever poisoned in a service that was opened without a branch, where     *)
(* commit and branch_create index an empty vector (checkpoint/repo.rs:490).    *)
PoisonedOnlyBranchless == lock.poisoned => ~memory.branches

(* A request that is refused for a name that is malformed, taken, missing from *)
(* the table or missing from the repository in memory has written nothing,     *)
(* however late it looks the name up (api/service.rs:576-805, 809-1045).  The  *)
(* exception is the third lookup of a switch: the state machine finds the      *)
(* branch gone from the table after the repository has switched to it and      *)
(* stored that, if a clean came in between (service.rs:670-680).               *)
RefusalsChangeNothing ==
    \A c \in Clients :
        job[c].answer.cause \in {"malformed", "unknown", "taken"} => ~job[c].wrote

(* No order in which requests take the lock, the connection and the backup     *)
(* database, and no way in which one ends, by its answer, an error or a panic, *)
(* makes the others wait for ever: whenever requests run, one of them can go   *)
(* on (api/service.rs:576-805, 809-1045, backup/backup_repo.rs:93-167,         *)
(* 397-425).                                                                   *)
SomeoneSteps == Running # {} => \E c \in Running : ENABLED Step(c)
=============================================================================
