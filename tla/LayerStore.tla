----------------------------- MODULE LayerStore -----------------------------
(***************************************************************************)
(* The SQLite tables the layered state machine works on, as one value (the *)
(* database) and the storage calls as functions from database to database: *)
(*                                                                         *)
(*   snaps    rows of "snapshots": content addressed and immutable, so a   *)
(*            row is stored once and its index stands for its hash;        *)
(*   pointer  "partitions": the current snapshot of a partition, NoSnap    *)
(*            where the row does not exist;                                *)
(*   history  "partition_history" in seq order, empty without a partition. *)
(*                                                                         *)
(* A delta's id hashes all of its fields but the timestamp, so a delta is  *)
(* its own id and snapshots hold the chain of deltas itself.               *)
(***************************************************************************)
EXTENDS TextMerge, Naturals, Sequences

CONSTANTS
    Agents,     \* agent ids
    Features,   \* names of integrated partitions
    Paths,      \* file paths an edit may name
    InitPath,   \* the file node every snapshot is based on: its path,
    InitText    \* and its text

ASSUME InitAssumption == InitText \in Text /\ InitPath \in Paths

NoSnap == 0

(* Mutant of Agent: the id of the partition does not depend on the agent. *)
AgentShared(a) == <<"agent", "shared">>

Manual      == <<"manual", "manual">>
Staged      == <<"staged", "staged">>
Agent(a) == <<"agent", a>>
Approval(a) == <<"approval", a>>
Feature(f)  == <<"integrated", f>>
Initial     == <<"initial", "initial">>    \* the empty partition_type of new_initial

Partitions ==
    {Manual, Staged} \cup {Agent(a) : a \in Agents}
                     \cup {Approval(a) : a \in Agents}
                     \cup {Feature(f) : f \in Features}

(* SourceType of a delta *)
BySource == {Manual} \cup {Agent(a) : a \in Agents}

FileNodes == [path : Paths, base : Text]
Deltas    == [file : FileNodes, diff : Diff, source : BySource]
Snapshots == [deltas : Seq(Deltas), parents : Seq(Nat),
              type : Partitions \cup {Initial}, conflicts : BOOLEAN]
Databases == [snaps : Seq(Snapshots),
              pointer : [Partitions -> Nat],
              history : [Partitions -> Seq(Nat)]]

-----------------------------------------------------------------------------
(* Reading *)

Exists(db, p) == db.pointer[p] # NoSnap

Baseline(db, p) == Head(db.history[p])

ParentsOf(db, id) == db.snaps[id].parents

(* get_deltas builds a map of the rows it fetched and removes an entry for  *)
(* each id of the chain: only the first occurrence of a delta is returned.  *)
Returned(chain, i) == \A j \in 1..(i - 1) : chain[j] # chain[i]

(* The returned deltas of a chain that write region r. *)
Writes(chain, r) ==
    {i \in DOMAIN chain : Returned(chain, i) /\ chain[i].diff[r] # Keep}

LastOf(S) == CHOOSE i \in S : \A j \in S : j <= i

(* apply_deltas over get_deltas: in each region the last write stands *)
ChainText(chain) ==
    [r \in Regions |-> IF Writes(chain, r) = {}
                       THEN InitText[r]
                       ELSE chain[LastOf(Writes(chain, r))].diff[r]]

(* reconstruct_text *)
TextOf(db, id) == ChainText(db.snaps[id].deltas)

(* The file node a merge attributes its delta to: that of the last delta   *)
(* returned for the source snapshot.                                       *)
FileOf(db, id) ==
    LET chain == db.snaps[id].deltas
    IN  chain[LastOf({i \in DOMAIN chain : Returned(chain, i)})].file

-----------------------------------------------------------------------------
(* Writing *)

(* Snapshot::new_initial over a delta without hunks, as init stores it *)
InitSnapshot ==
    [deltas |-> <<[file |-> [path |-> InitPath, base |-> InitText],
                   diff |-> [r \in Regions |-> Keep], source |-> Manual]>>,
     parents |-> << >>, type |-> Initial, conflicts |-> FALSE]

(* The database init leaves: manual_edit and staged on the initial snapshot. *)
(* With one region and "" among the lines it can hold this is init's empty   *)
(* file; with more, a project whose initial snapshot was taken of a file     *)
(* with content, which keeps the regions apart.                              *)
InitDatabase ==
    [snaps   |-> <<InitSnapshot>>,
     pointer |-> [p \in Partitions |-> IF p \in {Manual, Staged} THEN 1 ELSE NoSnap],
     history |-> [p \in Partitions |-> IF p \in {Manual, Staged} THEN <<1>> ELSE << >>]]

(* INSERT OR IGNORE on the content hash *)
StoreSnapshot(db, s) ==
    IF \E i \in DOMAIN db.snaps : db.snaps[i] = s
    THEN db
    ELSE [db EXCEPT !.snaps = Append(@, s)]

IdOf(db, s) == CHOOSE i \in DOMAIN db.snaps : db.snaps[i] = s

(* update_pointer_internal: the pointer moves and history grows, whatever   *)
(* the reason of the move.                                                  *)
UpdatePointer(db, p, id) ==
    [db EXCEPT !.pointer[p] = id, !.history[p] = Append(@, id)]

(* Store a snapshot and make it the current one of partition p. *)
Advance(db, p, s) ==
    LET stored == StoreSnapshot(db, s)
    IN  UpdatePointer(stored, p, IdOf(stored, s))

(* Mutant of Ensure: the row is created without looking for it first. *)
EnsureRecreates(db, p, id) ==
    [db EXCEPT !.pointer[p] = id, !.history[p] = <<id>>]

(* ensure_*_partition: get, or create with the given snapshot as baseline *)
Ensure(db, p, id) ==
    IF Exists(db, p)
    THEN db
    ELSE [db EXCEPT !.pointer[p] = id, !.history[p] = <<id>>]

(* Mutant of ResetToBaseline: the DELETE on the history is forgotten. *)
ResetKeepsRows(db, p) == [db EXCEPT !.pointer[p] = Baseline(db, p)]

(* Mutant of ResetToBaseline: the DELETE forgets to name the partition. *)
ResetDeletesAll(db, p) ==
    [db EXCEPT !.pointer[p] = Baseline(db, p),
               !.history = [q \in Partitions |-> IF Exists(db, q) THEN <<Baseline(db, q)>>
                                                                  ELSE << >>]]

(* reset_partition_to_baseline *)
ResetToBaseline(db, p) ==
    [db EXCEPT !.pointer[p] = Baseline(db, p), !.history[p] = <<Baseline(db, p)>>]

(* Snapshot::from_parent *)
ChildOf(db, id, delta, type) ==
    [deltas |-> Append(db.snaps[id].deltas, delta), parents |-> <<id>>,
     type |-> type, conflicts |-> FALSE]

(* Snapshot::merge: the chain is that of the first parent, the destination *)
MergeOf(db, ids, delta, type, conflicts) ==
    [deltas |-> Append(db.snaps[Head(ids)].deltas, delta), parents |-> ids,
     type |-> type, conflicts |-> conflicts]

-----------------------------------------------------------------------------
(* What the tables satisfy between two calls *)

Stored(d) == 1..Len(d.snaps)

(* A partition's pointer is the last row of its history, and both name      *)
(* stored snapshots: what get_partition returns always resolves.            *)
PointerIsLastRow(d) ==
    \A p \in Partitions :
        IF Exists(d, p)
        THEN /\ d.history[p] # << >>
             /\ d.pointer[p] = d.history[p][Len(d.history[p])]
             /\ \A i \in 1..Len(d.history[p]) : d.history[p][i] \in Stored(d)
        ELSE d.history[p] = << >>

(* A snapshot is stored after its parents (the snapshot graph has no cycle) *)
(* and once (its id is its content).                                        *)
SnapshotGraph(d) ==
    \A i \in Stored(d) :
        /\ d.snaps[i].deltas # << >>
        /\ \A k \in 1..Len(d.snaps[i].parents) : d.snaps[i].parents[k] \in 1..(i - 1)
        /\ \A j \in Stored(d) : d.snaps[i] = d.snaps[j] => i = j

(* The tables a request finds: init made the two partitions every other one  *)
(* is created from.                                                          *)
WellFormed(d) ==
    /\ d \in Databases
    /\ PointerIsLastRow(d)
    /\ SnapshotGraph(d)
    /\ Exists(d, Manual)
    /\ Exists(d, Staged)
=============================================================================
