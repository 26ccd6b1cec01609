-------------------------- MODULE CheckpointRestore --------------------------
(***************************************************************************)
(* What a CheckpointRepo answers: logs, ancestors, chains, searches by     *)
(* time and restores, in every state its library calls lead to.            *)
(***************************************************************************)
EXTENDS CheckpointLibrary

Abs(n) == IF n < 0 THEN -n ELSE n

-----------------------------------------------------------------------------
(* Walks *)

(* What a held checkpoint leads to; one that is gone leads nowhere *)
ParentsIn(id) == IF id \in Held(repo) THEN made[id].parents ELSE << >>

(* Mutant of Followed: a merge is followed along its first parent only. *)
FollowedFirst(seen, ids) ==
    IF ids = << >> \/ ids[1] \in ToSet(seen) THEN seen ELSE Append(seen, ids[1])

(* What was seen, and behind it, each id once, what it leads to *)
Followed(seen, ids) ==
    LET joined[i \in 0..Len(ids)] ==
            IF i = 0 THEN seen
            ELSE IF ids[i] \in ToSet(joined[i - 1]) THEN joined[i - 1]
            ELSE Append(joined[i - 1], ids[i])
    IN  joined[Len(ids)]

(* Turn k of the loop takes the k-th of what was seen, if there is one *)
Turn(seen, k) == IF k > Len(seen) THEN seen ELSE Followed(seen, ParentsIn(seen[k]))

(* The breadth-first walk over parents that log_from, get_ancestors_to and  *)
(* get_ancestry_chain make: what is reached is visited and the queue behind *)
(* it                                                                       *)
Walk(start) ==
    LET reached[k \in 0..Len(made)] ==
            IF k = 0 THEN <<start>> ELSE Turn(reached[k - 1], k)
    IN  reached[Len(made)]

(* log_from *)
LogFrom(start, count) ==
    LET log == Retain(Walk(start), Held(repo))
    IN  SubSeq(log, 1, IF count < Len(log) THEN count ELSE Len(log))

(* get_ancestors_to: the log up to the target, none when it is not there *)
AncestorsTo(target) ==
    LET log == LogFrom(HeadOf(repo), Len(made))
        at  == {i \in DOMAIN log : log[i] = target}
    IN  IF at = {} THEN << >> ELSE SubSeq(log, 1, CHOOSE i \in at : TRUE)

-----------------------------------------------------------------------------
(* Searches by time *)

Times(index) == {index[i].time : i \in DOMAIN index}
IdsAt(index, t) == Retain(index, {e \in ToSet(index) : e.time = t})

(* Mutant of Nearer: of two as near, the later. *)
NearerLater(target, t1, t2) == target - t1 < t2 - target

Nearer(target, t1, t2) == target - t1 <= t2 - target

(* find_nearest, of an index that is not empty *)
FindNearest(index, target) ==
    LET before == {t \in Times(index) : t < target}
        after  == Times(index) \ before
        time   == IF after = {} THEN Max(before)
                  ELSE IF before = {} THEN Min(after)
                  ELSE IF Nearer(target, Max(before), Min(after)) THEN Max(before) ELSE Min(after)
    IN  IdsAt(index, time)[1]

(* query_range *)
QueryRange(index, from, to) == Retain(index, {e \in ToSet(index) : from <= e.time /\ e.time <= to})

SnapshotKnown(s) == s \in repo.cached \/ (repo.stored /\ s \in rows.snapshots)

(* restore_full finds the checkpoint and all its snapshots *)
CanRestore(id) ==
    /\ id \in Held(repo)
    /\ \A i \in DOMAIN made[id].snaps : SnapshotKnown(made[id].snaps[i])

(* restore_by_time_range takes the last of the latest *)
FoundInRange(index, from, to) == Last(QueryRange(index, from, to))

-----------------------------------------------------------------------------
(* Properties *)

(* "When storage is set, all mutations auto-persist to the backend"         *)
(* (checkpoint/repo.rs:94): a storage that had every branch goes on having    *)
(* every branch with its head, whatever commits, merges, transactions,        *)
(* removals and loads follow.                                                 *)
BranchesStored ==
    tracked => rows.branches = HeadsByName(repo.branches)

(* What sync_all loses: a checkpoint drained from the set of dirty ones       *)
(* before the call that fails to store it, or one that it stores and then     *)
(* deletes, because it was removed from memory and made again since.          *)
SyncLoses ==
    \/ SyncAllFails /\ ~(repo.dirty \cap Held(repo) \subseteq DOMAIN rows.checkpoints)
    \/ SyncAll /\ repo.deletedCheckpoints \cap Held(repo) # {}

(* ... and every checkpoint it holds, and none other but what a failed call   *)
(* has left, in a behaviour without the two steps of SyncLoses.  Neither says *)
(* anything between a call that failed and the next sync_all or load          *)
(* (tracked).                                                                 *)
CheckpointsStored ==
    tracked => /\ Held(repo) \subseteq DOMAIN rows.checkpoints
               /\ failures = 0 => DOMAIN rows.checkpoints \subseteq Held(repo)

(* The ancestors of a checkpoint that held ones lead to *)
Reached(id) ==
    Visited({e \in Held(repo) \X Ids : e[2] \in ToSet(made[e[1]].parents)}, id)

(* A log as long as need be holds every ancestor that is held, once, merged   *)
(* ones included, and the way to a checkpoint is found exactly when the log   *)
(* holds it (checkpoint/repo.rs:668, 757).                                    *)
LogsWholeHistory ==
    HasCurrent(repo) =>
        LET log  == LogFrom(HeadOf(repo), Len(made))
            past == Reached(HeadOf(repo)) \cap Held(repo)
        IN  /\ ToSet(log) = past
            /\ IsInjective(log)
            /\ \A id \in Ids : (AncestorsTo(id) # << >>) = (id \in past)

(* A search finds an entry that none is nearer than, and of two as near the   *)
(* earlier; a range is answered with its latest (time_index.rs:52).           *)
NearestInTime ==
    repo.index # << >> =>
        \A t \in 0..(MaxTime + 1) :
            LET found  == FindNearest(repo.index, t)
                latest == FoundInRange(repo.index, 0, t)
                apart(e) == Abs(e.time - t)
            IN  /\ \A e \in ToSet(repo.index) :
                       /\ apart(found) <= apart(e)
                       /\ apart(found) = apart(e) => found.time <= e.time
                /\ \A e \in ToSet(QueryRange(repo.index, 0, t)) : e.time <= latest.time

(* What attach_storage loses: a snapshot that is cached by then.  Neither it   *)
(* nor sync_all stores it.                                                    *)
AttachLoses == AttachStorage /\ repo.cached # {}

(* A checkpoint that could be restored can be restored as long as it is held, *)
(* in the next process too (transaction.rs:4, checkpoint/repo.rs:226), in a   *)
(* behaviour that never attaches a storage to a repository with cached        *)
(* snapshots (AttachLoses).                                                   *)
RestorableStays ==
    [][\A id \in Held(repo) : CanRestore(id) /\ id \in Held(repo)' => CanRestore(id)']_vars
=============================================================================
