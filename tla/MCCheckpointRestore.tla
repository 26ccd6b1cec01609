-------------------------- MODULE MCCheckpointRestore --------------------------
(* Instances of CheckpointRestore for TLC. *)
EXTENDS CheckpointRestore

VARIABLE scene  \* which part of the library a behaviour is about

One == {<<"s1">>}

(* A repository on a storage while time passes, with transactions *)
TimedNext ==
    /\ scene = "timed"
    /\ Tick \/ CommitNext \/ BranchNext \/ TransactionNext \/ StorageNext
    /\ failures' = 0

(* A repository in memory, and the storage it is given later; with a removal *)
(* or a cached snapshot, in a history of one commit that may be made again   *)
MemoryNext ==
    /\ scene = "memory"
    /\ SnapshotNext \/ CommitNext \/ BranchNext \/ RemoveNext \/ StorageNext
    /\ failures' = 0
    /\ Len(made') > 2 => removed' = 0 /\ repo'.cached = {}

(* A storage call that fails, in a short history *)
FailingNext ==
    /\ scene = "failing"
    /\ SnapshotNext \/ CommitNext \/ BranchNext \/ TransactionNext \/ StorageNext
    /\ Len(repo'.index) <= 2

(* Branches removed, and a checkpoint *)
RemovingNext ==
    /\ scene = "removing"
    /\ CommitNext \/ BranchNext \/ RemoveNext \/ StorageNext
    /\ failures' = 0

SceneInit ==
    /\ Init
    /\ IF repo.stored THEN scene \in {"timed", "failing", "removing"} ELSE scene = "memory"

(* All but the steps of sync_all and attach_storage that lose something,    *)
(* which CheckpointsStored and RestorableStays name as their exceptions     *)
SceneNext ==
    /\ TimedNext \/ MemoryNext \/ FailingNext \/ RemovingNext
    /\ ~SyncLoses /\ ~AttachLoses

SceneSpec == SceneInit /\ [][SceneNext /\ UNCHANGED scene]_<<vars, scene>>
================================================================================
