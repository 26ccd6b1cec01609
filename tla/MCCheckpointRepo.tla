-------------------------- MODULE MCCheckpointRepo --------------------------
(* Instances of CheckpointRepo for TLC. *)
EXTENDS CheckpointRepo, TLC

CONSTANTS s1, s2        \* snapshots

(* list_branches returns a before main. *)
ByName == [n \in Names |-> CASE n = "a" -> 1 [] n = "main" -> 2 [] OTHER -> 3]

(* The service runs while requests work on their copies, and restarts. *)
RunningNext ==
    \/ \E s \in Snaps : Stage(s)
    \/ Commit
    \/ \E n \in Names : BranchCreate(n) \/ BranchSwitch(n)
    \/ Restart

(* The service waits while a request works on its copy. *)
AloneNext == request = {} /\ RunningNext

CleanSpec ==
    Init /\ [][AloneNext \/ LoadRepo \/ \E rep \in request, n \in Names : Clean(rep, n)]_vars

(* Everything but the clean of the last branch of a copy; a clean ends its    *)
(* request                                                                    *)
OverlapSpec == Init /\ [][Next /\ (request' = {} => ~ LastBranchCleaned)]_vars

SnapSymmetry == Permutations(Snaps)
=============================================================================
