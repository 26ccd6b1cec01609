---------------------------- MODULE MCApiServer ----------------------------
(* Instances of ApiServer for TLC. *)
EXTENDS ApiServer, TLC

CONSTANTS c1, c2

(* Those that take more than one lock, or the repository's *)
LockingOps == {"branch_create", "branch_switch", "branch_list", "commit", "checkpoint_restore",
               "backup", "restore"}

(* One of each kind: the others take the steps of gc or edit. *)
AllOps == LockingOps \cup {"log", "checkpoint_rollback", "merge", "gc", "pull", "clean_branch",
                           "clean_all", "show_checkpoint", "reject_agent", "edit"}

(* gRPC and HTTP call the same handlers: gRPC serves the locking ones only. *)
SceneNext ==
    /\ Next
    /\ transport = "grpc" => \A c \in Clients : job'[c].op \in LockingOps \cup {"none"}

SceneSpec == Init /\ [][SceneNext]_vars

ClientSymmetry == Permutations(Clients)
=============================================================================
