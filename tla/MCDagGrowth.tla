----------------------------- MODULE MCDagGrowth -----------------------------
(* Instances of DagGrowth for TLC. *)
EXTENDS DagGrowth, TLC

CheckpointSymmetry == Permutations(Checkpoints)
=============================================================================
