------------------------------ MODULE DagGrowth ------------------------------
(***************************************************************************)
(* How the repository grows its graph: a commit or merge adds a checkpoint *)
(* below its parents, and gc removes nodes.                                *)
(***************************************************************************)
EXTENDS CheckpointDag

CONSTANTS Checkpoints       \* checkpoint ids

VARIABLES
    dag,        \* checkpoint_dag
    known,      \* the checkpoints of the repository
    parents     \* parents of every checkpoint ever made: its id is their hash

growthVars == <<dag, known, parents>>

Made == DOMAIN parents

GrowthInit ==
    /\ dag = EmptyDag
    /\ known = {}
    /\ parents = <<>>

(* A checkpoint made again, after gc took it, has the parents it had. *)
Record(c, ps) ==
    /\ c \in Made => parents[c] = ps
    /\ known' = known \cup {c}
    /\ parents' = [n \in Made \cup {c} |-> IF n = c THEN ps ELSE parents[n]]

(* CheckpointRepo::new, load *)
AddRoot(c) ==
    /\ known = {}
    /\ dag' = AddNode(EmptyDag, c)
    /\ Record(c, <<>>)

(* commit: a node, then the edge from the head; the head is any checkpoint *)
AddCommit(c, head) ==
    /\ dag' = AddEdge(AddNode(dag, c), head, c)
    /\ Record(c, <<head>>)

(* merge_branches: the heads may be one *)
AddMerge(c, head, source) ==
    /\ dag' = AddEdge(AddEdge(AddNode(dag, c), head, c), source, c)
    /\ Record(c, <<head, source>>)

(* remove_checkpoint *)
Collect(c) ==
    /\ dag' = RemoveNode(dag, c)
    /\ known' = known \ {c}
    /\ UNCHANGED parents

GrowthNext ==
    \/ \E c \in Checkpoints : AddRoot(c)
    \/ \E c \in Checkpoints \ known, head \in known : AddCommit(c, head)
    \/ \E c \in Checkpoints \ known, head, source \in known : AddMerge(c, head, source)
    \/ \E c \in known : Collect(c)

GrowthSpec == GrowthInit /\ [][GrowthNext]_growthVars

-----------------------------------------------------------------------------
(* Edges join nodes of the graph, and every node has a generation. *)
TypeOK ==
    /\ dag.edges \subseteq Nodes(dag) \X Nodes(dag)
    /\ dag.gens \in [known -> Nat]
    /\ known \subseteq Made
    /\ \A n \in Made : \A i \in DOMAIN parents[n] : parents[n][i] \in Made

(* Generations grow along every edge, which is what lets is_ancestor and       *)
(* would_create_cycle leave a search out (dag.rs:71-72): through any commits,  *)
(* merges, removals in the middle of the history and checkpoints made again.   *)
GenerationsGrow == \A e \in dag.edges : dag.gens[e[1]] < dag.gens[e[2]]

(* is_ancestor answers what a full search of the graph would answer: the       *)
(* comparison of generations never hides a path.                               *)
AncestryExact ==
    \A x, y \in Nodes(dag) : y \in Visited(dag.edges, x) => IsAncestor(dag, x, y)

(* No checkpoint is its own ancestor by way of another one.                    *)
Acyclic == \A e \in dag.edges : e[1] \notin Visited(dag.edges, e[2])
=============================================================================
