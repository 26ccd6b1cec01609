---------------------------- MODULE CheckpointDag ----------------------------
(***************************************************************************)
(* The graph of checkpoint/dag.rs: edges from parent to child, and one     *)
(* generation number per node, by which the graph cuts its searches short. *)
(* A graph is a value; every method is a function of it.                   *)
(***************************************************************************)
EXTENDS Naturals, Sequences

EmptyDag == [edges |-> {}, gens |-> <<>>]

Nodes(dag) == DOMAIN dag.gens

(* generation.entry(n).or_insert(0) *)
Gen(dag, n) == IF n \in Nodes(dag) THEN dag.gens[n] ELSE 0

AddNode(dag, n) ==
    [dag EXCEPT !.gens = [m \in Nodes(dag) \cup {n} |-> Gen(dag, m)]]

(* Mutant of AddEdgeUnchecked: the child may stay in its parent's generation. *)
AddEdgeLevel(dag, p, c) ==
    LET level == IF Gen(dag, p) > Gen(dag, c) THEN Gen(dag, p) ELSE Gen(dag, c)
    IN  [edges |-> dag.edges \cup {<<p, c>>},
         gens  |-> [m \in Nodes(dag) \cup {p, c} |-> IF m = c THEN level ELSE Gen(dag, m)]]

(* Mutant of AddEdgeUnchecked: the last parent alone decides. *)
AddEdgeOverwrites(dag, p, c) ==
    [edges |-> dag.edges \cup {<<p, c>>},
     gens  |-> [m \in Nodes(dag) \cup {p, c} |->
                    IF m = c THEN Gen(dag, p) + 1 ELSE Gen(dag, m)]]

(* add_edge_unchecked: the child moves below its parent; its own children stay *)
AddEdgeUnchecked(dag, p, c) ==
    LET below == IF Gen(dag, p) + 1 > Gen(dag, c) THEN Gen(dag, p) + 1 ELSE Gen(dag, c)
    IN  [edges |-> dag.edges \cup {<<p, c>>},
         gens  |-> [m \in Nodes(dag) \cup {p, c} |-> IF m = c THEN below ELSE Gen(dag, m)]]

(* What a search along edges visits from x on, x included: the least set that *)
(* holds x and is closed under edges.                                         *)
Visited(edges, x) ==
    LET ends == {x} \cup {e[1] : e \in edges} \cup {e[2] : e \in edges}
    IN  {y \in ends : \A S \in SUBSET ends :
            (x \in S /\ \A e \in edges : e[1] \in S => e[2] \in S) => y \in S}

(* would_create_cycle *)
WouldCreateCycle(dag, p, c) ==
    \/ p = c
    \/ Gen(dag, c) < Gen(dag, p) /\ p \in Visited(dag.edges, c)

AddEdge(dag, p, c) ==
    IF WouldCreateCycle(dag, p, c) THEN dag ELSE AddEdgeUnchecked(dag, p, c)

(* is_ancestor: generations decide when they can, a search otherwise *)
IsAncestor(dag, x, y) ==
    \/ x = y
    \/ /\ {x, y} \subseteq Nodes(dag) => dag.gens[x] < dag.gens[y]
       /\ y \in Visited(dag.edges, x)

RemoveNode(dag, n) ==
    [edges |-> {e \in dag.edges : n \notin {e[1], e[2]}},
     gens  |-> [m \in Nodes(dag) \ {n} |-> dag.gens[m]]]

(* build_dag_from_checkpoints, which goes through a HashMap: order is the    *)
(* order of the entries, parents[n] the parents of checkpoint n in sequence. *)
WithCheckpoint(dag, n, parents) ==
    LET graph[i \in 0..Len(parents)] ==
            IF i = 0 THEN AddNode(dag, n) ELSE AddEdgeUnchecked(graph[i - 1], parents[i], n)
    IN  graph[Len(parents)]

BuildDag(parents, order) ==
    LET graph[i \in 0..Len(order)] ==
            IF i = 0 THEN EmptyDag
            ELSE WithCheckpoint(graph[i - 1], order[i], parents[order[i]])
    IN  graph[Len(order)]

(* The loop of CheckpointRepo::load over load_dag: each node of the edge table *)
(* with its children, then the generations the other table knows.              *)
WithChildren(dag, n, children) ==
    LET below == Gen(dag, n) + 1
    IN  [edges |-> dag.edges \cup {<<n, c>> : c \in children},
         gens  |-> [m \in Nodes(dag) \cup {n} \cup children |->
                        IF m \in children /\ below > Gen(dag, m) THEN below ELSE Gen(dag, m)]]

LoadDag(edges, gens, order) ==
    LET graph[i \in 0..Len(order)] ==
            IF i = 0 THEN EmptyDag
            ELSE WithChildren(graph[i - 1], order[i], {e[2] : e \in {f \in edges : f[1] = order[i]}})
        loaded == graph[Len(order)]
    IN  [loaded EXCEPT !.gens = [m \in Nodes(loaded) |->
            IF m \in DOMAIN gens THEN gens[m] ELSE loaded.gens[m]]]
=============================================================================
