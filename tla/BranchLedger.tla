---------------------------- MODULE BranchLedger ----------------------------
(***************************************************************************)
(* What branches promise: a ledger in which each branch is a pointer to    *)
(* its latest checkpoint, only the current branch moves, and it moves to   *)
(* a child of the checkpoint it pointed to.                                *)
(***************************************************************************)
CONSTANTS Names, Main, Root, Ids

VARIABLES
    heads,      \* branch -> its latest checkpoint
    current,    \* the current branch
    lineage     \* pairs of a checkpoint and a parent of it

vars == <<heads, current, lineage>>

Init ==
    /\ heads = [n \in {Main} |-> Root]
    /\ current = Main
    /\ lineage = {}

(* A checkpoint is made below the current head. *)
Grow(id) ==
    /\ \A e \in lineage : e[2] = id => heads[current] # e[1]
    /\ id # heads[current]
    /\ lineage' = lineage \cup {<<id, heads[current]>>}

(* The current branch moves on to it. *)
Advance(id) ==
    /\ Grow(id)
    /\ heads' = [heads EXCEPT ![current] = id]
    /\ UNCHANGED current

(* It is made, and nobody points to it. *)
Abandon(id) ==
    /\ Grow(id)
    /\ UNCHANGED <<heads, current>>

Fork(n) ==
    /\ n \notin DOMAIN heads
    /\ heads' = [m \in DOMAIN heads \cup {n} |-> IF m = n THEN heads[current] ELSE heads[m]]
    /\ UNCHANGED <<current, lineage>>

Checkout(n) ==
    /\ n \in DOMAIN heads
    /\ current' = n
    /\ UNCHANGED <<heads, lineage>>

Next ==
    \/ \E id \in Ids : Advance(id) \/ Abandon(id)
    \/ \E n \in Names : Fork(n) \/ Checkout(n)

Spec == Init /\ [][Next]_vars
=============================================================================
