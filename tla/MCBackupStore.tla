---------------------------- MODULE MCBackupStore ----------------------------
(* Instances of BackupStore for TLC. *)
EXTENDS BackupStore

VARIABLE scene  \* "losing": the core may lose rows; "undoing": edits are undone;
                \* "blanking": what is left is a blank line

Lines(s) == Text(s, TRUE)

Abc == Lines(<<"a", "b", "c">>)

(* A line replaced; one inserted in front and one removed: positions move *)
Edited == {Lines(<<"a", "B", "c">>), Lines(<<"x", "a", "c">>)}

(* A line inserted in front, and back again to what init stored *)
Undone == {Abc, Lines(<<"x", "a", "b", "c">>)}

(* A lone blank line, which reading the deltas loses                       *)
Blanked == {[lines |-> <<Blank>>, ends |-> TRUE]}

EditTexts == Edited \cup Undone \cup Blanked

LosingNext ==
    /\ scene = "losing"
    /\ (\E t \in Edited : Edit(t)) \/ Clean \/ Lose \/ BackupNext
    /\ Len(snaps') <= 5

UndoingNext ==
    /\ scene = "undoing"
    /\ (\E t \in Undone : Edit(t)) \/ BackupNext

BlankingNext ==
    /\ scene = "blanking"
    /\ (\E t \in Blanked \cup {Abc} : Edit(t)) \/ BackupNext
    /\ Len(snaps') <= 5

SceneInit == Init /\ scene \in {"losing", "undoing", "blanking"}

SceneSpec ==
    /\ SceneInit
    /\ [][(LosingNext \/ UndoingNext \/ BlankingNext) /\ UNCHANGED scene]_<<vars, scene>>
=============================================================================
