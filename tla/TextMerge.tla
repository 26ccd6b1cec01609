------------------------------ MODULE TextMerge ------------------------------
(***************************************************************************)
(* File text, line diffs and the three-way merge of src/engine.            *)
(*                                                                         *)
(* A text is abstracted to its Regions: blocks of one line each, kept      *)
(* apart by lines that no edit touches.  Between two such texts the line   *)
(* diff of engine/diff.rs is one Replace per region that changed, so a     *)
(* diff is a function from regions to the new line, or Keep.  Texts whose  *)
(* change ranges touch or overlap are outside this abstraction.            *)
(***************************************************************************)

CONSTANTS
    Regions,    \* the editable places of the document
    Lines,      \* what a region can hold
    Keep        \* the diff entry of a region the diff leaves alone

ASSUME KeepAssumption == Keep \notin Lines

Text == [Regions -> Lines]
Diff == [Regions -> Lines \cup {Keep}]

(* Mutant of DiffOf: the operations carry the old lines. *)
DiffCarriesOld(old, new) == [r \in Regions |-> IF new[r] = old[r] THEN Keep ELSE old[r]]

(* diff_to_line_diff: what turns old into new *)
DiffOf(old, new) == [r \in Regions |-> IF new[r] = old[r] THEN Keep ELSE new[r]]

(* Both sides changed region r of base, and not in the same way. *)
Clash(base, ours, theirs, r) ==
    /\ ours[r] # base[r]
    /\ theirs[r] # base[r]
    /\ ours[r] # theirs[r]

(* Mutant of Merge: theirs is what a conflict writes. *)
MergeTheirsWins(base, ours, theirs) ==
    [r \in Regions |-> IF theirs[r] = base[r] THEN ours[r] ELSE theirs[r]]

(* merge_texts, first component: a side that left the region alone yields; *)
(* when both changed it, ours is what is written, clash or not.            *)
Merge(base, ours, theirs) ==
    [r \in Regions |-> IF ours[r] = base[r] THEN theirs[r] ELSE ours[r]]

(* merge_texts, second component is a non-empty list of conflicts *)
Conflicts(base, ours, theirs) == \E r \in Regions : Clash(base, ours, theirs, r)
=============================================================================
