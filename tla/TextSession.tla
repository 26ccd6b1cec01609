----------------------------- MODULE TextSession -----------------------------
(***************************************************************************)
(* One three-way merge from its inputs: two sides edit a base text, the    *)
(* edits are kept as diffs, and the texts are merged.  The two steps of    *)
(* src/engine that LineMerge defines, over all small texts.                *)
(***************************************************************************)
EXTENDS LineMerge

CONSTANTS
    Bases,      \* base texts
    Edits,      \* the texts a side may turn the base into
    Unmerged    \* no merge result yet

ASSUME SessionAssumption == AreTexts(Bases \cup Edits)

VARIABLES base, ours, theirs, diffOurs, diffTheirs, merged

sessionVars == <<base, ours, theirs, diffOurs, diffTheirs, merged>>

NoChange == [changes |-> << >>, reach |-> 0]

SessionInit ==
    /\ base \in Bases
    /\ ours = base /\ theirs = base
    /\ diffOurs = NoChange /\ diffTheirs = NoChange
    /\ merged = Unmerged

(* A side edits once.  The diff is a function of its two texts. *)
EditOurs ==
    /\ merged = Unmerged /\ ours = base
    /\ \E t \in Edits : \E d \in DiffsOf(base, t) :
          /\ theirs = t => d = diffTheirs
          /\ ours' = t /\ diffOurs' = d
    /\ UNCHANGED <<base, theirs, diffTheirs, merged>>

EditTheirs ==
    /\ merged = Unmerged /\ theirs = base
    /\ \E t \in Edits : \E d \in DiffsOf(base, t) :
          /\ ours = t => d = diffOurs
          /\ theirs' = t /\ diffTheirs' = d
    /\ UNCHANGED <<base, ours, diffOurs, merged>>

MergeSides ==
    /\ merged = Unmerged
    /\ merged' = MergeTexts(base, ours, theirs, diffOurs, diffTheirs)
    /\ UNCHANGED <<base, ours, theirs, diffOurs, diffTheirs>>

SessionNext == EditOurs \/ EditTheirs \/ MergeSides

Session == SessionInit /\ [][SessionNext]_sessionVars

-----------------------------------------------------------------------------
(* Properties *)

(* A diff applied to the text it was taken of gives the lines of the other *)
(* text, whichever of the longest alignments it follows, and its hunk fits. *)
(* Only a blank last line may be lost, where Gives says.                   *)
DiffsReproduce ==
    LET read == ApplyDeltas(base, <<diffOurs>>)
    IN  read[2] /\ Gives(read[1], ours.lines, base.ends)

Walk == MergeChanges(base.lines, diffOurs.changes, diffTheirs.changes)

(* The changes of the two sides touch different lines of base *)
Apart(o, t) == o.at # t.at /\ (End(o) <= t.at \/ End(t) <= o.at)

AllApart ==
    \A i \in DOMAIN diffOurs.changes, j \in DOMAIN diffTheirs.changes :
        Apart(diffOurs.changes[i], diffTheirs.changes[j])

Either == {diffOurs.changes[i] : i \in DOMAIN diffOurs.changes}
            \cup {diffTheirs.changes[i] : i \in DOMAIN diffTheirs.changes}

Joined(parts) ==
    LET text[k \in 0..Len(parts)] == IF k = 0 THEN << >> ELSE text[k - 1] \o parts[k]
    IN  text[Len(parts)]

(* Reference: each position of a text gives what a change writes there and, *)
(* if none drops it, the line itself.                                      *)
Placed(lines, changes, i) ==
    LET here == {c \in changes : c.at = i - 1}
        kept == i <= Len(lines) /\ \A c \in changes : ~(c.at < i /\ i <= End(c))
    IN  (IF here = {} THEN << >> ELSE (CHOOSE c \in here : TRUE).new)
          \o (IF kept THEN <<lines[i]>> ELSE << >>)

Both == Joined([i \in 1..(Len(base.lines) + 1) |-> Placed(base.lines, Either, i)])

(* Whether the merged text is to be terminated *)
Closed == base.ends \/ ours.ends \/ theirs.ends

(* Changes that lie apart all land, and nothing is called a conflict; the  *)
(* blank last line of the outcome may be lost, where Gives says.           *)
ApartChangesLand ==
    merged # Unmerged /\ AllApart =>
        merged.conflicts = 0 /\ Gives(merged.text, Both, Closed)

(* The lines hold those of wrote, in order *)
HoldLines(lines, wrote) ==
    \E S \in SUBSET DOMAIN lines :
        /\ Cardinality(S) = Len(wrote)
        /\ \A k \in DOMAIN wrote : lines[Ascending(S)[k]] = wrote[k]

(* What our side wrote is in the merged text, in order, whether it clashed *)
(* with their side or not; but for a blank line, which may be lost where   *)
(* Gives says: the merged text is empty or was to have no terminator.      *)
OursSurvives ==
    merged # Unmerged =>
        LET wrote == Joined([i \in DOMAIN diffOurs.changes |-> diffOurs.changes[i].new])
        IN  \E lines \in {merged.text.lines, Append(merged.text.lines, Blank)} :
                Gives(merged.text, lines, Closed) /\ HoldLines(lines, wrote)
=============================================================================
