------------------------------ MODULE LineMerge ------------------------------
(***************************************************************************)
(* engine/diff.rs and engine/merge.rs line by line: the positions that     *)
(* TextMerge abstracts to regions.  A text is its lines and whether the    *)
(* last one is terminated; a diff is the list of its change ranges with    *)
(* the lines of context its hunk asks for; apply_deltas patches by         *)
(* position, and merge_texts walks over the change ranges of both sides.   *)
(*                                                                         *)
(* Which of the longest common subsequences the similar crate aligns two   *)
(* texts on is left open.  Texts are short enough for every diff to be one *)
(* hunk: runs of equal lines do not exceed two contexts.  A line holds no  *)
(* carriage return.                                                        *)
(***************************************************************************)
EXTENDS Naturals, FiniteSets, SequencesExt

Context == 3

Blank == ""    \* a line with nothing on it

(* What str::lines and ends_with('\n') say of a string: the empty one has no *)
(* line to end, and a blank last line is there only if it is terminated.    *)
IsText(t) == IF t.ends THEN t.lines # << >>
             ELSE t.lines = << >> \/ Last(t.lines) # Blank

(* The texts whose lines are from L, and the lines of a set of texts *)
TextsOver(L) == {t \in [lines : Seq(L), ends : BOOLEAN] : IsText(t)}
LinesOf(texts) == UNION {{t.lines[i] : i \in DOMAIN t.lines} : t \in texts}
AreTexts(texts) == texts \subseteq TextsOver(LinesOf(texts))

(* lines.join("\n"), terminated if asked to unless the joined string is     *)
(* empty: a lone blank line is gone, and so is the last of several if the   *)
(* text is not terminated, since its "\n" is the end of the line before it. *)
Text(lines, ends) ==
    IF lines \in {<< >>, <<Blank>>} THEN [lines |-> << >>, ends |-> FALSE]
    ELSE IF ~ends /\ Last(lines) = Blank THEN [lines |-> Front(lines), ends |-> TRUE]
    ELSE [lines |-> lines, ends |-> ends]

(* A text gives lines that were joined with or without a terminator: only  *)
(* a blank last line may be missing.                                       *)
Gives(text, lines, ends) ==
    \/ text.lines = lines
    \/ Append(text.lines, Blank) = lines /\ (text.lines = << >> \/ ~ends)

(* A text kept as it is, but for the terminator it may lack *)
Terminated(t, ends) == [lines |-> t.lines, ends |-> ends /\ t.lines # << >>]

(* What TextDiff::from_lines compares: a line with its terminator *)
Token(t, i) == <<t.lines[i], i < Len(t.lines) \/ t.ends>>

-----------------------------------------------------------------------------
(* The diff *)

Ascending(S) ==
    [k \in 1..Cardinality(S) |-> CHOOSE i \in S : Cardinality({j \in S : j <= i}) = k]

(* The sets of lines of old and of new that match in order, as many as can *)
Common(old, new) ==
    {m \in (SUBSET DOMAIN old.lines) \X (SUBSET DOMAIN new.lines) :
        /\ Cardinality(m[1]) = Cardinality(m[2])
        /\ \A k \in 1..Cardinality(m[1]) :
              Token(old, Ascending(m[1])[k]) = Token(new, Ascending(m[2])[k])}

Alignments(old, new) ==
    LET common == Common(old, new)
    IN  {m \in common : \A n \in common : Cardinality(n[1]) <= Cardinality(m[1])}

(* The change before the k-th match, or after the last: it drops the lines *)
(* of old from position at on and writes the lines of new instead.         *)
ChangeAt(old, new, m, k) ==
    LET matched(S, i, end) == IF i = 0 THEN 0
                              ELSE IF i > Cardinality(S) THEN end + 1 ELSE Ascending(S)[i]
        at    == matched(m[1], k - 1, 0)
        until == matched(m[1], k, Len(old.lines))
    IN  [at |-> at, drop |-> until - at - 1,
         new |-> SubSeq(new.lines, matched(m[2], k - 1, 0) + 1,
                        matched(m[2], k, Len(new.lines)) - 1)]

ChangesOf(old, new, m) ==
    LET change(k) == ChangeAt(old, new, m, k)
        kept == Ascending({k \in 1..(Cardinality(m[1]) + 1) :
                              change(k).drop > 0 \/ change(k).new # << >>})
    IN  [i \in DOMAIN kept |-> change(kept[i])]

(* diff_to_line_diff: the hunk reaches Context lines beyond its last change *)
DiffsOf(old, new) ==
    IF old = new
    THEN {[changes |-> << >>, reach |-> 0]}
    ELSE {LET changes == ChangesOf(old, new, m)
              end == Last(changes).at + Last(changes).drop + Context
          IN  [changes |-> changes,
               reach |-> IF end > Len(old.lines) THEN Len(old.lines) ELSE end] :
            m \in Alignments(old, new)}

-----------------------------------------------------------------------------
(* Applying it *)

End(c) == c.at + c.drop

(* What is written up to change c and for it, when base was copied to pos *)
Taken(base, pos, c) == SubSeq(base, pos + 1, c.at) \o c.new

(* Where base goes on before the k-th change *)
Copied(changes, k) == IF k = 1 THEN 0 ELSE End(changes[k - 1])

Patched(lines, changes) ==
    LET text[k \in 0..Len(changes)] ==
            IF k = 0 THEN << >>
            ELSE text[k - 1] \o Taken(lines, Copied(changes, k), changes[k])
    IN  text[Len(changes)] \o SubSeq(lines, Copied(changes, Len(changes) + 1) + 1, Len(lines))

(* apply_line_diff refuses a hunk that reaches beyond the text *)
Applicable(lines, diff) == diff.reach <= Len(lines)

(* Mutant of ApplyDiff: an insertion lands one line late. *)
ApplyShifted(lines, diff) ==
    Patched(lines, [k \in DOMAIN diff.changes |->
                       [diff.changes[k] EXCEPT !.at = IF diff.changes[k].drop = 0 /\ @ < Len(lines)
                                                      THEN @ + 1 ELSE @]])

ApplyDiff(lines, diff) == Patched(lines, diff.changes)

(* The lines after every diff, and whether every hunk fitted: they are not  *)
(* joined in between, so a diff is applied to lines it was not taken of if  *)
(* the text it was taken of had lost a blank line.                          *)
PatchedBy(base, diffs) ==
    LET after[k \in 0..Len(diffs)] ==
            IF k = 0 THEN [lines |-> base.lines, fits |-> TRUE]
            ELSE LET was == after[k - 1]
                     fits == was.fits /\ Applicable(was.lines, diffs[k])
                 IN  [lines |-> IF fits THEN ApplyDiff(was.lines, diffs[k]) ELSE was.lines,
                      fits |-> fits]
    IN  after[Len(diffs)]

(* apply_deltas: TRUE in the second place if every hunk fitted *)
ApplyDeltas(base, diffs) ==
    LET end == PatchedBy(base, diffs)
    IN  IF diffs = << >> THEN <<base, TRUE>>
        ELSE <<Text(end.lines, base.ends), end.fits>>

-----------------------------------------------------------------------------
(* merge_texts *)

(* Mutant of SameStart: theirs is written where the two conflict. *)
TheirsWritten(o, t) ==
    [change |-> t, pos |-> IF End(o) > End(t) THEN End(o) ELSE End(t),
     clash |-> IF o.drop = t.drop /\ o.new = t.new THEN 0 ELSE 1]

(* Two changes that start at the same line: the one written, where base    *)
(* goes on, and whether they conflict.                                     *)
SameStart(o, t) ==
    LET late == IF End(o) > End(t) THEN End(o) ELSE End(t)
        keep(c, pos, clash) == [change |-> c, pos |-> pos, clash |-> clash]
    IN  CASE o.drop = t.drop /\ o.new = t.new -> keep(o, End(o), 0)
          [] o.drop = 0 /\ t.drop = 0 /\ o.new # t.new /\ IsPrefix(o.new, t.new) -> keep(t, o.at, 0)
          [] o.drop = 0 /\ t.drop = 0 /\ o.new # t.new /\ IsPrefix(t.new, o.new) -> keep(o, o.at, 0)
          [] OTHER -> keep(o, late, 1)

(* Mutant of WhoStarts: our changes are written first. *)
OursStart(ours, theirs) ==
    CASE theirs = << >> -> "ours"
      [] ours = << >> -> "theirs"
      [] OTHER -> IF Head(ours).at = Head(theirs).at THEN "both" ELSE "ours"

WhoStarts(ours, theirs) ==
    CASE theirs = << >> -> "ours"
      [] ours = << >> -> "theirs"
      [] OTHER -> IF Head(ours).at = Head(theirs).at THEN "both"
                  ELSE IF Head(ours).at < Head(theirs).at THEN "ours" ELSE "theirs"

(* The loop: changes of both sides in the order of their first line *)
MergeChanges(base, ours, theirs) ==
    LET turns == Len(ours) + Len(theirs)
        walk[k \in 0..turns] ==
            IF k = 0
            THEN [ours |-> ours, theirs |-> theirs, pos |-> 0, lines |-> << >>, conflicts |-> 0]
            ELSE LET was == walk[k - 1]
                     who == WhoStarts(was.ours, was.theirs)
                     same == SameStart(Head(was.ours), Head(was.theirs))
                     write(c, pos, clash) ==
                         [ours |-> IF who = "theirs" THEN was.ours ELSE Tail(was.ours),
                          theirs |-> IF who = "ours" THEN was.theirs ELSE Tail(was.theirs),
                          pos |-> pos, lines |-> was.lines \o Taken(base, was.pos, c),
                          conflicts |-> was.conflicts + clash]
                 IN  IF was.ours = << >> /\ was.theirs = << >> THEN was
                     ELSE CASE who = "ours" -> write(Head(was.ours), End(Head(was.ours)), 0)
                            [] who = "theirs" -> write(Head(was.theirs), End(Head(was.theirs)), 0)
                            [] who = "both" -> write(same.change, same.pos, same.clash)
        end == walk[turns]
    IN  [lines |-> end.lines \o SubSeq(base, end.pos + 1, Len(base)), conflicts |-> end.conflicts]

(* The fast paths and the walk; ends as the code restores it *)
MergeTexts(base, ours, theirs, dOurs, dTheirs) ==
    LET ends == base.ends \/ ours.ends \/ theirs.ends
        plain(t) == [text |-> Terminated(t, ends), conflicts |-> 0]
        walk == MergeChanges(base.lines, dOurs.changes, dTheirs.changes)
    IN  CASE ours = theirs \/ base = theirs -> plain(ours)
          [] base = ours /\ ours # theirs -> plain(theirs)
          [] OTHER -> [text |-> Text(walk.lines, ends), conflicts |-> walk.conflicts]
=============================================================================
