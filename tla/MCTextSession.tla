---------------------------- MODULE MCTextSession ----------------------------
EXTENDS TextSession

CONSTANT MaxLines

(* Three different lines, so that every position can be told apart, a text *)
(* that repeats a line, one that is blank, one without a terminator, and   *)
(* the empty file                                                          *)
BaseTexts ==
    {[lines |-> s, ends |-> TRUE] : s \in {<<"a", "b", "c">>, <<"a", "a">>, <<"">>}}
        \cup {[lines |-> s, ends |-> FALSE] : s \in {<<"b">>, << >>}}

(* Every text over the lines of base, a blank one and a new one, and the   *)
(* shorter ones without a terminator too                                   *)
EditedTexts ==
    {t \in [lines : BoundedSeq({"a", "b", "c", "x", ""}, MaxLines), ends : BOOLEAN] :
        IsText(t) /\ (t.ends \/ Len(t.lines) < MaxLines)}

=============================================================================
