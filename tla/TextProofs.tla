----------------------------- MODULE TextProofs -----------------------------
(***************************************************************************)
(* What is proved of LineMerge, TextSession and BackupStore, for texts of  *)
(* any length over any lines and for every longest alignment:              *)
(*                                                                         *)
(*   - a diff fits the text it was taken of and gives the lines of the     *)
(*     other (DiffReproduces): an alignment cuts both texts at its matches,*)
(*     a change stands where two neighbouring matches are not neighbouring *)
(*     lines, and after the change at a match the patched text is the new  *)
(*     one up to that match;                                               *)
(*   - applying deltas and merging give texts again (DeltasApply,          *)
(*     MergeIsText), and one more delta works on what the others gave      *)
(*     (OneMoreDelta);                                                     *)
(*   - a merge holds all that our side wrote, in order (MergeHolds), and   *)
(*     changes that lie apart make the reference that goes by lines        *)
(*     (MergeLands), turn by turn of the loop of merge_texts;              *)
(*   - from these, the properties of a merge session and of the backup     *)
(*     repository beside the core, each from an inductive invariant.       *)
(*                                                                         *)
(* A diff is one hunk, as LineMerge has it: how a long one is split into   *)
(* several is not part of this.                                            *)
(*                                                                         *)
(* LineMerge's loops are functions from a number of turns to a state; that *)
(* such a function has its values is LoopRuns, and UpTo is the induction   *)
(* along it.                                                               *)
(***************************************************************************)
EXTENDS BackupStore, TextSession, FiniteSetTheorems, SequenceTheorems, WellFoundedInduction, TLAPS

(* Induction up to a bound, for a set instead of a predicate.                *)
LEMMA UpTo ==
    ASSUME NEW n \in Nat, NEW S, 0 \in S, \A i \in 1..n : i - 1 \in S => i \in S
    PROVE  \A i \in 0..n : i \in S
PROOF
  <1> SUFFICES ASSUME \E i \in 0..n : i \notin S PROVE FALSE
    OBVIOUS
  <1> DEFINE R == OpToRel(<, Nat)
             B == {i \in 0..n : i \notin S}
  <1>1. B # {} /\ B \subseteq Nat
    OBVIOUS
  <1>2. PICK x \in B : \A y \in B : ~ (y < x)
    <2>1. PICK x \in B : \A y \in B : ~ (<<y, x>> \in R)
      BY <1>1, NatLessThanWellFounded, WFMin, Zenon
    <2>2. \A y \in B : ~ (y < x)
      BY <1>1, <2>1 DEF OpToRel
    <2> QED BY <2>2
  <1>3. x \in 1..n /\ x - 1 \in 0..n /\ x - 1 < x
    BY <1>2
  <1> QED BY <1>2, <1>3

-----------------------------------------------------------------------------
(* Positions in ascending order *)

(* Ascending counts the positions of a set up in order.                    *)
LEMMA AscendingOrders ==
    ASSUME NEW n \in Nat, NEW S \in SUBSET (1..n)
    PROVE  /\ IsFiniteSet(S) /\ Cardinality(S) \in Nat
           /\ Ascending(S) \in [1..Cardinality(S) -> S]
           /\ \A x \in S : \E k \in 1..Cardinality(S) : Ascending(S)[k] = x
           /\ \A i, j \in 1..Cardinality(S) : i < j => Ascending(S)[i] < Ascending(S)[j]
           /\ \A k \in 1..Cardinality(S), x \in S :
                 Ascending(S)[k] = x <=> Cardinality({y \in S : y <= x}) = k
PROOF
  <1> DEFINE N == Cardinality(S)
             upto(x) == {y \in S : y <= x}
             place == [x \in S |-> Cardinality(upto(x))]
             s == Ascending(S)
  <1>1. IsFiniteSet(S) /\ N \in Nat /\ \A x \in S : x \in Nat
    <2>1. IsFiniteSet(1..n)
      BY FS_Interval
    <2>2. IsFiniteSet(S)
      BY <2>1, FS_Subset
    <2> QED BY <2>2, FS_CardinalityType
  <1>2. ASSUME NEW x \in S
        PROVE  IsFiniteSet(upto(x)) /\ Cardinality(upto(x)) \in 1..N
    <2>1. IsFiniteSet(upto(x)) /\ Cardinality(upto(x)) <= N
      BY <1>1, FS_Subset
    <2>2. x \in upto(x)
      BY <1>1
    <2>3. Cardinality(upto(x)) # 0 /\ Cardinality(upto(x)) \in Nat
      <3> HIDE DEF upto
      <3> QED BY <2>1, <2>2, FS_EmptySet, FS_CardinalityType
    <2> QED BY <1>1, <2>1, <2>3
  <1>3. ASSUME NEW x \in S, NEW y \in S, x < y PROVE place[x] < place[y]
    <2> x \in Nat /\ y \in Nat
      BY <1>1
    <2>5. \A z \in S : z <= x => z <= y
      BY <1>1, <1>3
    <2>6. ~ (y <= x) /\ y <= y
      BY <1>3
    <2>7. upto(x) \subseteq upto(y)
      BY <2>5
    <2>1. upto(x) \subseteq upto(y) /\ y \notin upto(x) /\ y \in upto(y)
      BY <2>6, <2>7
    <2>2. Cardinality(upto(x)) <= Cardinality(upto(y)) /\ Cardinality(upto(x)) # Cardinality(upto(y))
      BY <1>2, <2>1, FS_Subset
    <2>3. Cardinality(upto(x)) \in Nat /\ Cardinality(upto(y)) \in Nat
      BY <1>1, <1>2
    <2>4. place[x] = Cardinality(upto(x)) /\ place[y] = Cardinality(upto(y))
      OBVIOUS
    <2> HIDE DEF upto, place
    <2> QED BY <2>2, <2>3, <2>4
  <1>4. place \in Injection(S, 1..N)
    <2>1. place \in [S -> 1..N]
      BY <1>2
    <2>2. ASSUME NEW x \in S, NEW y \in S, place[x] = place[y] PROVE x = y
      <3>1. x \in Nat /\ y \in Nat /\ place[x] \in Nat /\ place[y] \in Nat
        BY <1>1, <1>2
      <3>2. ~ (place[x] < place[y]) /\ ~ (place[y] < place[x])
        BY <2>2, <3>1
      <3> HIDE DEF place
      <3> QED BY <1>3, <3>1, <3>2
    <2> QED BY <2>1, <2>2 DEF Injection, IsInjective
  <1>5. place \in Surjection(S, 1..N)
    BY <1>1, <1>4, FS_Injection, FS_Interval
  <1>6. \A i \in 1..N : s[i] \in S /\ place[s[i]] = i
    <2>1. \A i \in 1..N : s[i] = CHOOSE x \in S : place[x] = i
      BY DEF Ascending
    <2>2. \A i \in 1..N : \E x \in S : place[x] = i
      BY <1>5 DEF Surjection
    <2> HIDE DEF place, s
    <2> QED BY <2>1, <2>2
  <1>7. s \in [1..N -> S]
    <2>1. s = [i \in 1..N |-> s[i]]
      BY DEF Ascending
    <2> HIDE DEF s
    <2> QED BY <1>6, <2>1
  <1>8. \A x \in S : \E k \in 1..N : s[k] = x
    <2> SUFFICES ASSUME NEW x \in S PROVE \E k \in 1..N : s[k] = x
      OBVIOUS
    <2>1. place[x] \in 1..N /\ s[place[x]] \in S /\ place[s[place[x]]] = place[x]
      BY <1>2, <1>6
    <2> HIDE DEF place, s
    <2> QED BY <1>4, <2>1 DEF Injection, IsInjective
  <1>9. ASSUME NEW i \in 1..N, NEW j \in 1..N, i < j PROVE s[i] < s[j]
    <2> HIDE DEF place, s
    <2>1. s[i] \in S /\ s[j] \in S /\ place[s[i]] = i /\ place[s[j]] = j
      BY <1>6
    <2>2. s[i] \in Nat /\ s[j] \in Nat
      BY <1>1, <2>1
    <2>3. ~ (s[j] < s[i])
      <3>1. s[j] < s[i] => place[s[j]] < place[s[i]]
        BY <1>3, <2>1
      <3> QED BY <1>1, <1>9, <2>1, <3>1
    <2>4. s[i] # s[j]
      BY <1>1, <1>9, <2>1
    <2> QED BY <2>2, <2>3, <2>4
  <1>11. \A k \in 1..N, x \in S : s[k] = x <=> Cardinality({y \in S : y <= x}) = k
    <2> SUFFICES ASSUME NEW k \in 1..N, NEW x \in S PROVE s[k] = x <=> place[x] = k
      OBVIOUS
    <2> HIDE DEF place, s
    <2> QED BY <1>4, <1>6 DEF Injection, IsInjective
  <1> HIDE DEF s
  <1>10. \A i, j \in 1..N : i < j => s[i] < s[j]
    BY <1>9
  <1> QED BY <1>1, <1>7, <1>8, <1>10, <1>11 DEF s

(* A loop of n steps over states V: g[i] is the state after i of them.        *)
LoopSteps(V, n) == [V \X (1..n) -> V]

IsLoop(V, n, first, step, g) ==
    /\ g \in [0..n -> V]
    /\ g[0] = first
    /\ \A i \in 1..n : g[i] = step[<<g[i - 1], i>>]

(* Every such loop has its states.                                           *)
LEMMA LoopRuns ==
    ASSUME NEW X, NEW n \in Nat, NEW first \in X, NEW step \in LoopSteps(X, n)
    PROVE  \E g : IsLoop(X, n, first, step, g)
PROOF
  <1> DEFINE Is(m, g) == /\ g \in [0..m -> X] /\ g[0] = first
                         /\ \A i \in 1..m : g[i] = step[<<g[i - 1], i>>]
             S == {m \in 0..n : \E g : Is(m, g)}
  <1> USE DEF LoopSteps
  <1>1. 0 \in S
    <2>1. Is(0, [i \in 0..0 |-> first])
      OBVIOUS
    <2> HIDE DEF Is
    <2> QED BY <2>1
  <1>2. ASSUME NEW m \in 1..n, m - 1 \in S PROVE m \in S
    <2>1. PICK g : Is(m - 1, g)
      <3>1. \A x \in S : \E g : Is(x, g)
        OBVIOUS
      <3> HIDE DEF Is, S
      <3> QED BY <1>2, <3>1
    <2> DEFINE h == [i \in 0..m |-> IF i = m THEN step[<<g[m - 1], m>>] ELSE g[i]]
    <2>2. g[m - 1] \in X
      BY <2>1
    <2>3. step[<<g[m - 1], m>>] \in X
      BY <2>2
    <2>4. h \in [0..m -> X]
      <3> SUFFICES ASSUME NEW i \in 0..m PROVE h[i] \in X
        OBVIOUS
      <3>1. CASE i = m
        BY <2>3, <3>1
      <3>2. CASE i # m
        <4>1. i \in 0..(m - 1)
          BY <3>2
        <4> QED BY <2>1, <3>2, <4>1
      <3> QED BY <3>1, <3>2
    <2>5. h[0] = first
      BY <2>1
    <2>6. ASSUME NEW i \in 1..m PROVE h[i] = step[<<h[i - 1], i>>]
      <3>1. i - 1 \in 0..m /\ i - 1 # m /\ i \in 0..m
        OBVIOUS
      <3>2. h[i - 1] = g[i - 1]
        BY <3>1
      <3>3. CASE i = m
        BY <3>1, <3>2, <3>3
      <3>4. CASE i # m
        <4>1. i \in 1..(m - 1) /\ h[i] = g[i]
          BY <3>1, <3>4
        <4> QED BY <2>1, <3>2, <4>1
      <3> QED BY <3>3, <3>4
    <2>7. Is(m, h)
      <3> HIDE DEF h
      <3> QED BY <2>4, <2>5, <2>6
    <2> HIDE DEF Is, h
    <2> QED BY <2>7
  <1>3. n \in S
    <2> HIDE DEF S
    <2>1. \A i \in 0..n : i \in S
      BY <1>1, <1>2, UpTo
    <2> QED BY <2>1
  <1>4. \E g : Is(n, g)
    <2>1. \A x \in S : \E g : Is(x, g)
      OBVIOUS
    <2> HIDE DEF Is, S
    <2> QED BY <1>3, <2>1
  <1> QED BY <1>4 DEF IsLoop


-----------------------------------------------------------------------------
(* Patches *)

(* The change ranges a diff may list, over lines from A                    *)
Changes(A) == [at : Nat, drop : Nat, new : Seq(A)]

(* The text after k changes                                                  *)
IsWritten(lines, changes, text) ==
    /\ text[0] = << >>
    /\ \A k \in 1..Len(changes) :
          text[k] = text[k - 1] \o Taken(lines, Copied(changes, k), changes[k])

(* apply_line_diff goes through the changes: the text it has written       *)
(* before the rest of the lines is copied.                                 *)
LEMMA PatchedInSteps ==
    ASSUME NEW A, NEW lines \in Seq(A), NEW changes \in Seq(Changes(A)),
           \A k \in DOMAIN changes : changes[k].at <= Len(lines)
    PROVE  \E text \in [0..Len(changes) -> Seq(A)] :
              /\ IsWritten(lines, changes, text)
              /\ Patched(lines, changes) = text[Len(changes)] \o
                    SubSeq(lines, Copied(changes, Len(changes) + 1) + 1, Len(lines))
PROOF
  <1> DEFINE n == Len(changes)
             part(k) == Taken(lines, Copied(changes, k), changes[k])
             Loop(f) == f = [k \in 0..n |-> IF k = 0 THEN << >> ELSE f[k - 1] \o part(k)]
             step == [p \in Seq(A) \X (1..n) |-> p[1] \o part(p[2])]
             text == CHOOSE f : Loop(f)
  <1>1. n \in Nat /\ DOMAIN changes = 1..n /\ \A k \in 1..n : changes[k] \in Changes(A)
    BY LenProperties, ElementOfSeq
  <1>2. ASSUME NEW k \in 1..n PROVE part(k) \in Seq(A)
    <2>1. Copied(changes, k) \in Nat
      <3>1. CASE k = 1
        BY <3>1 DEF Copied
      <3>2. CASE k # 1
        <4>1. PICK c \in Changes(A) : c = changes[k - 1]
          <5>1. k - 1 \in 1..n
            BY <1>1, <3>2
          <5> QED BY <1>1, <5>1
        <4>2. Copied(changes, k) = c.at + c.drop
          BY <3>2, <4>1 DEF Copied, End
        <4>3. c.at \in Nat /\ c.drop \in Nat
          BY DEF Changes
        <4> QED BY <4>2, <4>3
      <3> QED BY <3>1, <3>2
    <2>2. changes[k].at \in Nat /\ changes[k].at <= Len(lines) /\ changes[k].new \in Seq(A)
      BY <1>1 DEF Changes
    <2>3. \A i \in (Copied(changes, k) + 1)..changes[k].at : lines[i] \in A
      BY <2>1, <2>2, LenProperties
    <2>4. SubSeq(lines, Copied(changes, k) + 1, changes[k].at) \in Seq(A)
      BY <2>1, <2>2, <2>3, SubSeqProperties
    <2> QED BY <2>2, <2>4, ConcatProperties DEF Taken
  <1> HIDE DEF n, part
  <1>3. step \in LoopSteps(Seq(A), n)
    BY <1>2, ConcatProperties DEF LoopSteps
  <1>4. << >> \in Seq(A)
    BY EmptySeq
  <1>5. \A s \in Seq(A), k \in 1..n : step[<<s, k>>] = s \o part(k)
    OBVIOUS
  <1> HIDE DEF step
  <1>6. PICK f : IsLoop(Seq(A), n, << >>, step, f)
    BY <1>1, <1>3, <1>4, LoopRuns
  <1>7. Loop(f)
    <2>1. ASSUME NEW k \in 1..n PROVE f[k] = f[k - 1] \o part(k)
      <3>1. k - 1 \in 0..n
        BY <1>1
      <3>2. f[k - 1] \in Seq(A)
        BY <1>6, <3>1 DEF IsLoop
      <3> QED BY <1>5, <1>6, <3>2 DEF IsLoop
    <2>2. ASSUME NEW k \in 0..n PROVE f[k] = IF k = 0 THEN << >> ELSE f[k - 1] \o part(k)
      <3>1. k = 0 \/ k \in 1..n
        BY <1>1
      <3> QED BY <1>6, <2>1, <3>1 DEF IsLoop
    <2> QED BY <1>6, <2>2 DEF IsLoop
  <1>8. Loop(text)
    <2> HIDE DEF Loop
    <2> QED BY <1>7
  <1>9. Patched(lines, changes) = text[n] \o SubSeq(lines, Copied(changes, n + 1) + 1, Len(lines))
    BY Zenon DEF Patched, n, part
  <1> HIDE DEF text
  <1>10. text[0] = << >> /\ \A k \in 1..n : text[k] = text[k - 1] \o part(k)
    <2>1. 0 \in 0..n /\ \A k \in 1..n : k \in 0..n /\ k # 0
      BY <1>1
    <2> QED BY <1>8, <2>1
  <1>11. text \in [0..n -> Seq(A)]
    <2> DEFINE T == {k \in 0..n : text[k] \in Seq(A)}
    <2>1. 0 \in T
      <3>1. 0 \in 0..n /\ text[0] \in Seq(A)
        BY <1>1, <1>4, <1>10
      <3> QED BY <3>1
    <2>2. ASSUME NEW k \in 1..n, k - 1 \in T PROVE k \in T
      <3>1. k \in 0..n
        BY <1>1
      <3>2. text[k] = text[k - 1] \o part(k) /\ text[k - 1] \in Seq(A) /\ part(k) \in Seq(A)
        BY <1>2, <1>10, <2>2
      <3> QED BY <3>1, <3>2, ConcatProperties
    <2>3. \A k \in 0..n : k \in T
      <3> HIDE DEF T
      <3> QED BY <1>1, <2>1, <2>2, UpTo
    <2>4. \A k \in 0..n : text[k] \in Seq(A)
      BY <2>3
    <2> QED BY <1>8, <2>4
  <1> QED BY <1>9, <1>10, <1>11 DEF IsWritten, n, part

(* What grows from place to place is larger at a later place.              *)
LEMMA Increasing ==
    ASSUME NEW n \in Nat, NEW a \in [0..n -> Nat], \A k \in 1..n : a[k - 1] < a[k]
    PROVE  \A j \in 0..n : \A i \in 0..j : a[i] <= a[j]
PROOF
  <1> DEFINE T == {j \in 0..n : \A i \in 0..j : a[i] <= a[j]}
  <1>1. 0 \in T
    <2>1. 0 \in 0..n /\ 0..0 = {0} /\ a[0] \in Nat
      OBVIOUS
    <2> QED BY <2>1
  <1>2. ASSUME NEW j \in 1..n, j - 1 \in T PROVE j \in T
    <2>1. j \in 0..n /\ j - 1 \in 0..n /\ a[j] \in Nat /\ a[j - 1] \in Nat /\ a[j - 1] < a[j]
      OBVIOUS
    <2>2. ASSUME NEW i \in 0..j PROVE a[i] <= a[j]
      <3>1. CASE i = j
        BY <2>1, <3>1
      <3>2. CASE i # j
        <4>1. i \in 0..(j - 1) /\ i \in 0..n
          BY <2>1, <3>2
        <4>2. a[i] <= a[j - 1] /\ a[i] \in Nat
          BY <1>2, <4>1
        <4> QED BY <2>1, <4>2
      <3> QED BY <3>1, <3>2
    <2> QED BY <2>1, <2>2
  <1>3. \A j \in 0..n : j \in T
    <2> HIDE DEF T
    <2> QED BY <1>1, <1>2, UpTo
  <1> QED BY <1>3

-----------------------------------------------------------------------------
(* Alignments *)

(* n lines of old and new match: those at a[1], .. and b[1], ..; a[0], b[0]  *)
(* and a[n + 1], b[n + 1] are before and after the lines.                    *)
IsAligned(old, new, n, a, b) ==
    /\ a \in [0..(n + 1) -> Nat] /\ b \in [0..(n + 1) -> Nat]
    /\ a[0] = 0 /\ b[0] = 0 /\ a[n + 1] = Len(old) + 1 /\ b[n + 1] = Len(new) + 1
    /\ \A k \in 1..(n + 1) : a[k - 1] < a[k] /\ b[k - 1] < b[k]
    /\ \A k \in 1..n : old[a[k]] = new[b[k]]

(* How much of a text was copied when the k-th change, or none, is written.  *)
Past(a, k) == IF k = 0 THEN 0 ELSE a[k] - 1

(* The places of an alignment are places of the two texts.                 *)
LEMMA AlignedIn ==
    ASSUME NEW L, NEW old \in Seq(L), NEW new \in Seq(L), NEW n \in Nat, NEW a, NEW b,
           IsAligned(old, new, n, a, b)
    PROVE  /\ \A k \in 0..n : a[k] \in 0..Len(old) /\ b[k] \in 0..Len(new)
           /\ \A k \in 1..(n + 1) : a[k] \in 1..(Len(old) + 1) /\ b[k] \in 1..(Len(new) + 1)
           /\ \A k \in 0..(n + 1) : Past(a, k) \in 0..Len(old) /\ Past(b, k) \in 0..Len(new)
           /\ \A j \in 0..(n + 1) : \A i \in 0..j : a[i] <= a[j] /\ b[i] <= b[j]
PROOF
  <1>1. Len(old) \in Nat /\ Len(new) \in Nat /\ n + 1 \in Nat
    BY LenProperties
  <1>2. \A j \in 0..(n + 1) : \A i \in 0..j : a[i] <= a[j]
    BY <1>1, Increasing DEF IsAligned
  <1>3. \A j \in 0..(n + 1) : \A i \in 0..j : b[i] <= b[j]
    BY <1>1, Increasing DEF IsAligned
  <1>4. ASSUME NEW k \in 0..n PROVE a[k] \in 0..Len(old) /\ b[k] \in 0..Len(new)
    <2>1. k + 1 \in 1..(n + 1) /\ (k + 1) - 1 = k /\ k + 1 \in 0..(n + 1) /\ n + 1 \in 0..(n + 1) /\ k \in 0..(n + 1)
      BY <1>1
    <2>2. a[k] < a[k + 1] /\ b[k] < b[k + 1]
      BY <2>1 DEF IsAligned
    <2>3. a[k + 1] <= a[n + 1] /\ b[k + 1] <= b[n + 1]
      BY <1>2, <1>3, <2>1
    <2>4. a[k] \in Nat /\ b[k] \in Nat /\ a[k + 1] \in Nat /\ b[k + 1] \in Nat
          /\ a[n + 1] = Len(old) + 1 /\ b[n + 1] = Len(new) + 1
      BY <2>1 DEF IsAligned
    <2> QED BY <1>1, <2>2, <2>3, <2>4
  <1>5. ASSUME NEW k \in 1..(n + 1) PROVE a[k] \in 1..(Len(old) + 1) /\ b[k] \in 1..(Len(new) + 1)
    <2>1. k - 1 \in 0..n /\ k \in 0..(n + 1) /\ n + 1 \in 0..(n + 1) /\ k \in 0..(n + 1)
      BY <1>1
    <2>2. a[k - 1] < a[k] /\ b[k - 1] < b[k]
      BY DEF IsAligned
    <2>3. a[k] <= a[n + 1] /\ b[k] <= b[n + 1]
      BY <1>2, <1>3, <2>1
    <2>4. a[k] \in Nat /\ b[k] \in Nat /\ a[k - 1] \in Nat /\ b[k - 1] \in Nat
          /\ a[n + 1] = Len(old) + 1 /\ b[n + 1] = Len(new) + 1
      BY <1>4, <2>1 DEF IsAligned
    <2> QED BY <1>1, <2>2, <2>3, <2>4
  <1>6. ASSUME NEW k \in 0..(n + 1) PROVE Past(a, k) \in 0..Len(old) /\ Past(b, k) \in 0..Len(new)
    <2>1. CASE k = 0
      BY <1>1, <2>1 DEF Past
    <2>2. CASE k # 0
      <3>1. k \in 1..(n + 1)
        BY <1>1, <2>2
      <3> QED BY <1>1, <1>5, <2>2, <3>1 DEF Past
    <2> QED BY <2>1, <2>2
  <1> QED BY <1>2, <1>3, <1>4, <1>5, <1>6

(* After the s-th match and up to the e-th, lines match one by one.          *)
InStep(a, b, s, e) == \A k \in (s + 1)..e : a[k] = a[k - 1] + 1 /\ b[k] = b[k - 1] + 1

(* The lines of old after x and up to p are those of new after y up to q     *)
SameLines(old, x, p, new, y, q) == SubSeq(old, x + 1, p) = SubSeq(new, y + 1, q)

(* Between two changes, lines match one by one.                              *)
LEMMA EqualStretch ==
    ASSUME NEW L, NEW old \in Seq(L), NEW new \in Seq(L), NEW n \in Nat, NEW a, NEW b,
           IsAligned(old, new, n, a, b), NEW s \in 0..n, NEW e \in s..n,
           InStep(a, b, s, e)
    PROVE  /\ Past(a, s) <= a[e] /\ Past(b, s) <= b[e]
           /\ SameLines(old, Past(a, s), a[e], new, Past(b, s), b[e])
PROOF
  <1> DEFINE o == Past(a, s)
             w == Past(b, s)
             T == {k \in 0..(e - s) : /\ a[s + k] - o = b[s + k] - w /\ o <= a[s + k]
                                      /\ \A x \in 1..(a[s + k] - o) : old[o + x] = new[w + x]}
  <1>1. Len(old) \in Nat /\ Len(new) \in Nat /\ e - s \in Nat /\ s \in Nat /\ e \in Nat
    BY LenProperties
  <1>2. o \in 0..Len(old) /\ w \in 0..Len(new) /\ o \in Nat /\ w \in Nat
    <2>1. s \in 0..(n + 1)
      OBVIOUS
    <2>2. o \in 0..Len(old) /\ w \in 0..Len(new)
      BY <2>1, AlignedIn
    <2> HIDE DEF o, w
    <2> QED BY <1>1, <2>2
  <1>3. \A k \in 0..n : a[k] \in 0..Len(old) /\ b[k] \in 0..Len(new)
    BY AlignedIn
  <1>4. 0 \in T
    <2>1. s + 0 = s /\ a[s] \in Nat /\ b[s] \in Nat /\ 0 \in 0..(e - s)
      BY <1>1, <1>3
    <2>2. CASE s = 0
      <3>1. a[s] = 0 /\ b[s] = 0 /\ o = 0 /\ w = 0
        BY <2>2 DEF IsAligned, Past
      <3> QED BY <2>1, <3>1
    <2>3. CASE s # 0
      <3>1. o = a[s] - 1 /\ w = b[s] - 1
        BY <2>3 DEF Past
      <3>2. old[a[s]] = new[b[s]]
        <4>1. s \in 1..n
          BY <2>3
        <4> QED BY <4>1 DEF IsAligned
      <3>3. a[s] - o = 1 /\ b[s] - w = 1 /\ o + 1 = a[s] /\ w + 1 = b[s] /\ o <= a[s]
        BY <2>1, <3>1
      <3>4. \A x \in 1..1 : old[o + x] = new[w + x]
        <4>1. \A x \in 1..1 : x = 1
          OBVIOUS
        <4> QED BY <3>2, <3>3, <4>1
      <3> QED BY <2>1, <3>3, <3>4
    <2> QED BY <2>2, <2>3
  <1>5. ASSUME NEW k \in 1..(e - s), k - 1 \in T PROVE k \in T
    <2>1. s + k \in (s + 1)..e /\ (s + k) - 1 = s + (k - 1) /\ s + (k - 1) \in 0..n /\ s + k \in 1..n
          /\ k \in 0..(e - s) /\ s + k \in 0..n
      BY <1>1
    <2>2. PICK p \in Nat, q \in Nat : p = a[s + (k - 1)] /\ q = b[s + (k - 1)]
      BY <1>3, <2>1
    <2>3. a[s + k] = p + 1 /\ b[s + k] = q + 1
      BY <2>1, <2>2 DEF InStep
    <2>4. p - o = q - w /\ o <= p /\ \A x \in 1..(p - o) : old[o + x] = new[w + x]
      BY <1>5, <2>2
    <2>5. old[p + 1] = new[q + 1]
      <3>1. PICK i \in 1..n : i = s + k
        BY <2>1
      <3>2. old[a[i]] = new[b[i]]
        BY DEF IsAligned
      <3> QED BY <2>3, <3>1, <3>2
    <2>6. \A x \in 1..((p + 1) - o) : old[o + x] = new[w + x]
      <3> SUFFICES ASSUME NEW x \in 1..((p + 1) - o), x \notin 1..(p - o) PROVE old[o + x] = new[w + x]
        BY <2>4
      <3> HIDE DEF o, w
      <3>1. o + x = p + 1 /\ w + x = q + 1
        <4>1. p - o = q - w /\ o <= p
          BY <2>4
        <4> QED BY <1>2, <4>1
      <3> QED BY <2>5, <3>1
    <2>7. (p + 1) - o = (q + 1) - w /\ o <= p + 1
      BY <1>2, <2>4
    <2> QED BY <2>1, <2>3, <2>6, <2>7
  <1>6. e - s \in T
    <2>1. \A k \in 0..(e - s) : k \in T
      <3> HIDE DEF T
      <3> QED BY <1>1, <1>4, <1>5, UpTo
    <2> HIDE DEF T
    <2> QED BY <1>1, <2>1
  <1>7. s + (e - s) = e
    BY <1>1
  <1>8. a[e] - o = b[e] - w /\ o <= a[e] /\ \A x \in 1..(a[e] - o) : old[o + x] = new[w + x]
    BY <1>6, <1>7
  <1> HIDE DEF o, w, T
  <1>9. PICK p \in 0..Len(old), q \in 0..Len(new) : p = a[e] /\ q = b[e]
    BY <1>1, <1>3
  <1>10. /\ SubSeq(old, o + 1, p) \in Seq(L) /\ Len(SubSeq(old, o + 1, p)) = p - o
         /\ \A x \in 1..(p - o) : SubSeq(old, o + 1, p)[x] = old[o + x]
    <2>1. \A i \in (o + 1)..p : old[i] \in L
      BY <1>1, <1>2, LenProperties
    <2>2. o + 1 \in Int /\ p \in Int /\ p - (o + 1) + 1 = p - o /\ o <= p
      <3>1. p \in Nat /\ o <= p
        BY <1>1, <1>8, <1>9
      <3> QED BY <1>2, <3>1
    <2>3. \A x \in 1..(p - o) : (o + 1) + x - 1 = o + x
      BY <1>2
    <2>4. /\ SubSeq(old, o + 1, p) \in Seq(L)
          /\ Len(SubSeq(old, o + 1, p)) = IF o + 1 <= p THEN p - (o + 1) + 1 ELSE 0
          /\ \A x \in 1..(p - (o + 1) + 1) : SubSeq(old, o + 1, p)[x] = old[(o + 1) + x - 1]
      BY <2>1, <2>2, SubSeqProperties
    <2>5. p - o = IF o + 1 <= p THEN p - o ELSE 0
      BY <1>2, <1>8, <1>9
    <2> QED BY <2>2, <2>3, <2>4, <2>5
  <1>11. /\ SubSeq(new, w + 1, q) \in Seq(L) /\ Len(SubSeq(new, w + 1, q)) = q - w
         /\ \A x \in 1..(q - w) : SubSeq(new, w + 1, q)[x] = new[w + x]
    <2>1. \A i \in (w + 1)..q : new[i] \in L
      BY <1>1, <1>2, LenProperties
    <2>2. w + 1 \in Int /\ q \in Int /\ q - (w + 1) + 1 = q - w /\ w <= q
      <3>1. p \in Nat /\ q \in Nat /\ o <= p /\ p - o = q - w
        BY <1>1, <1>8, <1>9
      <3> QED BY <1>2, <3>1
    <2>3. \A x \in 1..(q - w) : (w + 1) + x - 1 = w + x
      BY <1>2
    <2>4. /\ SubSeq(new, w + 1, q) \in Seq(L)
          /\ Len(SubSeq(new, w + 1, q)) = IF w + 1 <= q THEN q - (w + 1) + 1 ELSE 0
          /\ \A x \in 1..(q - (w + 1) + 1) : SubSeq(new, w + 1, q)[x] = new[(w + 1) + x - 1]
      BY <2>1, <2>2, SubSeqProperties
    <2>5. q - w = IF w + 1 <= q THEN q - w ELSE 0
      BY <1>2, <1>8, <1>9
    <2> QED BY <2>2, <2>3, <2>4, <2>5
  <1>12. p - o = q - w /\ o <= p /\ w <= q
    BY <1>2, <1>8, <1>9
  <1>13. SubSeq(old, o + 1, p) = SubSeq(new, w + 1, q)
    <2>1. PICK u \in Seq(L), v \in Seq(L) : u = SubSeq(old, o + 1, p) /\ v = SubSeq(new, w + 1, q)
      BY <1>10, <1>11
    <2>2. Len(u) = Len(v)
      BY <1>10, <1>11, <1>12, <2>1
    <2>3. \A x \in 1..Len(u) : u[x] = v[x]
      <3> SUFFICES ASSUME NEW x \in 1..Len(u) PROVE u[x] = v[x]
        OBVIOUS
      <3>1. x \in 1..(p - o) /\ x \in 1..(q - w)
        BY <1>10, <1>12, <2>1
      <3>2. u[x] = old[o + x] /\ v[x] = new[w + x]
        BY <1>10, <1>11, <2>1, <3>1
      <3>3. old[o + x] = new[w + x]
        BY <1>8, <1>9, <3>1
      <3> QED BY <3>2, <3>3
    <2> QED BY <2>1, <2>2, <2>3, SeqEqual
  <1> QED BY <1>9, <1>12, <1>13 DEF SameLines, o, w

(* The places where something changes                                        *)
ChangedAt(n, a, b) ==
    {k \in 1..(n + 1) : a[k] - a[k - 1] - 1 > 0 \/ b[k] - b[k - 1] - 1 > 0}

(* The changes of an alignment                                               *)
IsChangeList(new, n, a, b, list) ==
    LET at == Ascending(ChangedAt(n, a, b))
    IN  list = [i \in 1..Cardinality(ChangedAt(n, a, b)) |->
                   [at |-> a[at[i] - 1], drop |-> a[at[i]] - a[at[i] - 1] - 1,
                    new |-> SubSeq(new, b[at[i] - 1] + 1, b[at[i]] - 1)]]

(* The change c is that before the k-th match.                               *)
IsChange(new, a, b, k, c) ==
    /\ c.at = a[k - 1] /\ End(c) = Past(a, k)
    /\ c.new = SubSeq(new, b[k - 1] + 1, Past(b, k))

(* The changes of an alignment are within the text.                          *)
LEMMA ChangeListed ==
    ASSUME NEW L, NEW old \in Seq(L), NEW new \in Seq(L), NEW n \in Nat, NEW a, NEW b,
           IsAligned(old, new, n, a, b), NEW list, IsChangeList(new, n, a, b, list)
    PROVE  LET at == Ascending(ChangedAt(n, a, b)) IN
           /\ list \in Seq(Changes(L)) /\ Len(list) = Cardinality(ChangedAt(n, a, b))
           /\ \A i \in 1..Len(list) : IsChange(new, a, b, at[i], list[i])
PROOF
  <1> DEFINE S == ChangedAt(n, a, b)
             at == Ascending(S)
             N == Cardinality(S)
  <1>1. S \in SUBSET (1..(n + 1))
    BY DEF ChangedAt
  <1>2. N \in Nat /\ at \in [1..N -> S]
    <2>1. n + 1 \in Nat
      OBVIOUS
    <2> HIDE DEF S
    <2> QED BY <1>1, <2>1, AscendingOrders
  <1>3. list = [i \in 1..N |-> [at |-> a[at[i] - 1], drop |-> a[at[i]] - a[at[i] - 1] - 1,
                                new |-> SubSeq(new, b[at[i] - 1] + 1, b[at[i]] - 1)]]
    BY DEF IsChangeList
  <1> HIDE DEF S, at, N
  <1>4. ASSUME NEW i \in 1..N
        PROVE  /\ list[i] \in Changes(L) /\ list[i].at = a[at[i] - 1]
               /\ End(list[i]) = Past(a, at[i])
               /\ list[i].new = SubSeq(new, b[at[i] - 1] + 1, Past(b, at[i]))
    <2>1. PICK k \in 1..(n + 1) : k = at[i]
      BY <1>1, <1>2
    <2>2. list[i] = [at |-> a[k - 1], drop |-> a[k] - a[k - 1] - 1,
                     new |-> SubSeq(new, b[k - 1] + 1, b[k] - 1)]
      BY <1>3, <2>1
    <2>3. k - 1 \in 0..n /\ k # 0
      OBVIOUS
    <2>4. a[k - 1] \in Nat /\ b[k - 1] \in Nat /\ a[k] \in Nat /\ b[k] \in 1..(Len(new) + 1)
          /\ a[k - 1] < a[k]
      <3>1. a[k - 1] \in 0..Len(old) /\ b[k - 1] \in 0..Len(new) /\ a[k] \in 1..(Len(old) + 1)
        BY <2>3, AlignedIn
      <3>2. b[k] \in 1..(Len(new) + 1) /\ a[k - 1] < a[k]
        BY AlignedIn DEF IsAligned
      <3> QED BY <3>1, <3>2
    <2>5. SubSeq(new, b[k - 1] + 1, b[k] - 1) \in Seq(L)
      <3>1. \A x \in (b[k - 1] + 1)..(b[k] - 1) : new[x] \in L
        BY <2>4, LenProperties
      <3> QED BY <2>4, <3>1, SubSeqProperties
    <2>6. a[k] - a[k - 1] - 1 \in Nat
      BY <2>4
    <2>7. list[i] \in Changes(L)
      BY <2>2, <2>4, <2>5, <2>6 DEF Changes
    <2>8. End(list[i]) = a[k] - 1
      BY <2>2, <2>4 DEF End
    <2>9. Past(a, k) = a[k] - 1 /\ Past(b, k) = b[k] - 1
      BY <2>3 DEF Past
    <2>10. list[i].at = a[k - 1] /\ list[i].new = SubSeq(new, b[k - 1] + 1, b[k] - 1)
      <3>1. PICK q \in Seq(L) : q = SubSeq(new, b[k - 1] + 1, b[k] - 1)
        BY <2>5
      <3>2. PICK x, y : x = a[k - 1] /\ y = a[k] - a[k - 1] - 1
        OBVIOUS
      <3>3. list[i] = [at |-> x, drop |-> y, new |-> q]
        BY <2>2, <3>1, <3>2
      <3>4. list[i].at = x /\ list[i].new = q
        BY <3>3
      <3> QED BY <3>1, <3>2, <3>4
    <2> QED BY <2>1, <2>7, <2>8, <2>9, <2>10
  <1>5. list \in Seq(Changes(L)) /\ Len(list) = N
    <2>1. list = [i \in 1..N |-> list[i]]
      BY <1>3
    <2>2. list \in [1..N -> Changes(L)]
      BY <1>4, <2>1
    <2> QED BY <1>2, <2>2
  <1> QED BY <1>4, <1>5 DEF S, at, N, IsChange

(* The place of the i-th change, or before all                               *)
Place(n, a, b, i) == IF i = 0 THEN 0 ELSE Ascending(ChangedAt(n, a, b))[i]

(* After a change, nothing changes until the next one.                       *)
LEMMA BetweenChanges ==
    ASSUME NEW L, NEW old \in Seq(L), NEW new \in Seq(L), NEW n \in Nat, NEW a, NEW b,
           IsAligned(old, new, n, a, b), NEW i \in 0..Cardinality(ChangedAt(n, a, b)),
           NEW e \in Place(n, a, b, i)..n,
           i = Cardinality(ChangedAt(n, a, b)) \/ e < Place(n, a, b, i + 1)
    PROVE  InStep(a, b, Place(n, a, b, i), e)
PROOF
  <1> DEFINE S == ChangedAt(n, a, b)
             at == Ascending(S)
             N == Cardinality(S)
             s == Place(n, a, b, i)
  <1>1. S \in SUBSET (1..(n + 1))
    BY DEF ChangedAt
  <1>2. /\ N \in Nat /\ at \in [1..N -> S]
        /\ \A x \in S : \E j \in 1..N : at[j] = x
        /\ \A x, y \in 1..N : x < y => at[x] < at[y]
    <2>1. n + 1 \in Nat
      OBVIOUS
    <2> HIDE DEF S
    <2> QED BY <1>1, <2>1, AscendingOrders
  <1>3. s = (IF i = 0 THEN 0 ELSE at[i]) /\ (i = N \/ e < at[i + 1])
    BY <1>2 DEF Place
  <1>4. i \in Nat /\ i \in 0..N /\ s \in Nat
    BY <1>1, <1>2, <1>3
  <1>5. ASSUME NEW k \in (s + 1)..e PROVE k \notin S
    <2> SUFFICES ASSUME k \in S PROVE FALSE
      OBVIOUS
    <2> HIDE DEF S, at, N, s
    <2>1. PICK j \in 1..N : at[j] = k
      BY <1>2
    <2>2. \A x \in 1..N : at[x] \in Nat
      <3> SUFFICES ASSUME NEW x \in 1..N PROVE at[x] \in Nat
        OBVIOUS
      <3>1. at[x] \in S
        BY <1>2
      <3>2. at[x] \in 1..(n + 1)
        BY <1>1, <3>1
      <3> QED BY <3>2
    <2>3. i # 0 => ~ (j <= i)
      <3> SUFFICES ASSUME i # 0, j <= i PROVE FALSE
        OBVIOUS
      <3>1. i \in 1..N /\ at[i] = s
        BY <1>3, <1>4
      <3>2. at[j] <= at[i]
        BY <1>2, <1>4, <2>2, <3>1
      <3> QED BY <1>4, <1>5, <2>1, <2>2, <3>1, <3>2
    <2>4. i < j
      BY <1>2, <1>4, <2>1, <2>3
    <2>5. i # N /\ i + 1 \in 1..N /\ i + 1 <= j
      BY <1>2, <1>4, <2>1, <2>4
    <2>6. at[i + 1] <= at[j]
      <3>1. PICK x \in 1..N : x = i + 1
        BY <2>5
      <3>2. x = j \/ x < j
        BY <1>2, <2>5, <3>1
      <3>3. x < j => at[x] < at[j]
        BY <1>2
      <3>4. at[x] \in Nat /\ at[j] \in Nat
        BY <2>2
      <3> QED BY <3>1, <3>2, <3>3, <3>4
    <2> QED BY <1>3, <1>5, <2>1, <2>2, <2>5, <2>6
  <1>6. ASSUME NEW k \in (s + 1)..e PROVE a[k] = a[k - 1] + 1 /\ b[k] = b[k - 1] + 1
    <2>1. k \in 1..(n + 1) /\ k - 1 \in 0..n
      BY <1>4
    <2>2. ~ (a[k] - a[k - 1] - 1 > 0) /\ ~ (b[k] - b[k - 1] - 1 > 0)
      BY <1>5, <1>6, <2>1 DEF ChangedAt
    <2>3. a[k - 1] < a[k] /\ b[k - 1] < b[k]
      BY <2>1 DEF IsAligned
    <2>4. a[k] \in Nat /\ b[k] \in Nat /\ a[k - 1] \in Nat /\ b[k - 1] \in Nat
      <3>1. k \in 0..(n + 1) /\ k - 1 \in 0..(n + 1)
        BY <2>1
      <3> QED BY <3>1 DEF IsAligned
    <2>5. \A x, y \in Nat : x < y /\ ~ (y - x - 1 > 0) => y = x + 1
      OBVIOUS
    <2> HIDE DEF s, S, N, at
    <2> QED BY <2>2, <2>3, <2>4, <2>5
  <1> QED BY <1>6 DEF InStep

(* The places of the changes ascend, and none is after the last.             *)
LEMMA Places ==
    ASSUME NEW n \in Nat, NEW a, NEW b
    PROVE  LET N == Cardinality(ChangedAt(n, a, b)) IN
           /\ N \in Nat /\ Place(n, a, b, 0) = 0
           /\ \A i \in 1..N : /\ Place(n, a, b, i) \in ChangedAt(n, a, b)
                              /\ Place(n, a, b, i) \in 1..(n + 1)
                              /\ Place(n, a, b, i) = Ascending(ChangedAt(n, a, b))[i]
                              /\ Place(n, a, b, i - 1) \in 0..n
                              /\ Place(n, a, b, i - 1) < Place(n, a, b, i)
           /\ \A k \in ChangedAt(n, a, b) : N # 0 /\ k <= Place(n, a, b, N)
PROOF
  <1> DEFINE S == ChangedAt(n, a, b)
             at == Ascending(S)
             N == Cardinality(S)
             p(i) == Place(n, a, b, i)
  <1>1. S \in SUBSET (1..(n + 1))
    BY DEF ChangedAt
  <1>2. /\ N \in Nat /\ at \in [1..N -> S]
        /\ \A x \in S : \E j \in 1..N : at[j] = x
        /\ \A x, y \in 1..N : x < y => at[x] < at[y]
    <2>1. n + 1 \in Nat
      OBVIOUS
    <2> HIDE DEF S
    <2> QED BY <1>1, <2>1, AscendingOrders
  <1>3. p(0) = 0 /\ \A i \in 1..N : p(i) = at[i]
    <2>1. \A i \in 1..N : i # 0
      BY <1>2
    <2> QED BY <2>1 DEF Place
  <1> HIDE DEF S, at, N, p
  <1>4. \A i \in 1..N : p(i) \in S /\ p(i) \in 1..(n + 1)
    BY <1>1, <1>2, <1>3
  <1>5. ASSUME NEW i \in 1..N PROVE p(i - 1) \in 0..n /\ p(i - 1) < p(i)
    <2>1. CASE i = 1
      <3>1. p(i - 1) = 0
        BY <1>3, <2>1
      <3> QED BY <1>4, <3>1
    <2>2. CASE i # 1
      <3>1. PICK j \in 1..N : j = i - 1 /\ j < i
        BY <1>2, <2>2
      <3>2. p(j) < p(i)
        BY <1>2, <1>3, <3>1
      <3>3. p(j) \in 1..(n + 1) /\ p(i) \in 1..(n + 1)
        BY <1>4
      <3> QED BY <3>1, <3>2, <3>3
    <2> QED BY <2>1, <2>2
  <1>6. ASSUME NEW k \in S PROVE N # 0 /\ k <= p(N)
    <2>1. PICK j \in 1..N : at[j] = k
      BY <1>2
    <2>2. N # 0 /\ N \in 1..N /\ (j = N \/ j < N)
      BY <1>2
    <2>3. j < N => at[j] < at[N]
      BY <1>2, <2>2
    <2>4. k = p(j) /\ p(j) \in Nat /\ p(N) \in Nat
      BY <1>3, <1>4, <2>1, <2>2
    <2>5. p(j) = at[j] /\ p(N) = at[N]
      BY <1>3, <2>2
    <2> QED BY <2>2, <2>3, <2>4, <2>5
  <1> QED BY <1>2, <1>3, <1>4, <1>5, <1>6 DEF S, at, N, p

(* The changes of an alignment turn old into new.                            *)
LEMMA Reproduced ==
    ASSUME NEW L, NEW old \in Seq(L), NEW new \in Seq(L), NEW n \in Nat, NEW a, NEW b,
           IsAligned(old, new, n, a, b), NEW list, IsChangeList(new, n, a, b, list)
    PROVE  Patched(old, list) = new
PROOF
  <1> DEFINE S == ChangedAt(n, a, b)
             N == Cardinality(S)
             p(i) == Place(n, a, b, i)
             done(i) == SubSeq(new, 1, Past(b, p(i)))
  <1>1. /\ N \in Nat /\ p(0) = 0
        /\ \A i \in 1..N : /\ p(i) \in S /\ p(i) \in 1..(n + 1) /\ p(i) = Ascending(S)[i]
                           /\ p(i - 1) \in 0..n /\ p(i - 1) < p(i)
        /\ \A k \in S : N # 0 /\ k <= p(N)
    BY Places
  <1>2. /\ list \in Seq(Changes(L)) /\ Len(list) = N
        /\ \A i \in 1..N : /\ list[i].at = a[p(i) - 1] /\ End(list[i]) = Past(a, p(i))
                           /\ list[i].new = SubSeq(new, b[p(i) - 1] + 1, Past(b, p(i)))
    <2>1. /\ list \in Seq(Changes(L)) /\ Len(list) = N
          /\ \A i \in 1..N : IsChange(new, a, b, Ascending(S)[i], list[i])
      BY ChangeListed
    <2> HIDE DEF S, N, p
    <2> QED BY <1>1, <2>1 DEF IsChange
  <1>3. Len(old) \in Nat /\ Len(new) \in Nat
    BY LenProperties
  <1>4. /\ \A k \in 0..n : a[k] \in 0..Len(old) /\ b[k] \in 0..Len(new)
        /\ \A k \in 1..(n + 1) : a[k] \in 1..(Len(old) + 1) /\ b[k] \in 1..(Len(new) + 1)
        /\ \A k \in 0..(n + 1) : Past(a, k) \in 0..Len(old) /\ Past(b, k) \in 0..Len(new)
    BY AlignedIn
  <1>5. a[n + 1] = Len(old) + 1 /\ b[n + 1] = Len(new) + 1
        /\ \A k \in 1..(n + 1) : a[k - 1] < a[k] /\ b[k - 1] < b[k]
    BY DEF IsAligned
  <1>6. ASSUME NEW i \in 0..N, NEW e \in p(i)..n, i = N \/ e < p(i + 1), p(i) \in 0..n
        PROVE  /\ Past(b, p(i)) <= b[e]
               /\ SameLines(old, Past(a, p(i)), a[e], new, Past(b, p(i)), b[e])
    <2>1. InStep(a, b, p(i), e)
      BY <1>6, BetweenChanges
    <2>2. PICK s \in 0..n : \E f \in s..n : s = p(i) /\ f = e
      BY <1>6
    <2>4. PICK f \in s..n : s = p(i) /\ f = e
      BY <2>2
    <2> HIDE DEF p
    <2>3. Past(b, s) <= b[f] /\ SameLines(old, Past(a, s), a[f], new, Past(b, s), b[f])
      BY <2>1, <2>4, EqualStretch
    <2> QED BY <2>3, <2>4
  <1>7. \A k \in DOMAIN list : list[k].at <= Len(old)
    <2> HIDE DEF S, N, p
    <2>1. DOMAIN list = 1..N
      BY <1>2, LenProperties
    <2>2. ASSUME NEW k \in 1..N PROVE list[k].at <= Len(old)
      <3>1. PICK j \in 0..n : j = p(k) - 1
        BY <1>1
      <3>2. list[k].at = a[j] /\ a[j] \in 0..Len(old)
        BY <1>2, <1>4, <3>1
      <3> QED BY <1>3, <3>2
    <2> QED BY <2>1, <2>2
  <1>8. PICK text \in [0..N -> Seq(L)] :
              /\ IsWritten(old, list, text)
              /\ Patched(old, list) = text[N] \o SubSeq(old, Copied(list, N + 1) + 1, Len(old))
    <2>1. \E text \in [0..Len(list) -> Seq(L)] :
              /\ IsWritten(old, list, text)
              /\ Patched(old, list) = text[Len(list)] \o
                    SubSeq(old, Copied(list, Len(list) + 1) + 1, Len(old))
      BY <1>2, <1>7, PatchedInSteps
    <2> HIDE DEF N
    <2> QED BY <1>2, <2>1
  <1> HIDE DEF S, N, p
  <1>9. ASSUME NEW i \in 0..N PROVE Copied(list, i + 1) = Past(a, p(i)) /\ p(i) \in 0..(n + 1)
    <2>1. CASE i = 0
      BY <1>1, <2>1 DEF Copied, Past
    <2>2. CASE i # 0
      <3>1. i \in 1..N /\ i + 1 # 1 /\ (i + 1) - 1 = i
        BY <1>1, <2>2
      <3> QED BY <1>1, <1>2, <3>1 DEF Copied
    <2> QED BY <2>1, <2>2
  <1>10. ASSUME NEW i \in 1..N, text[i - 1] = done(i - 1) PROVE text[i] = done(i)
    <2>1. PICK s \in 0..n, k \in 1..(n + 1), e \in 0..n :
              s = p(i - 1) /\ k = p(i) /\ e = k - 1 /\ s <= e
      <3>1. PICK s \in 0..n, k \in 1..(n + 1) : s = p(i - 1) /\ k = p(i) /\ s < k
        BY <1>1
      <3>2. k - 1 \in 0..n /\ s <= k - 1
        BY <3>1
      <3> QED BY <3>1, <3>2
    <2>2. i - 1 \in 0..N /\ (i - 1) + 1 = i /\ e < k
      BY <1>1, <2>1
    <2>3. /\ Past(b, s) <= b[e]
          /\ SubSeq(old, Past(a, s) + 1, a[e]) = SubSeq(new, Past(b, s) + 1, b[e])
      <3>1. PICK j \in 0..N : j = i - 1 /\ j + 1 = i
        BY <2>2
      <3>2. e \in p(j)..n /\ p(j) \in 0..n /\ e < p(j + 1)
        BY <2>1, <2>2, <3>1
      <3> QED BY <1>6, <2>1, <3>1, <3>2 DEF SameLines
    <2>4. Copied(list, i) = Past(a, s)
      BY <1>9, <2>1, <2>2
    <2>5. list[i].at = a[e] /\ list[i].new = SubSeq(new, b[e] + 1, Past(b, k))
      BY <1>2, <2>1
    <2>6. text[i] = text[i - 1] \o (SubSeq(new, Past(b, s) + 1, b[e]) \o SubSeq(new, b[e] + 1, Past(b, k)))
      <3>1. text[i] = text[i - 1] \o Taken(old, Copied(list, i), list[i])
        BY <1>2, <1>8 DEF IsWritten
      <3> QED BY <2>3, <2>4, <2>5, <3>1 DEF Taken
    <2>7. PICK x \in 0..Len(new), y \in 0..Len(new), z \in 0..Len(new) :
              x = Past(b, s) /\ y = b[e] /\ z = Past(b, k)
      <3>1. s \in 0..(n + 1) /\ k \in 0..(n + 1)
        OBVIOUS
      <3> QED BY <1>4, <3>1
    <2>8. x <= y /\ y <= z
      <3>1. b[k - 1] < b[k] /\ b[k] \in Nat /\ k # 0
        <4>1. k # 0
          OBVIOUS
        <4>2. b[k - 1] < b[k]
          BY <1>5
        <4>3. b[k] \in 1..(Len(new) + 1)
          BY <1>4
        <4> QED BY <4>1, <4>2, <4>3
      <3>2. z = b[k] - 1 /\ y = b[k - 1]
        BY <2>1, <2>7, <3>1 DEF Past
      <3> QED BY <2>3, <2>7, <3>1, <3>2
    <2>9. SubSeq(new, x + 1, y) \o SubSeq(new, y + 1, z) = SubSeq(new, x + 1, z)
      BY <1>3, <2>8, ConcatAdjacentSubSeq
    <2>10. SubSeq(new, 1, x) \o SubSeq(new, x + 1, z) = SubSeq(new, 1, z)
      BY <1>3, <2>8, ConcatAdjacentSubSeq
    <2> QED BY <1>10, <2>1, <2>6, <2>7, <2>9, <2>10
  <1>11. text[N] = done(N)
    <2> DEFINE T == {i \in 0..N : text[i] = done(i)}
    <2>1. 0 \in T
      <3>1. text[0] = << >> /\ done(0) = SubSeq(new, 1, 0)
        BY <1>1, <1>8 DEF IsWritten, Past
      <3>2. SubSeq(new, 1, 0) = << >>
        BY SubSeqEmpty
      <3> HIDE DEF done
      <3>3. 0 \in 0..N
        BY <1>1
      <3> QED BY <3>1, <3>2, <3>3
    <2>2. ASSUME NEW i \in 1..N, i - 1 \in T PROVE i \in T
      <3>1. i \in 0..N
        BY <1>1
      <3> HIDE DEF done
      <3> QED BY <1>10, <2>2, <3>1
    <2>3. \A i \in 0..N : i \in T
      <3> HIDE DEF T
      <3> QED BY <1>1, <2>1, <2>2, UpTo
    <2> HIDE DEF done
    <2> QED BY <1>1, <2>3
  <1>12. PICK s \in 0..(n + 1) : s = p(N)
    BY <1>1, <1>9
  <1>13. PICK x \in 0..Len(old), y \in 0..Len(new) : x = Past(a, s) /\ y = Past(b, s)
    BY <1>4
  <1>14. Patched(old, list) = SubSeq(new, 1, y) \o SubSeq(old, x + 1, Len(old))
    <2>1. Copied(list, N + 1) = x
      BY <1>1, <1>9, <1>12, <1>13
    <2> QED BY <1>8, <1>11, <1>12, <1>13, <2>1
  <1>15. SubSeq(old, x + 1, Len(old)) = SubSeq(new, y + 1, Len(new))
    <2>1. CASE s = n + 1
      <3>1. x = Len(old) /\ y = Len(new)
        <4>1. n + 1 # 0
          OBVIOUS
        <4> QED BY <1>3, <1>5, <1>13, <2>1, <4>1 DEF Past
      <3> QED BY <1>3, <3>1, SubSeqEmpty
    <2>2. CASE s # n + 1
      <3>1. s \in 0..n /\ n \in s..n
        BY <2>2
      <3>2. SubSeq(old, x + 1, a[n]) = SubSeq(new, y + 1, b[n])
        <4>1. N \in 0..N
          BY <1>1
        <4> QED BY <1>6, <1>12, <1>13, <3>1, <4>1 DEF SameLines
      <3>3. PICK k \in 1..(n + 1) : k = n + 1 /\ k - 1 = n
        OBVIOUS
      <3>4. k \notin S
        BY <1>1, <1>12, <3>1, <3>3
      <3>5. ~ (a[k] - a[k - 1] - 1 > 0 \/ b[k] - b[k - 1] - 1 > 0)
        BY <3>4 DEF S, ChangedAt
      <3>6. a[n] = Len(old) /\ b[n] = Len(new)
        <4>1. PICK u \in 0..Len(old), v \in 0..Len(new) : u = a[n] /\ v = b[n]
          <5>1. n \in 0..n
            OBVIOUS
          <5> QED BY <1>4, <5>1
        <4>2. a[k - 1] = u /\ b[k - 1] = v /\ a[k] = Len(old) + 1 /\ b[k] = Len(new) + 1
          BY <1>5, <3>3, <4>1
        <4>3. ~ ((Len(old) + 1) - u - 1 > 0) /\ ~ ((Len(new) + 1) - v - 1 > 0)
          BY <3>5, <4>2
        <4> QED BY <1>3, <4>1, <4>3
      <3> QED BY <3>2, <3>6
    <2> QED BY <2>1, <2>2
  <1>16. SubSeq(new, 1, y) \o SubSeq(new, y + 1, Len(new)) = SubSeq(new, 1, Len(new))
    <2>1. 1 \in 1..(Len(new) + 1) /\ y \in (1 - 1)..Len(new) /\ Len(new) \in y..Len(new)
      BY <1>3
    <2> QED BY <2>1, ConcatAdjacentSubSeq
  <1>17. SubSeq(new, 1, Len(new)) = new
    BY SubSeqFull
  <1> QED BY <1>14, <1>15, <1>16, <1>17

(* The places of an alignment m of two texts, as IsAligned counts them        *)
Matched(S, end, k) == IF k = 0 THEN 0 ELSE IF k > Cardinality(S) THEN end + 1 ELSE Ascending(S)[k]
Aligned(S, end) == [k \in 0..(Cardinality(S) + 1) |-> Matched(S, end, k)]

(* The matched lines, with a place before and after the text, ascend.      *)
LEMMA AlignedAscends ==
    ASSUME NEW end \in Nat, NEW S \in SUBSET (1..end)
    PROVE  LET N == Cardinality(S)
               a == Aligned(S, end)
           IN  /\ N \in Nat /\ a \in [0..(N + 1) -> Nat]
               /\ a[0] = 0 /\ a[N + 1] = end + 1
               /\ \A k \in 1..(N + 1) : a[k - 1] < a[k]
               /\ \A k \in 1..N : a[k] = Ascending(S)[k] /\ a[k] \in 1..end
PROOF
  <1> DEFINE N == Cardinality(S)
             a == Aligned(S, end)
             s == Ascending(S)
  <1>1. /\ N \in Nat /\ s \in [1..N -> S]
        /\ \A i, j \in 1..N : i < j => s[i] < s[j]
    BY AscendingOrders
  <1> HIDE DEF N, s
  <1>2. ASSUME NEW k \in 0..(N + 1)
        PROVE  a[k] = IF k = 0 THEN 0 ELSE IF k > N THEN end + 1 ELSE s[k]
    BY DEF Aligned, Matched, N, s
  <1>3. a[0] = 0 /\ a[N + 1] = end + 1
    <2>1. 0 \in 0..(N + 1) /\ N + 1 \in 0..(N + 1) /\ N + 1 > N /\ N + 1 # 0
      BY <1>1
    <2> QED BY <1>2, <2>1
  <1>4. \A k \in 1..N : a[k] = s[k] /\ a[k] \in 1..end
    <2> SUFFICES ASSUME NEW k \in 1..N PROVE a[k] = s[k] /\ a[k] \in 1..end
      OBVIOUS
    <2>1. k \in 0..(N + 1) /\ k # 0 /\ ~ (k > N)
      BY <1>1
    <2>2. s[k] \in S
      BY <1>1
    <2> QED BY <1>2, <2>1, <2>2
  <1>5. a \in [0..(N + 1) -> Nat]
    <2>1. ASSUME NEW k \in 0..(N + 1) PROVE a[k] \in Nat
      <3>1. k = 0 \/ k = N + 1 \/ k \in 1..N
        BY <1>1
      <3>2. k \in 1..N => a[k] \in Nat
        <4>1. k \in 1..N => a[k] \in 1..end
          BY <1>4
        <4> QED BY <4>1
      <3> QED BY <1>3, <3>1, <3>2
    <2>2. a = [k \in 0..(N + 1) |-> a[k]]
      BY DEF Aligned, N
    <2> HIDE DEF a
    <2> QED BY <2>1, <2>2
  <1> HIDE DEF a
  <1>6. ASSUME NEW k \in 1..(N + 1) PROVE a[k - 1] < a[k]
    <2>1. CASE k = N + 1
      <3>1. k - 1 = 0 \/ k - 1 \in 1..N
        BY <1>1, <2>1
      <3>2. a[k] = end + 1
        BY <1>3, <2>1
      <3>3. k - 1 = 0 => a[k - 1] = 0
        BY <1>3
      <3>4. k - 1 \in 1..N => a[k - 1] \in 1..end
        BY <1>4
      <3> QED BY <3>1, <3>2, <3>3, <3>4
    <2>2. CASE k # N + 1
      <3>1. k \in 1..N
        BY <1>1, <2>2
      <3>2. a[k] \in 1..end /\ a[k] = s[k]
        BY <1>4, <3>1
      <3>3. k = 1 \/ k - 1 \in 1..N
        BY <1>1, <3>1
      <3>4. k = 1 => a[k - 1] = 0
        BY <1>3
      <3>5. k - 1 \in 1..N => a[k - 1] < a[k]
        <4> SUFFICES ASSUME NEW j \in 1..N, j = k - 1 PROVE a[j] < a[k]
          OBVIOUS
        <4>1. j < k /\ a[j] = s[j]
          BY <1>4, <3>1
        <4> QED BY <1>1, <3>1, <3>2, <4>1
      <3> QED BY <3>2, <3>3, <3>4, <3>5
    <2> QED BY <2>1, <2>2
  <1> QED BY <1>1, <1>3, <1>4, <1>5, <1>6 DEF N, a, s

(* The changes LineMerge takes of a match are those of an alignment.       *)
LEMMA ChangesAligned ==
    ASSUME NEW L, NEW old \in TextsOver(L), NEW new \in TextsOver(L), NEW m \in Common(old, new)
    PROVE  LET n == Cardinality(m[1])
               a == Aligned(m[1], Len(old.lines))
               b == Aligned(m[2], Len(new.lines))
           IN  /\ n \in Nat /\ IsAligned(old.lines, new.lines, n, a, b)
               /\ \A k \in 1..n : Token(old, a[k]) = Token(new, b[k])
               /\ IsChangeList(new.lines, n, a, b, ChangesOf(old, new, m))
PROOF
  <1> DEFINE n == Cardinality(m[1])
             x == Len(old.lines)
             y == Len(new.lines)
             a == Aligned(m[1], x)
             b == Aligned(m[2], y)
             change(k) == ChangeAt(old, new, m, k)
             K == {k \in 1..(n + 1) : change(k).drop > 0 \/ change(k).new # << >>}
  <1>1. old.lines \in Seq(L) /\ new.lines \in Seq(L) /\ x \in Nat /\ y \in Nat
    BY LenProperties DEF TextsOver
  <1>2. /\ m[1] \in SUBSET (1..x) /\ m[2] \in SUBSET (1..y)
        /\ Cardinality(m[2]) = n
        /\ \A k \in 1..n : Token(old, Ascending(m[1])[k]) = Token(new, Ascending(m[2])[k])
    BY <1>1, LenProperties DEF Common
  <1>3. /\ n \in Nat /\ a \in [0..(n + 1) -> Nat] /\ a[0] = 0 /\ a[n + 1] = x + 1
        /\ \A k \in 1..(n + 1) : a[k - 1] < a[k]
        /\ \A k \in 1..n : a[k] = Ascending(m[1])[k] /\ a[k] \in 1..x
    <2> HIDE DEF x
    <2> QED BY <1>1, <1>2, AlignedAscends
  <1>4. /\ b \in [0..(n + 1) -> Nat] /\ b[0] = 0 /\ b[n + 1] = y + 1
        /\ \A k \in 1..(n + 1) : b[k - 1] < b[k]
        /\ \A k \in 1..n : b[k] = Ascending(m[2])[k] /\ b[k] \in 1..y
    <2> DEFINE z == Cardinality(m[2])
    <2>1. /\ b \in [0..(z + 1) -> Nat] /\ b[0] = 0 /\ b[z + 1] = y + 1
          /\ \A k \in 1..(z + 1) : b[k - 1] < b[k]
          /\ \A k \in 1..z : b[k] = Ascending(m[2])[k] /\ b[k] \in 1..y
      <3> HIDE DEF y
      <3> QED BY <1>1, <1>2, AlignedAscends
    <2>2. z = n
      BY <1>2
    <2> HIDE DEF z, b, n, y
    <2> QED BY <2>1, <2>2
  <1>5. \A k \in 1..n : Token(old, a[k]) = Token(new, b[k])
    <2> HIDE DEF a, b, n
    <2> QED BY <1>2, <1>3, <1>4
  <1>6. IsAligned(old.lines, new.lines, n, a, b)
    <2>1. \A k \in 1..n : old.lines[a[k]] = new.lines[b[k]]
      <3> HIDE DEF a, b, n
      <3> SUFFICES ASSUME NEW k \in 1..n PROVE old.lines[a[k]] = new.lines[b[k]]
        OBVIOUS
      <3>1. Token(old, a[k]) = Token(new, b[k])
        BY <1>5
      <3> QED BY <3>1, Zenon DEF Token
    <2> HIDE DEF a, b, n
    <2> QED BY <1>3, <1>4, <2>1 DEF IsAligned, x, y
  <1>7. ASSUME NEW k \in 1..(n + 1)
        PROVE  change(k) = [at |-> a[k - 1], drop |-> a[k] - a[k - 1] - 1,
                            new |-> SubSeq(new.lines, b[k - 1] + 1, b[k] - 1)]
    <2>1. k - 1 \in 0..(n + 1) /\ k \in 0..(n + 1) /\ ~ (k - 1 > n)
      BY <1>3
    <2>2. /\ a[k - 1] = (IF k - 1 = 0 THEN 0 ELSE Ascending(m[1])[k - 1])
          /\ a[k] = (IF k = 0 THEN 0 ELSE IF k > n THEN x + 1 ELSE Ascending(m[1])[k])
      BY <2>1 DEF Aligned, Matched
    <2>3. /\ b[k - 1] = (IF k - 1 = 0 THEN 0 ELSE Ascending(m[2])[k - 1])
          /\ b[k] = (IF k = 0 THEN 0 ELSE IF k > n THEN y + 1 ELSE Ascending(m[2])[k])
      BY <1>2, <2>1 DEF Aligned, Matched
    <2> HIDE DEF a, b, n, x, y
    <2> QED BY <1>2, <2>1, <2>2, <2>3 DEF ChangeAt, n, x, y
  <1>8. K = ChangedAt(n, a, b)
    <2> SUFFICES ASSUME NEW k \in 1..(n + 1)
                 PROVE  (change(k).drop > 0 \/ change(k).new # << >>)
                        <=> (a[k] - a[k - 1] - 1 > 0 \/ b[k] - b[k - 1] - 1 > 0)
      BY DEF ChangedAt
    <2> HIDE DEF a, b, n, change
    <2>1. PICK q : q = SubSeq(new.lines, b[k - 1] + 1, b[k] - 1)
      OBVIOUS
    <2>2. PICK u, v : u = a[k - 1] /\ v = a[k] - a[k - 1] - 1
      OBVIOUS
    <2>3. change(k) = [at |-> u, drop |-> v, new |-> q]
      BY <1>7, <2>1, <2>2
    <2>4. change(k).drop = v /\ change(k).new = q
      BY <2>3
    <2>5. q # << >> <=> b[k] - b[k - 1] - 1 > 0
      <3>1. PICK i \in Nat, j \in Nat : i = b[k - 1] /\ j = b[k] /\ i < j /\ j <= y + 1
        <4>1. k - 1 \in 0..(n + 1) /\ k \in 0..(n + 1) /\ (k = n + 1 \/ k \in 1..n)
          BY <1>3
        <4>2. k \in 1..n => b[k] \in 1..y
          BY <1>4
        <4>3. b[k] <= y + 1
          BY <1>1, <1>4, <4>1, <4>2
        <4> QED BY <1>4, <4>1, <4>3
      <3>2. \A z \in (i + 1)..(j - 1) : new.lines[z] \in L
        <4>1. \A z \in 1..y : new.lines[z] \in L
          BY <1>1, LenProperties
        <4> QED BY <1>1, <3>1, <4>1
      <3>3. Len(q) = (IF i + 1 <= j - 1 THEN (j - 1) - (i + 1) + 1 ELSE 0) /\ q \in Seq(L)
        <4>1. i + 1 \in Int /\ j - 1 \in Int
          OBVIOUS
        <4> QED BY <2>1, <3>1, <3>2, <4>1, SubSeqProperties
      <3>4. q = << >> <=> Len(q) = 0
        BY <3>3, EmptySeq
      <3> QED BY <3>1, <3>3, <3>4
    <2> QED BY <2>2, <2>4, <2>5
  <1>9. IsChangeList(new.lines, n, a, b, ChangesOf(old, new, m))
    <2> DEFINE S == ChangedAt(n, a, b)
               N == Cardinality(S)
               at == Ascending(S)
    <2>1. ChangesOf(old, new, m) = [i \in DOMAIN Ascending(K) |-> change(Ascending(K)[i])]
      BY DEF ChangesOf
    <2>2. S \in SUBSET (1..(n + 1)) /\ n + 1 \in Nat
      BY <1>3 DEF ChangedAt
    <2>3. at \in [1..N -> S]
      <3> HIDE DEF S
      <3> QED BY <2>2, AscendingOrders
    <2> HIDE DEF K, change, S, N, at
    <2>4. ChangesOf(old, new, m) = [i \in 1..N |-> change(at[i])]
      BY <1>8, <2>1, <2>3 DEF S, at
    <2> HIDE DEF a, b, n
    <2>5. \A i \in 1..N : change(at[i]) = [at |-> a[at[i] - 1], drop |-> a[at[i]] - a[at[i] - 1] - 1,
                                  new |-> SubSeq(new.lines, b[at[i] - 1] + 1, b[at[i]] - 1)]
      BY <1>7, <2>2, <2>3
    <2>6. ChangesOf(old, new, m) =
             [i \in 1..N |-> [at |-> a[at[i] - 1], drop |-> a[at[i]] - a[at[i] - 1] - 1,
                              new |-> SubSeq(new.lines, b[at[i] - 1] + 1, b[at[i]] - 1)]]
      BY <2>4, <2>5, Zenon
    <2> QED BY <2>6 DEF IsChangeList, S, N, at
  <1> HIDE DEF n, a, b
  <1> QED BY <1>3, <1>5, <1>6, <1>9 DEF n, a, b, x, y

(* The diffs over the lines L: the hunk reaches as far as its changes.          *)
Diffs(L) ==
    {d \in [changes : Seq(Changes(L)), reach : Nat] :
        \A k \in DOMAIN d.changes : d.changes[k].at <= d.reach}

(* No change leaves the text as it is.                                       *)
LEMMA NothingPatched ==
    ASSUME NEW A, NEW lines \in Seq(A)
    PROVE  Patched(lines, << >>) = lines
PROOF
  <1>1. PICK none \in Seq(Changes(A)) : none = << >> /\ Len(none) = 0 /\ DOMAIN none = {}
    <2>1. << >> \in Seq(Changes(A)) /\ Len(<< >>) = 0
      BY EmptySeq
    <2>2. PICK none \in Seq(Changes(A)) : none = << >> /\ Len(none) = 0
      BY <2>1, Zenon
    <2>3. DOMAIN none = 1..0 /\ 1..0 = {}
      BY <2>2, LenProperties
    <2>4. DOMAIN none = {}
      BY <2>3
    <2> QED BY <2>2, <2>4, Zenon
  <1>2. \A k \in DOMAIN none : none[k].at <= Len(lines)
    BY <1>1
  <1>3. PICK text \in [0..Len(none) -> Seq(A)] :
              /\ IsWritten(lines, none, text)
              /\ Patched(lines, none) = text[Len(none)] \o
                    SubSeq(lines, Copied(none, Len(none) + 1) + 1, Len(lines))
    BY <1>2, PatchedInSteps
  <1>4. Copied(none, Len(none) + 1) = 0
    BY <1>1 DEF Copied
  <1>5. text[Len(none)] = << >>
    BY <1>1, <1>3 DEF IsWritten
  <1>6. Patched(lines, none) = << >> \o SubSeq(lines, 0 + 1, Len(lines))
    BY <1>3, <1>4, <1>5, Zenon
  <1>7. SubSeq(lines, 0 + 1, Len(lines)) = lines
    BY SubSeqFull
  <1> QED BY <1>1, <1>6, <1>7, ConcatEmptySeq

(* Texts whose alignment has nothing to change are the same.                 *)
LEMMA NothingToChange ==
    ASSUME NEW L, NEW old \in TextsOver(L), NEW new \in TextsOver(L), NEW m \in Common(old, new),
           ChangesOf(old, new, m) = << >>
    PROVE  old = new
PROOF
  <1> DEFINE n == Cardinality(m[1])
             x == Len(old.lines)
             y == Len(new.lines)
             a == Aligned(m[1], x)
             b == Aligned(m[2], y)
             list == ChangesOf(old, new, m)
  <1>1. /\ n \in Nat /\ IsAligned(old.lines, new.lines, n, a, b)
        /\ \A k \in 1..n : Token(old, a[k]) = Token(new, b[k])
        /\ IsChangeList(new.lines, n, a, b, list)
    BY ChangesAligned
  <1>2. old.lines \in Seq(L) /\ new.lines \in Seq(L) /\ x \in Nat /\ y \in Nat
    BY LenProperties DEF TextsOver
  <1> HIDE DEF n, a, b, list
  <1>3. Patched(old.lines, list) = new.lines
    BY <1>1, <1>2, Reproduced
  <1>4. Patched(old.lines, << >>) = old.lines
    BY <1>2, NothingPatched
  <1>5. old.lines = new.lines
    BY <1>3, <1>4 DEF list
  <1>6. Cardinality(ChangedAt(n, a, b)) = 0
    <2>1. Len(list) = Cardinality(ChangedAt(n, a, b))
      BY <1>1, <1>2, ChangeListed
    <2> QED BY <2>1, EmptySeq DEF list
  <1>7. \A k \in ChangedAt(n, a, b) : FALSE
    BY <1>1, <1>6, Places
  <1>8. old.ends = new.ends
    <2>1. n + 1 \in 1..(n + 1) /\ (n + 1) - 1 = n
      BY <1>1
    <2>2. ~ (a[n + 1] - a[n] - 1 > 0 \/ b[n + 1] - b[n] - 1 > 0)
      BY <1>7, <2>1 DEF ChangedAt
    <2>3. a[n + 1] = x + 1 /\ b[n + 1] = y + 1 /\ a[n] < a[n + 1] /\ b[n] < b[n + 1] /\ a[0] = 0
      BY <1>1, <2>1 DEF IsAligned
    <2>4. a[n] \in 0..x /\ b[n] \in 0..y
      <3>1. n \in 0..n
        BY <1>1
      <3> QED BY <1>1, <1>2, <3>1, AlignedIn
    <2>5. PICK i \in 0..x, j \in 0..y : i = a[n] /\ j = b[n]
      BY <2>4
    <2>6. i = x /\ j = y
      <3>1. ~ ((x + 1) - i - 1 > 0 \/ (y + 1) - j - 1 > 0)
        BY <2>2, <2>3, <2>5
      <3> HIDE DEF x, y
      <3> QED BY <1>2, <3>1
    <2>7. CASE n = 0
      <3>1. x = 0
        BY <2>3, <2>5, <2>6, <2>7
      <3>2. old.lines = << >>
        BY <1>2, <3>1, EmptySeq
      <3>3. old.ends = FALSE /\ new.ends = FALSE
        BY <1>5, <3>2 DEF TextsOver, IsText
      <3> QED BY <3>3
    <2>8. CASE n # 0
      <3>1. n \in 1..n
        BY <1>1, <2>8
      <3>2. Token(old, x) = Token(new, y)
        BY <1>1, <2>5, <2>6, <3>1
      <3>3. (x < x \/ old.ends) = (y < y \/ new.ends)
        BY <3>2, Zenon DEF Token, x, y
      <3>4. ~ (x < x) /\ ~ (y < y) /\ old.ends \in BOOLEAN /\ new.ends \in BOOLEAN
        BY <1>2 DEF TextsOver
      <3>5. PICK u, v : u = (x < x) /\ v = (y < y)
        OBVIOUS
      <3>6. (u \/ old.ends) = (v \/ new.ends) /\ ~ u /\ ~ v
        BY <3>3, <3>4, <3>5
      <3>7. PICK p \in BOOLEAN, q \in BOOLEAN : p = old.ends /\ q = new.ends
        BY <3>4
      <3>8. (u \/ p) = (v \/ q)
        BY <3>6, <3>7
      <3>9. p = q
        BY <3>6, <3>8
      <3> QED BY <3>7, <3>9
    <2> QED BY <2>7, <2>8
  <1>9. old = [lines |-> old.lines, ends |-> old.ends] /\ new = [lines |-> new.lines, ends |-> new.ends]
    <2>1. old \in [lines : Seq(L), ends : BOOLEAN] /\ new \in [lines : Seq(L), ends : BOOLEAN]
      BY DEF TextsOver
    <2> QED BY <2>1
  <1> QED BY <1>5, <1>8, <1>9

(* The changes of an alignment start in ascending order.                     *)
LEMMA ChangesAscend ==
    ASSUME NEW L, NEW old \in Seq(L), NEW new \in Seq(L), NEW n \in Nat, NEW a, NEW b,
           IsAligned(old, new, n, a, b), NEW list, IsChangeList(new, n, a, b, list)
    PROVE  /\ list \in Seq(Changes(L))
           /\ \A i \in DOMAIN list : list[i].at <= Len(old) /\ End(list[i]) <= Len(old)
           /\ \A i \in DOMAIN list : list[i].at <= list[Len(list)].at
PROOF
  <1> DEFINE S == ChangedAt(n, a, b)
             N == Cardinality(S)
             at == Ascending(S)
  <1>1. S \in SUBSET (1..(n + 1))
    BY DEF ChangedAt
  <1>2. /\ N \in Nat /\ at \in [1..N -> S]
        /\ \A i, j \in 1..N : i < j => at[i] < at[j]
    <2>1. n + 1 \in Nat
      OBVIOUS
    <2> HIDE DEF S
    <2> QED BY <1>1, <2>1, AscendingOrders
  <1>3. /\ list \in Seq(Changes(L)) /\ Len(list) = N
        /\ \A i \in 1..N : list[i].at = a[at[i] - 1] /\ End(list[i]) = Past(a, at[i])
    BY ChangeListed DEF IsChange
  <1>4. /\ \A k \in 0..n : a[k] \in 0..Len(old)
        /\ \A k \in 0..(n + 1) : Past(a, k) \in 0..Len(old)
        /\ \A j \in 0..(n + 1) : \A i \in 0..j : a[i] <= a[j]
    BY AlignedIn
  <1>5. Len(old) \in Nat /\ DOMAIN list = 1..N
    BY <1>3, LenProperties
  <1> HIDE DEF S, N, at
  <1>6. ASSUME NEW i \in 1..N PROVE list[i].at <= Len(old) /\ End(list[i]) <= Len(old)
    <2>1. PICK k \in 1..(n + 1) : k = at[i]
      BY <1>1, <1>2
    <2>2. k - 1 \in 0..n /\ k \in 0..(n + 1)
      OBVIOUS
    <2>3. a[k - 1] \in 0..Len(old) /\ Past(a, k) \in 0..Len(old)
      BY <1>4, <2>2
    <2> QED BY <1>3, <1>5, <2>1, <2>3
  <1>7. ASSUME NEW i \in 1..N PROVE list[i].at <= list[N].at
    <2>1. N \in 1..N /\ (i = N \/ i < N)
      BY <1>2
    <2>2. PICK k \in 1..(n + 1), l \in 1..(n + 1) : k = at[i] /\ l = at[N]
      BY <1>1, <1>2, <2>1
    <2>3. k <= l
      <3>1. i < N => at[i] < at[N]
        BY <1>2, <2>1
      <3> QED BY <2>1, <2>2, <3>1
    <2>4. l - 1 \in 0..(n + 1) /\ k - 1 \in 0..(l - 1)
      BY <2>3
    <2>5. a[k - 1] <= a[l - 1]
      BY <1>4, <2>4
    <2> QED BY <1>3, <2>1, <2>2, <2>5
  <1> QED BY <1>3, <1>5, <1>6, <1>7

(* Any diff of two texts fits the old one, and gives the lines of the new.   *)
THEOREM DiffReproduces ==
    ASSUME NEW L, NEW old \in TextsOver(L), NEW new \in TextsOver(L), NEW d \in DiffsOf(old, new)
    PROVE  /\ d \in Diffs(L) /\ Applicable(old.lines, d)
           /\ ApplyDiff(old.lines, d) = new.lines
PROOF
  <1>1. old.lines \in Seq(L) /\ new.lines \in Seq(L) /\ Len(old.lines) \in Nat
    BY LenProperties DEF TextsOver
  <1>2. CASE old = new
    <2>1. d.changes = << >> /\ d.reach = 0 /\ d = [changes |-> << >>, reach |-> 0]
      BY <1>2 DEF DiffsOf
    <2>2. << >> \in Seq(Changes(L)) /\ Len(<< >>) = 0 /\ DOMAIN << >> = {}
      BY EmptySeq
    <2>7. Patched(old.lines, << >>) = old.lines
      BY <1>1, NothingPatched
    <2>8. d \in Diffs(L)
      BY <2>1, <2>2 DEF Diffs
    <2> QED BY <1>1, <1>2, <2>1, <2>7, <2>8 DEF Applicable, ApplyDiff
  <1>3. CASE old # new
    <2> DEFINE changes(m) == ChangesOf(old, new, m)
               end(m) == Last(changes(m)).at + Last(changes(m)).drop + Context
    <2>1. PICK m \in Alignments(old, new) :
              d = [changes |-> changes(m),
                   reach |-> IF end(m) > Len(old.lines) THEN Len(old.lines) ELSE end(m)]
      BY <1>3 DEF DiffsOf
    <2>2. m \in Common(old, new)
      BY DEF Alignments
    <2> DEFINE n == Cardinality(m[1])
               a == Aligned(m[1], Len(old.lines))
               b == Aligned(m[2], Len(new.lines))
               list == changes(m)
    <2>3. n \in Nat /\ IsAligned(old.lines, new.lines, n, a, b) /\ IsChangeList(new.lines, n, a, b, list)
      BY <2>2, ChangesAligned
    <2>4. list # << >>
      BY <1>3, <2>2, NothingToChange
    <2> HIDE DEF n, a, b, changes, list
    <2>5. /\ list \in Seq(Changes(L))
          /\ \A i \in DOMAIN list : list[i].at <= Len(old.lines) /\ End(list[i]) <= Len(old.lines)
          /\ \A i \in DOMAIN list : list[i].at <= list[Len(list)].at
      BY <1>1, <2>3, ChangesAscend
    <2>6. Patched(old.lines, list) = new.lines
      BY <1>1, <2>3, Reproduced
    <2>7. PICK c \in Changes(L) : c = Last(list) /\ c = list[Len(list)]
      <3>1. Len(list) \in DOMAIN list
        BY <2>4, <2>5, LenProperties, EmptySeq
      <3> QED BY <2>5, <3>1, ElementOfSeq, LenProperties DEF Last
    <2>8. c.at \in Nat /\ c.drop \in Nat
      BY DEF Changes
    <2>9. PICK e \in Nat : e = c.at + c.drop + Context /\ c.at <= e
      BY <2>8 DEF Context
    <2>10. PICK r \in Nat : r = (IF e > Len(old.lines) THEN Len(old.lines) ELSE e)
      BY <1>1
    <2>11. d = [changes |-> list, reach |-> r]
      BY <2>1, <2>7, <2>9, <2>10 DEF list
    <2>12. d.changes = list /\ d.reach = r
      BY <2>11
    <2>13. r <= Len(old.lines)
      BY <1>1, <2>10
    <2>14. ASSUME NEW k \in DOMAIN list PROVE list[k].at <= r
      <3>1. list[k].at <= Len(old.lines) /\ list[k].at <= c.at
        BY <2>5, <2>7
      <3>2. list[k] \in Changes(L)
        BY <2>5, ElementOfSeq, LenProperties
      <3>3. list[k].at \in Nat
        BY <3>2 DEF Changes
      <3> QED BY <1>1, <2>8, <2>9, <2>10, <3>1, <3>3
    <2>15. d \in Diffs(L)
      BY <2>5, <2>11, <2>12, <2>14 DEF Diffs
    <2> QED BY <2>6, <2>12, <2>13, <2>15 DEF Applicable, ApplyDiff
  <1> QED BY <1>2, <1>3

(* What apply_deltas holds between two deltas                                *)
Readings(L) == [lines : Seq(L), fits : BOOLEAN]

(* Applying one delta                                                        *)
Applied(was, diff) ==
    LET fits == was.fits /\ Applicable(was.lines, diff)
    IN  [lines |-> IF fits THEN ApplyDiff(was.lines, diff) ELSE was.lines, fits |-> fits]

(* The states of apply_deltas: after[k] is what the first k deltas gave.   *)
IsReading(from, diffs, after) ==
    /\ after[0] = [lines |-> from.lines, fits |-> TRUE]
    /\ \A k \in 1..Len(diffs) : after[k] = Applied(after[k - 1], diffs[k])

(* A patched sequence of lines is one.                                     *)
LEMMA PatchedIsText ==
    ASSUME NEW L, NEW lines \in Seq(L), NEW changes \in Seq(Changes(L)),
           \A k \in DOMAIN changes : changes[k].at <= Len(lines)
    PROVE  Patched(lines, changes) \in Seq(L)
PROOF
  <1> DEFINE n == Len(changes)
             pos == Copied(changes, n + 1)
  <1>1. PICK text \in [0..n -> Seq(L)] :
              Patched(lines, changes) = text[n] \o SubSeq(lines, pos + 1, Len(lines))
    BY PatchedInSteps
  <1>2. n \in Nat /\ Len(lines) \in Nat /\ \A k \in 1..n : changes[k] \in Changes(L)
    BY LenProperties, ElementOfSeq
  <1>3. pos \in Nat
    <2>1. CASE n = 0
      BY <2>1 DEF Copied
    <2>2. CASE n # 0
      <3>1. n + 1 # 1 /\ (n + 1) - 1 = n /\ n \in 1..n
        BY <1>2, <2>2
      <3>2. PICK c \in Changes(L) : c = changes[n]
        BY <1>2, <3>1
      <3>3. pos = c.at + c.drop
        BY <3>1, <3>2 DEF Copied, End
      <3>4. c.at \in Nat /\ c.drop \in Nat
        BY DEF Changes
      <3> QED BY <3>3, <3>4
    <2> QED BY <2>1, <2>2
  <1>4. SubSeq(lines, pos + 1, Len(lines)) \in Seq(L)
    <2> HIDE DEF pos
    <2>1. \A i \in (pos + 1)..Len(lines) : lines[i] \in L
      BY <1>2, <1>3, LenProperties
    <2> QED BY <1>2, <1>3, <2>1, SubSeqProperties
  <1>5. text[n] \in Seq(L)
    BY <1>2
  <1> QED BY <1>1, <1>4, <1>5, ConcatProperties

(* Lines that are joined make a text that gives them.                      *)
LEMMA JoinedGives ==
    ASSUME NEW L, NEW lines \in Seq(L), NEW ends \in BOOLEAN
    PROVE  Text(lines, ends) \in TextsOver(L) /\ Gives(Text(lines, ends), lines, ends)
PROOF
  <1>1. Len(lines) \in Nat /\ DOMAIN lines = 1..Len(lines)
        /\ \A i \in 1..Len(lines) : lines[i] \in L
    BY LenProperties, ElementOfSeq
  <1>2. << >> \in Seq(L) /\ Append(<< >>, Blank) = <<Blank>>
    OBVIOUS
  <1>3. CASE lines \in {<< >>, <<Blank>>}
    <2>1. Text(lines, ends) = [lines |-> << >>, ends |-> FALSE]
      BY <1>3, Zenon DEF Text
    <2> QED BY <1>2, <1>3, <2>1 DEF TextsOver, IsText, Gives
  <1>4. CASE lines \notin {<< >>, <<Blank>>} /\ ~ends /\ Last(lines) = Blank
    <2>1. Text(lines, ends) = [lines |-> Front(lines), ends |-> TRUE]
      BY <1>4, Zenon DEF Text
    <2>2. lines # << >> /\ lines # <<Blank>>
      BY <1>4
    <2>3. Len(lines) # 0 /\ lines[Len(lines)] = Blank
      BY <1>4, <2>2, EmptySeq DEF Last
    <2>4. Len(lines) # 1
      <3> SUFFICES ASSUME Len(lines) = 1 PROVE lines = <<Blank>>
        BY <2>2
      <3>1. Len(<<Blank>>) = 1 /\ <<Blank>>[1] = Blank /\ <<Blank>> \in Seq({Blank})
        OBVIOUS
      <3>2. lines = [i \in 1..1 |-> Blank]
        BY <1>1, <2>3
      <3> QED BY <3>2
    <2>5. PICK front \in Seq(L) : front = SubSeq(lines, 1, Len(lines) - 1)
      <3>1. Len(lines) - 1 \in Int /\ \A i \in 1..(Len(lines) - 1) : lines[i] \in L
        <4>1. Len(lines) - 1 \in Int /\ 1..(Len(lines) - 1) \subseteq 1..Len(lines)
          BY <1>1
        <4> QED BY <1>1, <4>1
      <3>2. PICK h \in Int : h = Len(lines) - 1
        BY <3>1
      <3>3. SubSeq(lines, 1, h) \in Seq(L)
        BY <3>1, <3>2, SubSeqProperties
      <3> QED BY <3>2, <3>3
    <2>6. Len(front) = Len(lines) - 1 /\ \A i \in 1..(Len(lines) - 1) : front[i] = lines[i]
      BY <1>1, <2>3, <2>5, SubSeqProperties
    <2>7. front # << >>
      BY <1>1, <2>3, <2>4, <2>6, EmptySeq
    <2>8. Append(front, Blank) = lines
      <3>0. Blank \in L
        BY <1>1, <2>3
      <3>1. PICK more \in Seq(L) : more = Append(front, Blank)
        BY <3>0, AppendProperties
      <3>2. /\ Len(more) = Len(lines) /\ more[Len(lines)] = Blank
            /\ \A i \in 1..(Len(lines) - 1) : more[i] = front[i]
        <4>1. /\ Len(more) = Len(front) + 1 /\ more[Len(front) + 1] = Blank
              /\ \A i \in 1..Len(front) : more[i] = front[i]
          BY <3>0, <3>1, AppendProperties
        <4>2. Len(front) + 1 = Len(lines)
          BY <1>1, <2>6
        <4> QED BY <2>6, <4>1, <4>2
      <3>3. \A i \in 1..Len(lines) : more[i] = lines[i]
        BY <1>1, <2>3, <2>6, <3>2
      <3> QED BY <3>1, <3>2, <3>3, SeqEqual
    <2>9. Text(lines, ends) = [lines |-> front, ends |-> TRUE]
      BY <2>1, <2>5 DEF Front
    <2> QED BY <1>4, <2>7, <2>8, <2>9 DEF TextsOver, IsText, Gives
  <1>5. CASE lines \notin {<< >>, <<Blank>>} /\ ~(~ends /\ Last(lines) = Blank)
    <2>1. Text(lines, ends) = [lines |-> lines, ends |-> ends]
      BY <1>5, Zenon DEF Text
    <2>2. lines # << >>
      BY <1>5
    <2> QED BY <1>5, <2>1, <2>2 DEF TextsOver, IsText, Gives
  <1> QED BY <1>3, <1>4, <1>5

(* A text that gets its terminator is a text with the same lines.          *)
LEMMA TerminatedIsText ==
    ASSUME NEW L, NEW t \in TextsOver(L), NEW ends \in BOOLEAN, t.ends => ends
    PROVE  /\ Terminated(t, ends) \in TextsOver(L) /\ Terminated(t, ends).lines = t.lines
           /\ Gives(Terminated(t, ends), t.lines, ends)
PROOF
  BY DEF TextsOver, IsText, Terminated, Gives

(* A delta takes apply_deltas from one of its states to another.           *)
LEMMA AppliedIsReading ==
    ASSUME NEW L, NEW was \in Readings(L), NEW d \in Diffs(L)
    PROVE  Applied(was, d) \in Readings(L)
PROOF
  <1>1. PICK lines \in Seq(L), fits \in BOOLEAN : was = [lines |-> lines, fits |-> fits]
    BY DEF Readings
  <1>2. was.lines = lines /\ was.fits = fits
    BY <1>1
  <1>3. d.changes \in Seq(Changes(L)) /\ d.reach \in Nat
        /\ \A k \in DOMAIN d.changes : d.changes[k].at <= d.reach
    BY DEF Diffs
  <1>4. CASE fits /\ d.reach <= Len(lines)
    <2>1. \A k \in DOMAIN d.changes : d.changes[k].at <= Len(lines)
      <3> SUFFICES ASSUME NEW k \in DOMAIN d.changes PROVE d.changes[k].at <= Len(lines)
        OBVIOUS
      <3>1. PICK c \in Changes(L) : c = d.changes[k]
        BY <1>3, ElementOfSeq, LenProperties
      <3>2. c.at \in Nat /\ c.at <= d.reach /\ Len(lines) \in Nat
        BY <1>3, <3>1, LenProperties DEF Changes
      <3> QED BY <1>3, <1>4, <3>1, <3>2
    <2>2. PICK s \in Seq(L) : s = ApplyDiff(lines, d)
      BY <1>3, <2>1, PatchedIsText DEF ApplyDiff
    <2>3. Applied(was, d) = [lines |-> s, fits |-> TRUE]
      BY <1>2, <1>4, <2>2 DEF Applied, Applicable
    <2> QED BY <2>3 DEF Readings
  <1>5. CASE ~ (fits /\ d.reach <= Len(lines))
    <2>1. Applied(was, d) = [lines |-> lines, fits |-> FALSE]
      BY <1>2, <1>5 DEF Applied, Applicable
    <2> QED BY <2>1 DEF Readings
  <1> QED BY <1>4, <1>5

(* apply_deltas goes through the deltas one by one.                        *)
LEMMA AppliedInSteps ==
    ASSUME NEW L, NEW from \in TextsOver(L), NEW diffs \in Seq(Diffs(L))
    PROVE  \E after \in [0..Len(diffs) -> Readings(L)] :
              /\ IsReading(from, diffs, after)
              /\ PatchedBy(from, diffs) = after[Len(diffs)]
PROOF
  <1> DEFINE n == Len(diffs)
             start == [lines |-> from.lines, fits |-> TRUE]
             Loop(f) == f = [k \in 0..n |-> IF k = 0 THEN start ELSE Applied(f[k - 1], diffs[k])]
             step == [p \in Readings(L) \X (1..n) |-> Applied(p[1], diffs[p[2]])]
             after == CHOOSE f : Loop(f)
  <1>1. n \in Nat /\ \A k \in 1..n : diffs[k] \in Diffs(L)
    BY LenProperties, ElementOfSeq
  <1>2. /\ from.lines \in Seq(L) /\ from.ends \in BOOLEAN
        /\ from = [lines |-> from.lines, ends |-> from.ends]
    BY DEF TextsOver
  <1>3. start \in Readings(L)
    BY <1>2 DEF Readings
  <1> HIDE DEF n
  <1>4. step \in LoopSteps(Readings(L), n)
    BY <1>1, AppliedIsReading DEF LoopSteps
  <1>5. \A r \in Readings(L), k \in 1..n : step[<<r, k>>] = Applied(r, diffs[k])
    OBVIOUS
  <1> HIDE DEF step, start
  <1>6. PICK f : IsLoop(Readings(L), n, start, step, f)
    BY <1>1, <1>3, <1>4, LoopRuns
  <1>7. Loop(f)
    <2>1. ASSUME NEW k \in 1..n PROVE f[k] = Applied(f[k - 1], diffs[k])
      <3>1. k - 1 \in 0..n
        BY <1>1
      <3>2. f[k - 1] \in Readings(L)
        BY <1>6, <3>1 DEF IsLoop
      <3> QED BY <1>5, <1>6, <3>2 DEF IsLoop
    <2>2. ASSUME NEW k \in 0..n PROVE f[k] = IF k = 0 THEN start ELSE Applied(f[k - 1], diffs[k])
      <3>1. k = 0 \/ k \in 1..n
        BY <1>1
      <3> QED BY <1>6, <2>1, <3>1 DEF IsLoop
    <2> QED BY <1>6, <2>2 DEF IsLoop
  <1>8. Loop(after)
    <2> HIDE DEF Loop
    <2> QED BY <1>7
  <1>9. PatchedBy(from, diffs) = after[n]
    BY Zenon DEF PatchedBy, Applied, n, start
  <1> HIDE DEF after
  <1>10. after[0] = start /\ \A k \in 1..n : after[k] = Applied(after[k - 1], diffs[k])
    <2>1. 0 \in 0..n /\ \A k \in 1..n : k \in 0..n /\ k # 0
      BY <1>1
    <2> QED BY <1>8, <2>1
  <1>11. after \in [0..n -> Readings(L)]
    <2> DEFINE T == {k \in 0..n : after[k] \in Readings(L)}
    <2>1. 0 \in T
      <3>1. 0 \in 0..n
        BY <1>1
      <3> QED BY <1>3, <1>10, <3>1
    <2>2. ASSUME NEW k \in 1..n, k - 1 \in T PROVE k \in T
      <3>1. k \in 0..n
        BY <1>1
      <3> QED BY <1>1, <1>10, <2>2, <3>1, AppliedIsReading
    <2>3. \A k \in 0..n : k \in T
      <3> HIDE DEF T
      <3> QED BY <1>1, <2>1, <2>2, UpTo
    <2>4. \A k \in 0..n : after[k] \in Readings(L)
      BY <2>3
    <2> QED BY <1>8, <2>4
  <1>12. PatchedBy(from, diffs) = after[n]
    BY <1>9
  <1>13. IsReading(from, diffs, after)
    BY <1>10 DEF IsReading, n, start
  <1> QED BY <1>11, <1>12, <1>13 DEF n

(* Deltas make texts of texts; the lines they leave are given by the text. *)
LEMMA DeltasApply ==
    ASSUME NEW L, NEW from \in TextsOver(L), NEW diffs \in Seq(Diffs(L))
    PROVE  /\ ApplyDeltas(from, diffs)[1] \in TextsOver(L) /\ ApplyDeltas(from, diffs)[2] \in BOOLEAN
           /\ PatchedBy(from, diffs) \in Readings(L)
           /\ ApplyDeltas(from, diffs)[2] = PatchedBy(from, diffs).fits
PROOF
  <1>1. PICK after \in [0..Len(diffs) -> Readings(L)] :
              IsReading(from, diffs, after) /\ PatchedBy(from, diffs) = after[Len(diffs)]
    BY AppliedInSteps
  <1>2. Len(diffs) \in 0..Len(diffs)
    BY LenProperties
  <1>3. PICK end \in Readings(L) : end = PatchedBy(from, diffs)
    BY <1>1, <1>2
  <1>4. PICK lines \in Seq(L), fits \in BOOLEAN : lines = end.lines /\ fits = end.fits
    BY DEF Readings
  <1>5. PICK r : r = ApplyDeltas(from, diffs)
    OBVIOUS
  <1>6. r = IF diffs = << >> THEN <<from, TRUE>> ELSE <<Text(lines, from.ends), fits>>
    BY <1>3, <1>4, <1>5, Zenon DEF ApplyDeltas
  <1>7. CASE diffs = << >>
    <2>1. Len(diffs) = 0
      BY <1>7, EmptySeq
    <2>2. fits = TRUE
      BY <1>1, <1>3, <1>4, <2>1 DEF IsReading
    <2>3. r = <<from, TRUE>>
      BY <1>6, <1>7
    <2>4. r[1] = from /\ r[2] = TRUE
      BY <2>3
    <2> QED BY <1>3, <1>4, <1>5, <2>2, <2>4
  <1>8. CASE diffs # << >>
    <2>1. from.ends \in BOOLEAN
      BY DEF TextsOver
    <2>2. PICK t \in TextsOver(L) : t = Text(lines, from.ends)
      BY <2>1, JoinedGives
    <2>3. r = <<t, fits>>
      BY <1>6, <1>8, <2>2
    <2> QED BY <1>3, <1>4, <1>5, <2>3
  <1> QED BY <1>7, <1>8

(* One more delta is applied to the lines that those before it leave.      *)
LEMMA OneMoreDelta ==
    ASSUME NEW L, NEW from \in TextsOver(L), NEW diffs \in Seq(Diffs(L)), NEW d \in Diffs(L)
    PROVE  LET next == Applied(PatchedBy(from, diffs), d)
           IN  /\ PatchedBy(from, Append(diffs, d)) = next
               /\ ApplyDeltas(from, Append(diffs, d)) = <<Text(next.lines, from.ends), next.fits>>
PROOF
  <1> DEFINE n == Len(diffs)
             more == Append(diffs, d)
  <1>1. /\ n \in Nat /\ more \in Seq(Diffs(L)) /\ Len(more) = n + 1
        /\ \A k \in 1..n : more[k] = diffs[k]
        /\ more[n + 1] = d
    BY AppendProperties, LenProperties
  <1>2. PICK f \in [0..n -> Readings(L)] :
              IsReading(from, diffs, f) /\ PatchedBy(from, diffs) = f[n]
    BY AppliedInSteps
  <1>3. PICK g \in [0..Len(more) -> Readings(L)] :
              IsReading(from, more, g) /\ PatchedBy(from, more) = g[Len(more)]
    BY <1>1, AppliedInSteps
  <1> HIDE DEF more, n
  <1>4. g[n] = f[n]
    <2> DEFINE T == {k \in 0..n : g[k] = f[k]}
    <2>1. 0 \in T
      <3>1. 0 \in 0..n
        BY <1>1
      <3> QED BY <1>2, <1>3, <3>1 DEF IsReading
    <2>2. ASSUME NEW k \in 1..n, k - 1 \in T PROVE k \in T
      <3>1. k \in 0..n /\ k \in 1..Len(more)
        BY <1>1
      <3>2. g[k] = Applied(g[k - 1], more[k]) /\ f[k] = Applied(f[k - 1], diffs[k])
        BY <1>2, <1>3, <3>1 DEF IsReading, n
      <3> QED BY <1>1, <2>2, <3>1, <3>2
    <2>3. \A k \in 0..n : k \in T
      <3> HIDE DEF T
      <3> QED BY <1>1, <2>1, <2>2, UpTo
    <2>4. n \in T
      <3> HIDE DEF T
      <3>1. n \in 0..n
        BY <1>1
      <3> QED BY <2>3, <3>1
    <2> QED BY <2>4
  <1>5. g[n + 1] = Applied(f[n], d)
    <2>1. n + 1 \in 1..Len(more) /\ (n + 1) - 1 = n
      BY <1>1
    <2> QED BY <1>1, <1>3, <1>4, <2>1 DEF IsReading
  <1>6. PatchedBy(from, more) = Applied(PatchedBy(from, diffs), d)
    BY <1>1, <1>2, <1>3, <1>5
  <1>7. more # << >>
    BY <1>1, EmptySeq
  <1>8. PICK end : end = Applied(PatchedBy(from, diffs), d)
    OBVIOUS
  <1>9. ApplyDeltas(from, more) = <<Text(end.lines, from.ends), end.fits>>
    BY <1>6, <1>7, <1>8, Zenon DEF ApplyDeltas
  <1> QED BY <1>6, <1>8, <1>9, Zenon DEF more

(* A delta alone                                                             *)
LEMMA OneDelta ==
    ASSUME NEW L, NEW from \in TextsOver(L), NEW d \in Diffs(L)
    PROVE  LET next == Applied([lines |-> from.lines, fits |-> TRUE], d)
           IN  /\ PatchedBy(from, <<d>>) = next
               /\ ApplyDeltas(from, <<d>>) = <<Text(next.lines, from.ends), next.fits>>
PROOF
  <1>1. PICK none \in Seq(Diffs(L)) : none = << >>
    BY EmptySeq
  <1>2. PatchedBy(from, none) = [lines |-> from.lines, fits |-> TRUE]
    <2>1. PICK after \in [0..Len(none) -> Readings(L)] :
              IsReading(from, none, after) /\ PatchedBy(from, none) = after[Len(none)]
      BY AppliedInSteps
    <2>2. Len(none) = 0
      BY <1>1, EmptySeq
    <2> QED BY <2>1, <2>2 DEF IsReading
  <1>3. LET next == Applied(PatchedBy(from, none), d)
        IN  /\ PatchedBy(from, Append(none, d)) = next
            /\ ApplyDeltas(from, Append(none, d)) = <<Text(next.lines, from.ends), next.fits>>
    BY OneMoreDelta
  <1>4. Append(none, d) = <<d>>
    BY <1>1
  <1> QED BY <1>2, <1>3, <1>4, Zenon

-----------------------------------------------------------------------------
(* One merge session *)

(* The diffs of a session are between its texts, and the merge is of them.   *)
SessionInv ==
    LET L == LinesOf(Bases \cup Edits)
    IN  /\ base \in TextsOver(L) /\ ours \in TextsOver(L) /\ theirs \in TextsOver(L)
        /\ diffOurs \in DiffsOf(base, ours) /\ diffTheirs \in DiffsOf(base, theirs)
        /\ ours = theirs => diffOurs = diffTheirs
        /\ merged \in {Unmerged, MergeTexts(base, ours, theirs, diffOurs, diffTheirs)}

(* Only an edit of a side sets its text and its diff, and it sets both; two  *)
(* sides with the same text have the same diff; once the sides are merged    *)
(* nothing changes.                                                          *)
LEMMA SessionInvariant == Session => []SessionInv
PROOF
  <1> DEFINE L == LinesOf(Bases \cup Edits)
  <1>1. Bases \subseteq TextsOver(L) /\ Edits \subseteq TextsOver(L)
    BY SessionAssumption DEF AreTexts
  <1>2. SessionInit => SessionInv
    <2> SUFFICES ASSUME SessionInit PROVE SessionInv
      OBVIOUS
    <2> HIDE DEF L
    <2>1. /\ base \in TextsOver(L) /\ ours = base /\ theirs = base /\ merged = Unmerged
          /\ diffOurs = [changes |-> << >>, reach |-> 0] /\ diffTheirs = diffOurs
      BY <1>1 DEF SessionInit, NoChange
    <2>2. diffOurs \in DiffsOf(base, ours) /\ diffTheirs \in DiffsOf(base, theirs)
      BY <2>1 DEF DiffsOf
    <2> QED BY <2>1, <2>2 DEF SessionInv, L
  <1>3. ASSUME SessionInv, [SessionNext]_sessionVars PROVE SessionInv'
    <2> HIDE DEF L
    <2>1. CASE EditOurs
      BY <1>1, <1>3, <2>1 DEF EditOurs, SessionInv, L
    <2>2. CASE EditTheirs
      BY <1>1, <1>3, <2>2 DEF EditTheirs, SessionInv, L
    <2>3. CASE MergeSides
      BY <1>3, <2>3 DEF MergeSides, SessionInv
    <2>4. CASE UNCHANGED sessionVars
      BY <1>3, <2>4 DEF sessionVars, SessionInv
    <2> QED BY <1>3, <2>1, <2>2, <2>3, <2>4 DEF SessionNext
  <1> QED BY <1>2, <1>3, PTL DEF Session

(* A diff that is kept gives back, with apply_deltas, the lines of the text  *)
(* it was taken to, from the text it was taken of, but for a blank last line *)
(* that is alone or that the base's missing terminator swallows: for all     *)
(* texts, and for whichever longest alignment the diff follows.              *)
THEOREM DiffsAlwaysReproduce == Session => []DiffsReproduce
PROOF
  <1>1. ASSUME SessionInv PROVE DiffsReproduce
    <2> DEFINE L == LinesOf(Bases \cup Edits)
    <2>1. base \in TextsOver(L) /\ ours \in TextsOver(L) /\ diffOurs \in DiffsOf(base, ours)
      BY <1>1 DEF SessionInv
    <2> HIDE DEF L
    <2>2. /\ diffOurs \in Diffs(L) /\ Applicable(base.lines, diffOurs)
          /\ ApplyDiff(base.lines, diffOurs) = ours.lines
      BY <2>1, DiffReproduces
    <2> DEFINE next == Applied([lines |-> base.lines, fits |-> TRUE], diffOurs)
    <2>3. ApplyDeltas(base, <<diffOurs>>) = <<Text(next.lines, base.ends), next.fits>>
      BY <2>1, <2>2, OneDelta, Zenon
    <2>4. next = [lines |-> ours.lines, fits |-> TRUE]
      BY <2>2 DEF Applied
    <2> HIDE DEF next
    <2>5. ApplyDeltas(base, <<diffOurs>>) = <<Text(ours.lines, base.ends), TRUE>>
      BY <2>3, <2>4
    <2>6. Gives(Text(ours.lines, base.ends), ours.lines, base.ends)
      <3>1. ours.lines \in Seq(L) /\ base.ends \in BOOLEAN
        BY <2>1 DEF TextsOver
      <3> QED BY <3>1, JoinedGives
    <2>7. PICK read, t : read = ApplyDeltas(base, <<diffOurs>>) /\ t = Text(ours.lines, base.ends)
      OBVIOUS
    <2>8. read = <<t, TRUE>>
      BY <2>5, <2>7
    <2>9. read[1] = t /\ read[2] = TRUE
      BY <2>8
    <2> QED BY <2>6, <2>7, <2>9, Zenon DEF DiffsReproduce
  <1> QED BY <1>1, SessionInvariant, PTL

-----------------------------------------------------------------------------
(* Merges *)

(* What the loop of merge_texts holds between two turns, over a text of n    *)
(* lines                                                                     *)
ChangesUpTo(L, n) == {c \in Changes(L) : c.at <= n}
Turns(L, n) ==
    [ours : Seq(ChangesUpTo(L, n)), theirs : Seq(ChangesUpTo(L, n)), pos : Nat,
     lines : Seq(L), conflicts : Nat]

(* A turn that writes c, and goes on with the changes o and t                *)
Write(text, was, c, pos, clash, o, t) ==
    [ours |-> o, theirs |-> t, pos |-> pos, lines |-> was.lines \o Taken(text, was.pos, c),
     conflicts |-> was.conflicts + clash]

(* A turn of the loop of merge_texts                                       *)
Turn(text, was) ==
    LET who == WhoStarts(was.ours, was.theirs)
        same == SameStart(Head(was.ours), Head(was.theirs))
        write(c, pos, clash) ==
            Write(text, was, c, pos, clash,
                  IF who = "theirs" THEN was.ours ELSE Tail(was.ours),
                  IF who = "ours" THEN was.theirs ELSE Tail(was.theirs))
    IN  IF was.ours = << >> /\ was.theirs = << >> THEN was
        ELSE CASE who = "ours" -> write(Head(was.ours), End(Head(was.ours)), 0)
               [] who = "theirs" -> write(Head(was.theirs), End(Head(was.theirs)), 0)
               [] who = "both" -> write(same.change, same.pos, same.clash)

(* What a turn writes leaves the loop with lines, positions and changes.   *)
LEMMA WriteIsTurn ==
    ASSUME NEW L, NEW text \in Seq(L), NEW was \in Turns(L, Len(text)),
           NEW c \in ChangesUpTo(L, Len(text)), NEW pos \in Nat, NEW clash \in Nat,
           NEW o \in Seq(ChangesUpTo(L, Len(text))), NEW t \in Seq(ChangesUpTo(L, Len(text)))
    PROVE  Write(text, was, c, pos, clash, o, t) \in Turns(L, Len(text))
PROOF
  <1>1. was.pos \in Nat /\ was.lines \in Seq(L) /\ was.conflicts \in Nat
    BY DEF Turns
  <1>2. c.at \in Nat /\ c.at <= Len(text) /\ c.new \in Seq(L) /\ Len(text) \in Nat
    BY LenProperties DEF ChangesUpTo, Changes
  <1>3. SubSeq(text, was.pos + 1, c.at) \in Seq(L)
    <2>1. \A i \in (was.pos + 1)..c.at : text[i] \in L
      BY <1>1, <1>2, LenProperties
    <2> QED BY <1>1, <1>2, <2>1, SubSeqProperties
  <1>4. PICK s \in Seq(L), k \in Nat :
            s = was.lines \o Taken(text, was.pos, c) /\ k = was.conflicts + clash
    <2>1. PICK u \in Seq(L) : u = Taken(text, was.pos, c)
      BY <1>2, <1>3, ConcatProperties DEF Taken
    <2>2. PICK s \in Seq(L) : s = was.lines \o u
      BY <1>1, ConcatProperties
    <2>3. was.conflicts + clash \in Nat
      BY <1>1
    <2> QED BY <2>1, <2>2, <2>3
  <1>5. Write(text, was, c, pos, clash, o, t)
            = [ours |-> o, theirs |-> t, pos |-> pos, lines |-> s, conflicts |-> k]
    BY <1>4 DEF Write
  <1> QED BY <1>5 DEF Turns

(* A change ends at a line.                                                *)
LEMMA EndIsNat == ASSUME NEW L, NEW c \in Changes(L) PROVE End(c) \in Nat
PROOF
  <1>1. c.at \in Nat /\ c.drop \in Nat
    BY DEF Changes
  <1> QED BY <1>1 DEF End

(* So does a whole turn, whichever side has its change first.              *)
LEMMA TurnIsTurn ==
    ASSUME NEW L, NEW text \in Seq(L), NEW was \in Turns(L, Len(text))
    PROVE  Turn(text, was) \in Turns(L, Len(text))
PROOF
  <1> DEFINE C == ChangesUpTo(L, Len(text))
             who == WhoStarts(was.ours, was.theirs)
  <1>1. PICK o \in Seq(C), t \in Seq(C) : o = was.ours /\ t = was.theirs
    BY DEF Turns
  <1>2. \A c \in C : c \in Changes(L) /\ End(c) \in Nat /\ c.at \in Nat
    BY EndIsNat DEF ChangesUpTo, Changes
  <1>9. \A c \in C, pos \in Nat, clash \in Nat, u \in Seq(C), v \in Seq(C) :
            Write(text, was, c, pos, clash, u, v) \in Turns(L, Len(text))
    BY WriteIsTurn
  <1> HIDE DEF C
  <1>3. \A s \in Seq(C) : s # << >> => Head(s) \in C /\ Tail(s) \in Seq(C)
    BY HeadTailProperties
  <1>4. CASE o = << >> /\ t = << >>
    BY <1>1, <1>4 DEF Turn
  <1>5. CASE ~ (o = << >> /\ t = << >>) /\ who = "ours"
    <2>1. o # << >>
      BY <1>1, <1>5 DEF WhoStarts
    <2>2. Turn(text, was) = Write(text, was, Head(o), End(Head(o)), 0, Tail(o), t)
      BY <1>1, <1>5 DEF Turn
    <2>3. PICK c \in C, pos \in Nat : c = Head(o) /\ pos = End(Head(o))
      BY <1>2, <1>3, <2>1
    <2>4. PICK rest \in Seq(C) : rest = Tail(o)
      BY <1>3, <2>1
    <2>5. 0 \in Nat
      OBVIOUS
    <2>6. Turn(text, was) = Write(text, was, c, pos, 0, rest, t)
      BY <2>2, <2>3, <2>4
    <2> QED BY <1>9, <2>5, <2>6
  <1>6. CASE ~ (o = << >> /\ t = << >>) /\ who = "theirs"
    <2>1. t # << >>
      BY <1>1, <1>6 DEF WhoStarts
    <2>2. Turn(text, was) = Write(text, was, Head(t), End(Head(t)), 0, o, Tail(t))
      BY <1>1, <1>6 DEF Turn
    <2>3. PICK c \in C, pos \in Nat : c = Head(t) /\ pos = End(Head(t))
      BY <1>2, <1>3, <2>1
    <2>4. PICK rest \in Seq(C) : rest = Tail(t)
      BY <1>3, <2>1
    <2>5. 0 \in Nat
      OBVIOUS
    <2>6. Turn(text, was) = Write(text, was, c, pos, 0, o, rest)
      BY <2>2, <2>3, <2>4
    <2> QED BY <1>9, <2>5, <2>6
  <1>7. CASE ~ (o = << >> /\ t = << >>) /\ who = "both"
    <2>1. o # << >> /\ t # << >>
      BY <1>1, <1>7 DEF WhoStarts
    <2>2. PICK a \in C, b \in C : a = Head(o) /\ b = Head(t)
      BY <1>3, <2>1
    <2> DEFINE same == SameStart(a, b)
    <2>3. same.change \in C /\ same.pos \in Nat /\ same.clash \in Nat
      <3> DEFINE keep(c, pos, clash) == [change |-> c, pos |-> pos, clash |-> clash]
                 late == IF End(a) > End(b) THEN End(a) ELSE End(b)
      <3>1. late \in Nat /\ a.at \in Nat /\ End(a) \in Nat
        BY <1>2
      <3>2. \/ same = keep(a, End(a), 0) \/ same = keep(b, a.at, 0)
            \/ same = keep(a, a.at, 0) \/ same = keep(a, late, 1)
        BY DEF SameStart
      <3> HIDE DEF same, late
      <3>3. \A c \in C, pos \in Nat, clash \in Nat :
               /\ keep(c, pos, clash).change \in C /\ keep(c, pos, clash).pos \in Nat
               /\ keep(c, pos, clash).clash \in Nat
        OBVIOUS
      <3>4. 0 \in Nat /\ 1 \in Nat
        OBVIOUS
      <3> HIDE DEF keep
      <3> QED BY <3>1, <3>2, <3>3, <3>4
    <2>4. Turn(text, was) = Write(text, was, same.change, same.pos, same.clash, Tail(o), Tail(t))
      BY <1>1, <1>7, <2>2 DEF Turn
    <2> HIDE DEF same
    <2>5. PICK c \in C, pos \in Nat, clash \in Nat :
              c = same.change /\ pos = same.pos /\ clash = same.clash
      BY <2>3
    <2>6. PICK p \in Seq(C), q \in Seq(C) : p = Tail(o) /\ q = Tail(t)
      BY <1>3, <2>1
    <2>7. Turn(text, was) = Write(text, was, c, pos, clash, p, q)
      BY <2>4, <2>5, <2>6
    <2> QED BY <1>9, <2>7
  <1>8. who \in {"ours", "theirs", "both"}
    BY DEF WhoStarts
  <1> QED BY <1>4, <1>5, <1>6, <1>7, <1>8

(* The states of the loop of merge_texts                                     *)
IsWalk(text, o, t, walk) ==
    /\ walk[0] = [ours |-> o, theirs |-> t, pos |-> 0, lines |-> << >>, conflicts |-> 0]
    /\ \A k \in 1..(Len(o) + Len(t)) : walk[k] = Turn(text, walk[k - 1])

Merged(text, end) ==
    [lines |-> end.lines \o SubSeq(text, end.pos + 1, Len(text)), conflicts |-> end.conflicts]

(* The merge goes through them.                                              *)
LEMMA WalkInSteps ==
    ASSUME NEW L, NEW text \in Seq(L),
           NEW o \in Seq(ChangesUpTo(L, Len(text))), NEW t \in Seq(ChangesUpTo(L, Len(text)))
    PROVE  \E walk \in [0..(Len(o) + Len(t)) -> Turns(L, Len(text))] :
              /\ IsWalk(text, o, t, walk)
              /\ MergeChanges(text, o, t) = Merged(text, walk[Len(o) + Len(t)])
PROOF
  <1> DEFINE n == Len(o) + Len(t)
             V == Turns(L, Len(text))
             start == [ours |-> o, theirs |-> t, pos |-> 0, lines |-> << >>, conflicts |-> 0]
             Loop(f) == f = [k \in 0..n |-> IF k = 0 THEN start ELSE Turn(text, f[k - 1])]
             step == [p \in V \X (1..n) |-> Turn(text, p[1])]
             walk == CHOOSE f : Loop(f)
  <1>1. n \in Nat
    BY LenProperties
  <1>2. start \in V
    <2>1. << >> \in Seq(L)
      BY EmptySeq
    <2> QED BY <2>1 DEF Turns
  <1> HIDE DEF n, start
  <1>3. MergeChanges(text, o, t) = Merged(text, walk[n])
    BY Zenon DEF MergeChanges, Merged, Turn, Write, n, start
  <1>4. step \in LoopSteps(V, n)
    BY TurnIsTurn DEF LoopSteps
  <1> HIDE DEF V
  <1>5. \A v \in V, k \in 1..n : step[<<v, k>>] = Turn(text, v)
    OBVIOUS
  <1> HIDE DEF step
  <1>6. PICK f : IsLoop(V, n, start, step, f)
    BY <1>1, <1>2, <1>4, LoopRuns
  <1>7. Loop(f)
    <2>1. ASSUME NEW k \in 1..n PROVE f[k] = Turn(text, f[k - 1])
      <3>1. k - 1 \in 0..n
        BY <1>1
      <3>2. f[k - 1] \in V
        BY <1>6, <3>1 DEF IsLoop
      <3> QED BY <1>5, <1>6, <3>2 DEF IsLoop
    <2>2. ASSUME NEW k \in 0..n PROVE f[k] = IF k = 0 THEN start ELSE Turn(text, f[k - 1])
      <3>1. k = 0 \/ k \in 1..n
        BY <1>1
      <3> QED BY <1>6, <2>1, <3>1 DEF IsLoop
    <2> QED BY <1>6, <2>2 DEF IsLoop
  <1>8. Loop(walk)
    <2> HIDE DEF Loop
    <2> QED BY <1>7
  <1> HIDE DEF walk
  <1>9. walk \in [0..n -> V]
    <2> DEFINE T == {k \in 0..n : walk[k] \in V}
    <2>1. 0 \in T
      <3>1. 0 \in 0..n
        BY <1>1
      <3> QED BY <1>2, <1>8, <3>1
    <2>2. ASSUME NEW k \in 1..n, k - 1 \in T PROVE k \in T
      <3>1. k \in 0..n /\ k # 0
        BY <1>1
      <3>2. walk[k] = Turn(text, walk[k - 1]) /\ walk[k - 1] \in V
        BY <1>8, <2>2, <3>1
      <3> QED BY <3>1, <3>2, TurnIsTurn DEF V
    <2>3. \A k \in 0..n : k \in T
      <3> HIDE DEF T
      <3> QED BY <1>1, <2>1, <2>2, UpTo
    <2>4. \A k \in 0..n : walk[k] \in V
      BY <2>3
    <2> QED BY <1>8, <2>4
  <1>10. IsWalk(text, o, t, walk)
    <2>1. 0 \in 0..n /\ \A k \in 1..n : k \in 0..n /\ k # 0
      BY <1>1
    <2>2. walk[0] = start /\ \A k \in 1..n : walk[k] = Turn(text, walk[k - 1])
      BY <1>8, <2>1
    <2> QED BY <2>2 DEF IsWalk, n, start
  <1> QED BY <1>3, <1>9, <1>10 DEF n, V

(* The walk ends in a text.                                                  *)
LEMMA WalkIsText ==
    ASSUME NEW L, NEW text \in Seq(L),
           NEW o \in Seq(ChangesUpTo(L, Len(text))), NEW t \in Seq(ChangesUpTo(L, Len(text)))
    PROVE  MergeChanges(text, o, t).lines \in Seq(L)
PROOF
  <1> DEFINE n == Len(o) + Len(t)
  <1>1. PICK walk \in [0..n -> Turns(L, Len(text))] :
              MergeChanges(text, o, t) = Merged(text, walk[n])
    BY WalkInSteps
  <1>2. n \in 0..n
    BY LenProperties
  <1>3. PICK pos \in Nat, lines \in Seq(L), k \in Nat :
            pos = walk[n].pos /\ lines = walk[n].lines /\ k = walk[n].conflicts
    BY <1>2 DEF Turns
  <1>4. SubSeq(text, pos + 1, Len(text)) \in Seq(L)
    <2>1. Len(text) \in Nat /\ \A i \in (pos + 1)..Len(text) : text[i] \in L
      BY LenProperties
    <2> QED BY <2>1, SubSeqProperties
  <1>5. PICK s \in Seq(L) : s = lines \o SubSeq(text, pos + 1, Len(text))
    BY <1>4, ConcatProperties
  <1>6. MergeChanges(text, o, t) = [lines |-> s, conflicts |-> k]
    BY <1>1, <1>3, <1>5 DEF Merged
  <1> QED BY <1>6

(* A merge of texts is a text.                                               *)
LEMMA MergeIsText ==
    ASSUME NEW L, NEW x \in TextsOver(L), NEW o \in TextsOver(L), NEW t \in TextsOver(L),
           NEW p \in DiffsOf(x, o), NEW q \in DiffsOf(x, t)
    PROVE  MergeTexts(x, o, t, p, q).text \in TextsOver(L)
PROOF
  <1> DEFINE walk == MergeChanges(x.lines, p.changes, q.changes)
             ends == x.ends \/ o.ends \/ t.ends
  <1>1. ASSUME NEW y \in TextsOver(L), NEW d \in DiffsOf(x, y)
        PROVE  d.changes \in Seq(ChangesUpTo(L, Len(x.lines)))
    <2>1. d \in Diffs(L) /\ d.reach <= Len(x.lines)
      BY DiffReproduces DEF Applicable
    <2>2. /\ d.changes \in Seq(Changes(L)) /\ d.reach \in Nat /\ Len(x.lines) \in Nat
          /\ \A k \in DOMAIN d.changes : d.changes[k].at <= d.reach
      BY <2>1, LenProperties DEF Diffs, TextsOver
    <2>3. \A k \in DOMAIN d.changes : d.changes[k] \in ChangesUpTo(L, Len(x.lines))
      <3> SUFFICES ASSUME NEW k \in DOMAIN d.changes
                   PROVE  d.changes[k] \in ChangesUpTo(L, Len(x.lines))
        OBVIOUS
      <3>1. PICK c \in Changes(L) : c = d.changes[k]
        BY <2>2, ElementOfSeq, LenProperties
      <3>2. c.at \in Nat /\ c.at <= d.reach
        BY <2>2, <3>1 DEF Changes
      <3> QED BY <2>1, <2>2, <3>1, <3>2 DEF ChangesUpTo
    <2> QED BY <2>2, <2>3, LenProperties
  <1>2. x.lines \in Seq(L) /\ o.lines \in Seq(L) /\ t.lines \in Seq(L)
        /\ x.ends \in BOOLEAN /\ o.ends \in BOOLEAN /\ t.ends \in BOOLEAN
    BY DEF TextsOver
  <1>3. walk.lines \in Seq(L)
    BY <1>1, <1>2, WalkIsText
  <1>4. ends \in BOOLEAN /\ (o.ends => ends) /\ (t.ends => ends)
    BY <1>2
  <1> HIDE DEF walk, ends
  <1>5. \/ MergeTexts(x, o, t, p, q).text = Terminated(o, ends)
        \/ MergeTexts(x, o, t, p, q).text = Terminated(t, ends)
        \/ MergeTexts(x, o, t, p, q).text = Text(walk.lines, ends)
    <2>1. \A u, v : [text |-> u, conflicts |-> v].text = u
      OBVIOUS
    <2>2. \/ MergeTexts(x, o, t, p, q) = [text |-> Terminated(o, ends), conflicts |-> 0]
          \/ MergeTexts(x, o, t, p, q) = [text |-> Terminated(t, ends), conflicts |-> 0]
          \/ MergeTexts(x, o, t, p, q) = [text |-> Text(walk.lines, ends), conflicts |-> walk.conflicts]
      BY Zenon DEF MergeTexts, walk, ends
    <2> QED BY <2>1, <2>2, Zenon
  <1>6. /\ Terminated(o, ends) \in TextsOver(L) /\ Terminated(t, ends) \in TextsOver(L)
        /\ Text(walk.lines, ends) \in TextsOver(L)
    BY <1>3, <1>4, JoinedGives, TerminatedIsText
  <1> QED BY <1>5, <1>6

-----------------------------------------------------------------------------
(* What our side wrote *)

(* w is in l, in order: f says where.                                        *)
IsWithin(w, l, f) ==
    /\ f \in [1..Len(w) -> 1..Len(l)]
    /\ \A i, j \in 1..Len(w) : i < j => f[i] < f[j]
    /\ \A i \in 1..Len(w) : l[f[i]] = w[i]
Within(w, l) == \E f : IsWithin(w, l, f)

(* A beginning of a text is in it; so is the text itself.                    *)
LEMMA PrefixWithin ==
    ASSUME NEW L, NEW w \in Seq(L), NEW l \in Seq(L), IsPrefix(w, l)
    PROVE  Within(w, l)
PROOF
  <1> DEFINE f == [i \in 1..Len(w) |-> i]
  <1>1. Len(w) \in Nat /\ Len(l) \in Nat /\ Len(w) <= Len(l)
    BY LenProperties DEF IsPrefix
  <1>2. \A i \in 1..Len(w) : l[i] = w[i]
    <2>1. SubSeq(w, 1, Len(w)) = SubSeq(l, 1, Len(w))
      BY DEF IsPrefix
    <2>2. \A i \in 1..Len(w) : i \in 1..Len(l)
      BY <1>1
    <2>3. \A s \in Seq(L), m \in Nat :
             (\A i \in 1..m : s[i] \in L) => \A i \in 1..m : SubSeq(s, 1, m)[i] = s[i]
      BY SubSeqProperties
    <2> QED BY <1>1, <2>1, <2>2, LenProperties
  <1>3. IsWithin(w, l, f)
    BY <1>1, <1>2 DEF IsWithin
  <1> QED BY <1>3 DEF Within

(* Nothing is in every text.                                                 *)
LEMMA NothingWithin ==
    ASSUME NEW L, NEW l \in Seq(L)
    PROVE  Within(<< >>, l)
PROOF
  <1>1. PICK w \in Seq(L) : w = << >> /\ Len(w) = 0
    BY EmptySeq
  <1>2. IsWithin(w, l, [i \in 1..0 |-> i])
    BY <1>1 DEF IsWithin
  <1> QED BY <1>1, <1>2 DEF Within

(* What is in two texts is, one after the other, in their concatenation.    *)
LEMMA ConcatWithin ==
    ASSUME NEW L, NEW w \in Seq(L), NEW v \in Seq(L), NEW l \in Seq(L), NEW m \in Seq(L),
           Within(w, l), Within(v, m)
    PROVE  Within(w \o v, l \o m)
PROOF
  <1>1. PICK f, g : IsWithin(w, l, f) /\ IsWithin(v, m, g)
    BY DEF Within
  <1>2. PICK a \in Nat, b \in Nat, x \in Nat, y \in Nat :
            /\ a = Len(w) /\ b = Len(v) /\ x = Len(l) /\ y = Len(m)
            /\ a \in Nat /\ b \in Nat /\ x \in Nat /\ y \in Nat
    BY LenProperties
  <1>3. PICK s \in Seq(L), t \in Seq(L) : s = w \o v /\ t = l \o m
    BY ConcatProperties
  <1>4. /\ Len(s) = a + b /\ Len(t) = x + y
        /\ \A i \in 1..(a + b) : s[i] = IF i <= a THEN w[i] ELSE v[i - a]
        /\ \A i \in 1..(x + y) : t[i] = IF i <= x THEN l[i] ELSE m[i - x]
    BY <1>2, <1>3, ConcatProperties
  <1>5. /\ f \in [1..a -> 1..x] /\ g \in [1..b -> 1..y]
        /\ \A i, j \in 1..a : i < j => f[i] < f[j]
        /\ \A i, j \in 1..b : i < j => g[i] < g[j]
        /\ \A i \in 1..a : l[f[i]] = w[i]
        /\ \A i \in 1..b : m[g[i]] = v[i]
    BY <1>1, <1>2 DEF IsWithin
  <1> DEFINE h == [i \in 1..(a + b) |-> IF i <= a THEN f[i] ELSE x + g[i - a]]
  <1>6. ASSUME NEW i \in 1..(a + b)
        PROVE  \/ \E p \in 1..x : i \in 1..a /\ p = f[i] /\ h[i] = p
               \/ \E k \in 1..b : \E p \in 1..y : i = a + k /\ p = g[k] /\ h[i] = x + p
    <2>1. CASE i <= a
      <3>1. i \in 1..a /\ h[i] = f[i]
        BY <1>2, <2>1
      <3> QED BY <1>5, <3>1
    <2>2. CASE ~ (i <= a)
      <3>1. i \in Nat /\ i - a \in 1..b /\ i = a + (i - a)
        BY <1>2, <2>2
      <3>4. PICK k \in 1..b : k = i - a /\ i = a + k
        BY <3>1
      <3>2. PICK p \in 1..y : p = g[k]
        BY <1>5
      <3>3. h[i] = x + p
        BY <2>2, <3>2, <3>4
      <3> QED BY <3>2, <3>3, <3>4
    <2> QED BY <2>1, <2>2
  <1> HIDE DEF h
  <1>7. h \in [1..(a + b) -> 1..(x + y)]
    <2>1. ASSUME NEW i \in 1..(a + b) PROVE h[i] \in 1..(x + y)
      <3>1. CASE \E p \in 1..x : h[i] = p
        BY <1>2, <3>1
      <3>2. CASE \E p \in 1..y : h[i] = x + p
        BY <1>2, <3>2
      <3> QED BY <1>6, <3>1, <3>2
    <2> QED BY <2>1 DEF h
  <1>8. ASSUME NEW i \in 1..(a + b), NEW j \in 1..(a + b), i < j PROVE h[i] < h[j]
    <2>1. CASE \E p \in 1..x : i \in 1..a /\ p = f[i] /\ h[i] = p
      <3>1. PICK p \in 1..x : i \in 1..a /\ p = f[i] /\ h[i] = p
        BY <2>1
      <3>2. CASE \E q \in 1..x : j \in 1..a /\ q = f[j] /\ h[j] = q
        BY <1>5, <1>8, <3>1, <3>2
      <3>3. CASE \E k \in 1..b : \E q \in 1..y : j = a + k /\ q = g[k] /\ h[j] = x + q
        BY <1>2, <3>1, <3>3
      <3> QED BY <1>6, <3>2, <3>3
    <2>2. CASE \E k \in 1..b : \E p \in 1..y : i = a + k /\ p = g[k] /\ h[i] = x + p
      <3>1. PICK k \in 1..b, p \in 1..y : i = a + k /\ p = g[k] /\ h[i] = x + p
        BY <2>2
      <3>2. ~ (j \in 1..a)
        BY <1>2, <1>8, <3>1
      <3>3. PICK l2 \in 1..b, q \in 1..y : j = a + l2 /\ q = g[l2] /\ h[j] = x + q
        BY <1>6, <3>2
      <3>4. k < l2
        BY <1>2, <1>8, <3>1, <3>3
      <3>5. p < q
        BY <1>5, <3>1, <3>3, <3>4
      <3> QED BY <1>2, <3>1, <3>3, <3>5
    <2> QED BY <1>6, <2>1, <2>2
  <1>9. ASSUME NEW i \in 1..(a + b) PROVE t[h[i]] = s[i]
    <2>1. CASE \E p \in 1..x : i \in 1..a /\ p = f[i] /\ h[i] = p
      <3>1. PICK p \in 1..x : i \in 1..a /\ p = f[i] /\ h[i] = p
        BY <2>1
      <3>2. p \in 1..(x + y) /\ p <= x /\ i <= a
        BY <1>2, <3>1
      <3>3. t[p] = l[p] /\ s[i] = w[i]
        BY <1>4, <3>2
      <3> QED BY <1>5, <3>1, <3>3
    <2>2. CASE \E k \in 1..b : \E p \in 1..y : i = a + k /\ p = g[k] /\ h[i] = x + p
      <3>1. PICK k \in 1..b, p \in 1..y : i = a + k /\ p = g[k] /\ h[i] = x + p
        BY <2>2
      <3>6. p \in Nat /\ x + p \in Nat /\ p >= 1 /\ p <= y
        BY <1>2
      <3>2. PICK u \in Nat : u = x + p /\ u \in 1..(x + y) /\ ~ (u <= x) /\ u - x = p
        <4>1. x + p \in 1..(x + y) /\ ~ (x + p <= x)
          BY <1>2, <3>6
        <4>2. (x + p) - x = p
          BY <1>2, <3>6
        <4> QED BY <3>6, <4>1, <4>2
      <3>3. t[u] = m[p]
        BY <1>4, <3>2
      <3>4. ~ (i <= a) /\ i - a = k
        BY <1>2, <3>1
      <3>5. s[i] = v[k]
        BY <1>4, <3>4
      <3> QED BY <1>5, <3>1, <3>2, <3>3, <3>5
    <2> QED BY <1>6, <2>1, <2>2
  <1>10. IsWithin(s, t, h)
    BY <1>4, <1>7, <1>8, <1>9 DEF IsWithin
  <1> QED BY <1>3, <1>10 DEF Within

(* It may be in either part alone.                                           *)
LEMMA WithinLonger ==
    ASSUME NEW L, NEW w \in Seq(L), NEW l \in Seq(L), NEW m \in Seq(L)
    PROVE  /\ Within(w, l) => Within(w, l \o m)
           /\ Within(w, m) => Within(w, l \o m)
PROOF
  <1>1. << >> \in Seq(L) /\ w \o << >> = w /\ << >> \o w = w
    BY EmptySeq, ConcatEmptySeq
  <1>2. Within(<< >>, l) /\ Within(<< >>, m)
    BY NothingWithin
  <1>3. ASSUME Within(w, l) PROVE Within(w, l \o m)
    <2>1. Within(w \o << >>, l \o m)
      BY <1>1, <1>2, <1>3, ConcatWithin
    <2> QED BY <1>1, <2>1
  <1>4. ASSUME Within(w, m) PROVE Within(w, l \o m)
    <2>1. Within(<< >> \o w, l \o m)
      BY <1>1, <1>2, <1>4, ConcatWithin
    <2> QED BY <1>1, <2>1
  <1> QED BY <1>3, <1>4

(* Where it is, as a set of positions                                        *)
LEMMA WithinPositions ==
    ASSUME NEW L, NEW w \in Seq(L), NEW l \in Seq(L), Within(w, l)
    PROVE  \E S \in SUBSET DOMAIN l :
              /\ Cardinality(S) = Len(w)
              /\ \A k \in DOMAIN w : l[Ascending(S)[k]] = w[k]
PROOF
  <1>1. PICK f : IsWithin(w, l, f)
    BY DEF Within
  <1>2. PICK a \in Nat, x \in Nat : a = Len(w) /\ x = Len(l) /\ DOMAIN w = 1..a /\ DOMAIN l = 1..x
    BY LenProperties
  <1>3. /\ f \in [1..a -> 1..x]
        /\ \A i, j \in 1..a : i < j => f[i] < f[j]
        /\ \A i \in 1..a : l[f[i]] = w[i]
    BY <1>1, <1>2 DEF IsWithin
  <1> DEFINE S == {f[i] : i \in 1..a}
             to(k) == {y \in S : y <= f[k]}
  <1>4. S \in SUBSET (1..x)
    BY <1>3
  <1>5. ASSUME NEW n \in 0..a PROVE Cardinality({f[i] : i \in 1..n}) = n /\ IsFiniteSet({f[i] : i \in 1..n})
    <2> DEFINE g == [i \in 1..n |-> f[i]]
               R == {f[i] : i \in 1..n}
    <2>1. \A i, j \in 1..n : f[i] = f[j] => i = j
      <3>1. \A i \in 1..n : i \in 1..a /\ f[i] \in Nat
        BY <1>2, <1>3
      <3> QED BY <1>3, <3>1
    <2>2. g \in Bijection(1..n, R)
      BY <2>1 DEF Bijection, Injection, Surjection, IsInjective
    <2>3. Cardinality(1..n) = n /\ IsFiniteSet(1..n)
      <3>1. n \in Int /\ 1 \in Int
        BY <1>2
      <3>2. IsFiniteSet(1..n) /\ Cardinality(1..n) = IF 1 > n THEN 0 ELSE n - 1 + 1
        BY <3>1, FS_Interval
      <3> QED BY <1>2, <3>2
    <2> HIDE DEF g, R
    <2>4. IsFiniteSet(R) /\ Cardinality(R) = Cardinality(1..n)
      BY <2>2, <2>3, FS_Bijection DEF ExistsBijection
    <2> QED BY <2>3, <2>4 DEF R
  <1>6. Cardinality(S) = a
    <2>1. PICK n \in 0..a : n = a
      BY <1>2
    <2>2. S = {f[i] : i \in 1..n}
      BY <2>1
    <2>3. Cardinality({f[i] : i \in 1..n}) = n
      BY <1>5
    <2> HIDE DEF S
    <2> QED BY <2>1, <2>2, <2>3
  <1>7. ASSUME NEW k \in 1..a PROVE Ascending(S)[k] = f[k]
    <2>1. to(k) = {f[i] : i \in 1..k}
      <3>1. ASSUME NEW i \in 1..a PROVE f[i] <= f[k] <=> i <= k
        <4>1. PICK p \in Nat, q \in Nat : p = f[i] /\ q = f[k]
          BY <1>3
        <4>2. i < k => p < q
          BY <1>3, <4>1
        <4>3. k < i => q < p
          BY <1>3, <4>1
        <4>4. i = k => p = q
          BY <4>1
        <4> QED BY <1>2, <4>1, <4>2, <4>3, <4>4
      <3>2. \A i \in 1..a : i \in 1..k <=> i <= k
        BY <1>2
      <3>3. \A i \in 1..k : i \in 1..a
        BY <1>2
      <3> QED BY <3>1, <3>2, <3>3
    <2>2. Cardinality(to(k)) = k
      <3>1. k \in 0..a
        BY <1>2
      <3> QED BY <1>5, <2>1, <3>1
    <2>3. f[k] \in S
      OBVIOUS
    <2> HIDE DEF S
    <2>4. \A i \in 1..Cardinality(S), z \in S :
             Ascending(S)[i] = z <=> Cardinality({y \in S : y <= z}) = i
      BY <1>2, <1>4, AscendingOrders
    <2>5. Ascending(S)[k] = f[k] <=> Cardinality({y \in S : y <= f[k]}) = k
      BY <1>6, <2>3, <2>4
    <2> QED BY <2>2, <2>5
  <1> HIDE DEF S
  <1>8. /\ Cardinality(S) = Len(w)
        /\ \A k \in DOMAIN w : l[Ascending(S)[k]] = w[k]
    BY <1>2, <1>3, <1>6, <1>7
  <1> QED BY <1>2, <1>4, <1>8

(* The texts after 0, 1, ... parts                                           *)
IsJoined(parts, text) ==
    /\ text[0] = << >>
    /\ \A k \in 1..Len(parts) : text[k] = text[k - 1] \o parts[k]

(* Joined goes through its parts.                                            *)
LEMMA JoinedInSteps ==
    ASSUME NEW A, NEW parts \in Seq(Seq(A))
    PROVE  \E text \in [0..Len(parts) -> Seq(A)] :
              IsJoined(parts, text) /\ Joined(parts) = text[Len(parts)]
PROOF
  <1> DEFINE n == Len(parts)
             Loop(f) == f = [k \in 0..n |-> IF k = 0 THEN << >> ELSE f[k - 1] \o parts[k]]
             step == [p \in Seq(A) \X (1..n) |-> p[1] \o parts[p[2]]]
             text == CHOOSE f : Loop(f)
  <1>1. n \in Nat /\ \A k \in 1..n : parts[k] \in Seq(A)
    BY LenProperties, ElementOfSeq
  <1> HIDE DEF n
  <1>3. step \in LoopSteps(Seq(A), n)
    BY <1>1, ConcatProperties DEF LoopSteps
  <1>4. << >> \in Seq(A)
    BY EmptySeq
  <1>5. \A s \in Seq(A), k \in 1..n : step[<<s, k>>] = s \o parts[k]
    OBVIOUS
  <1> HIDE DEF step
  <1>6. PICK f : IsLoop(Seq(A), n, << >>, step, f)
    BY <1>1, <1>3, <1>4, LoopRuns
  <1>7. Loop(f)
    <2>1. ASSUME NEW k \in 1..n PROVE f[k] = f[k - 1] \o parts[k]
      <3>1. k - 1 \in 0..n
        BY <1>1
      <3>2. f[k - 1] \in Seq(A)
        BY <1>6, <3>1 DEF IsLoop
      <3> QED BY <1>5, <1>6, <3>2 DEF IsLoop
    <2>2. ASSUME NEW k \in 0..n PROVE f[k] = IF k = 0 THEN << >> ELSE f[k - 1] \o parts[k]
      <3>1. k = 0 \/ k \in 1..n
        BY <1>1
      <3> QED BY <1>6, <2>1, <3>1 DEF IsLoop
    <2> QED BY <1>6, <2>2 DEF IsLoop
  <1>8. Loop(text)
    <2> HIDE DEF Loop
    <2> QED BY <1>7
  <1>9. Joined(parts) = text[n]
    BY Zenon DEF Joined, n
  <1> HIDE DEF text
  <1>10. text[0] = << >> /\ \A k \in 1..n : text[k] = text[k - 1] \o parts[k]
    <2>1. 0 \in 0..n /\ \A k \in 1..n : k \in 0..n /\ k # 0
      BY <1>1
    <2> QED BY <1>8, <2>1
  <1>11. text \in [0..n -> Seq(A)]
    <2> DEFINE T == {k \in 0..n : text[k] \in Seq(A)}
    <2>1. 0 \in T
      <3>1. 0 \in 0..n /\ text[0] \in Seq(A)
        BY <1>1, <1>4, <1>10
      <3> QED BY <3>1
    <2>2. ASSUME NEW k \in 1..n, k - 1 \in T PROVE k \in T
      <3>1. k \in 0..n
        BY <1>1
      <3>2. text[k] = text[k - 1] \o parts[k] /\ text[k - 1] \in Seq(A) /\ parts[k] \in Seq(A)
        BY <1>1, <1>10, <2>2
      <3> QED BY <3>1, <3>2, ConcatProperties
    <2>3. \A k \in 0..n : k \in T
      <3> HIDE DEF T
      <3> QED BY <1>1, <2>1, <2>2, UpTo
    <2>4. \A k \in 0..n : text[k] \in Seq(A)
      BY <2>3
    <2> QED BY <1>8, <2>4
  <1> QED BY <1>9, <1>10, <1>11 DEF IsJoined, n

(* What a side wrote in its changes, one after the other                     *)
Written(changes) == [i \in DOMAIN changes |-> changes[i].new]

(* It is as many sequences of lines as there are changes.                    *)
LEMMA WrittenParts ==
    ASSUME NEW A, NEW changes \in Seq(Changes(A))
    PROVE  /\ Written(changes) \in Seq(Seq(A)) /\ Len(Written(changes)) = Len(changes)
           /\ \A k \in 1..Len(changes) :
                 Written(changes)[k] = changes[k].new /\ changes[k].new \in Seq(A)
PROOF
  <1>1. PICK n \in Nat : n = Len(changes) /\ DOMAIN changes = 1..n
    BY LenProperties
  <1>2. \A k \in 1..n : changes[k] \in Changes(A)
    BY <1>1, ElementOfSeq
  <1>3. \A k \in 1..n : changes[k].new \in Seq(A)
    BY <1>2 DEF Changes
  <1>4. Written(changes) = [i \in 1..n |-> changes[i].new]
    BY <1>1 DEF Written
  <1>5. Written(changes) \in [1..n -> Seq(A)]
    BY <1>3, <1>4
  <1>6. PICK w \in [1..n -> Seq(A)] : w = Written(changes)
    BY <1>5
  <1>7. w \in Seq(Seq(A)) /\ Len(w) = n
    BY <1>1, SeqDef, LenProperties
  <1> QED BY <1>1, <1>3, <1>4, <1>6, <1>7

(* A turn of the merge that writes a change writes its lines: the last of    *)
(* them are the change's own.                                                *)
LEMMA TakenHolds ==
    ASSUME NEW L, NEW text \in Seq(L), NEW pos \in Nat, NEW c \in ChangesUpTo(L, Len(text)),
           NEW w \in Seq(L), Within(w, c.new)
    PROVE  Taken(text, pos, c) \in Seq(L) /\ Within(w, Taken(text, pos, c))
PROOF
  <1>1. c.at \in Nat /\ c.at <= Len(text) /\ c.new \in Seq(L) /\ Len(text) \in Nat
    BY LenProperties DEF ChangesUpTo, Changes
  <1>2. SubSeq(text, pos + 1, c.at) \in Seq(L)
    <2>1. \A i \in (pos + 1)..c.at : text[i] \in L
      BY <1>1, LenProperties
    <2> QED BY <1>1, <2>1, SubSeqProperties
  <1>3. PICK l \in Seq(L), m \in Seq(L) : l = SubSeq(text, pos + 1, c.at) /\ m = c.new
    BY <1>1, <1>2
  <1>4. Taken(text, pos, c) = l \o m
    BY <1>3 DEF Taken
  <1>5. Within(w, m)
    BY <1>3
  <1> QED BY <1>4, <1>5, ConcatProperties, WithinLonger

(* The patched text holds all that the changes write.                        *)
LEMMA PatchedHolds ==
    ASSUME NEW L, NEW lines \in Seq(L), NEW changes \in Seq(Changes(L)),
           \A k \in DOMAIN changes : changes[k].at <= Len(lines)
    PROVE  /\ Joined(Written(changes)) \in Seq(L)
           /\ Within(Joined(Written(changes)), Patched(lines, changes))
PROOF
  <1> DEFINE n == Len(changes)
             at == Len(lines)
  <1>1. PICK wrote \in [0..Len(Written(changes)) -> Seq(L)] :
              /\ IsJoined(Written(changes), wrote)
              /\ Joined(Written(changes)) = wrote[Len(Written(changes))]
    BY WrittenParts, JoinedInSteps
  <1>2. /\ n \in Nat /\ Len(Written(changes)) = n /\ DOMAIN changes = 1..n
        /\ \A k \in 1..n : Written(changes)[k] = changes[k].new /\ changes[k].new \in Seq(L)
        /\ \A k \in 1..n : changes[k] \in Changes(L)
    BY WrittenParts, LenProperties, ElementOfSeq
  <1>3. /\ wrote[0] = << >> /\ wrote \in [0..n -> Seq(L)]
        /\ \A k \in 1..n : wrote[k] = wrote[k - 1] \o changes[k].new
        /\ Joined(Written(changes)) = wrote[n]
    BY <1>1, <1>2 DEF IsJoined
  <1>4. PICK text \in [0..n -> Seq(L)] :
              /\ IsWritten(lines, changes, text)
              /\ Patched(lines, changes) = text[n] \o
                    SubSeq(lines, Copied(changes, n + 1) + 1, Len(lines))
    BY PatchedInSteps
  <1>5. \A k \in 1..n : text[k] = text[k - 1] \o Taken(lines, Copied(changes, k), changes[k])
    BY <1>4 DEF IsWritten
  <1>6. ASSUME NEW k \in 1..(n + 1) PROVE Copied(changes, k) \in Nat
    <2>1. CASE k = 1
      BY <2>1 DEF Copied
    <2>2. CASE k # 1
      <3>1. k - 1 \in 1..n
        BY <1>2, <2>2
      <3> QED BY <1>2, <2>2, <3>1, EndIsNat DEF Copied
    <2> QED BY <2>1, <2>2
  <1> HIDE DEF n
  <1> DEFINE T == {k \in 0..n : Within(wrote[k], text[k])}
  <1>7. 0 \in T
    <2>1. 0 \in 0..n /\ text[0] \in Seq(L)
      BY <1>2
    <2> QED BY <1>3, <2>1, NothingWithin
  <1>8. ASSUME NEW k \in 1..n, k - 1 \in T PROVE k \in T
    <2>1. k \in 0..n /\ k - 1 \in 0..n /\ k \in 1..(n + 1)
      BY <1>2
    <2>2. PICK a \in Seq(L), b \in Seq(L) : a = wrote[k - 1] /\ b = text[k - 1] /\ Within(a, b)
      BY <1>3, <1>8, <2>1
    <2>3. PICK c \in Changes(L) : c = changes[k]
      BY <1>2
    <2>4. c \in ChangesUpTo(L, Len(lines)) /\ c.new \in Seq(L)
      BY <1>2, <2>3 DEF ChangesUpTo
    <2>5. PICK pos \in Nat : pos = Copied(changes, k)
      BY <1>6, <2>1
    <2>6. Within(c.new, c.new)
      <3>1. IsPrefix(c.new, c.new)
        BY <2>4, LenProperties DEF IsPrefix
      <3> QED BY <2>4, <3>1, PrefixWithin
    <2>7. PICK u \in Seq(L), v \in Seq(L) : u = c.new /\ v = Taken(lines, pos, c) /\ Within(u, v)
      BY <2>4, <2>6, TakenHolds
    <2>8. Within(a \o u, b \o v)
      BY <2>2, <2>7, ConcatWithin
    <2>9. wrote[k] = a \o u /\ text[k] = b \o v
      BY <1>3, <1>5, <2>2, <2>3, <2>5, <2>7
    <2> QED BY <2>1, <2>8, <2>9
  <1>9. Within(wrote[n], text[n])
    <2>1. \A k \in 0..n : k \in T
      <3> HIDE DEF T
      <3> QED BY <1>2, <1>7, <1>8, UpTo
    <2>2. n \in 0..n
      BY <1>2
    <2> QED BY <2>1, <2>2
  <1>10. PICK w \in Seq(L), l \in Seq(L) : w = wrote[n] /\ l = text[n]
    <2>1. n \in 0..n
      BY <1>2
    <2> QED BY <1>3, <2>1
  <1>11. PICK m \in Seq(L) : m = SubSeq(lines, Copied(changes, n + 1) + 1, Len(lines))
    <2>1. PICK pos \in Nat : pos = Copied(changes, n + 1)
      <3>1. n + 1 \in 1..(n + 1)
        BY <1>2
      <3> QED BY <1>6, <3>1
    <2>2. Len(lines) \in Nat /\ \A i \in (pos + 1)..Len(lines) : lines[i] \in L
      BY LenProperties
    <2>3. SubSeq(lines, pos + 1, Len(lines)) \in Seq(L)
      BY <2>2, SubSeqProperties
    <2> QED BY <2>1, <2>3
  <1>12. Within(w, l \o m)
    BY <1>9, <1>10, WithinLonger
  <1> QED BY <1>3, <1>4, <1>10, <1>11, <1>12 DEF n

(* Of two changes that start at the same line, what is written holds ours.   *)
LEMMA SameHolds ==
    ASSUME NEW L, NEW C, C \subseteq Changes(L), NEW a \in C, NEW b \in C
    PROVE  /\ SameStart(a, b).change \in C /\ Within(a.new, SameStart(a, b).change.new)
           /\ SameStart(a, b).pos \in Nat
PROOF
  <1>1. a.new \in Seq(L) /\ b.new \in Seq(L) /\ a.at \in Nat /\ End(a) \in Nat /\ End(b) \in Nat
    BY EndIsNat DEF Changes
  <1> DEFINE late == IF End(a) > End(b) THEN End(a) ELSE End(b)
             keep(c, pos, clash) == [change |-> c, pos |-> pos, clash |-> clash]
  <1>2. late \in Nat
    BY <1>1
  <1>3. \/ IsPrefix(a.new, b.new) /\ SameStart(a, b) = keep(b, a.at, 0)
        \/ SameStart(a, b) = keep(a, End(a), 0)
        \/ SameStart(a, b) = keep(a, a.at, 0) \/ SameStart(a, b) = keep(a, late, 1)
    BY DEF SameStart
  <1> HIDE DEF late
  <1>4. \A c, pos, clash : keep(c, pos, clash).change = c /\ keep(c, pos, clash).pos = pos
    OBVIOUS
  <1> HIDE DEF keep
  <1>5. Within(a.new, a.new)
    <2>1. IsPrefix(a.new, a.new)
      BY <1>1, LenProperties DEF IsPrefix
    <2> QED BY <1>1, <2>1, PrefixWithin
  <1>6. IsPrefix(a.new, b.new) => Within(a.new, b.new)
    BY <1>1, PrefixWithin
  <1>7. CASE IsPrefix(a.new, b.new) /\ SameStart(a, b) = keep(b, a.at, 0)
    BY <1>1, <1>4, <1>6, <1>7
  <1>8. CASE \/ SameStart(a, b) = keep(a, End(a), 0)
             \/ SameStart(a, b) = keep(a, a.at, 0) \/ SameStart(a, b) = keep(a, late, 1)
    BY <1>1, <1>2, <1>4, <1>5, <1>8
  <1> QED BY <1>3, <1>7, <1>8

(* What a turn does to the changes left and to the lines written             *)
OursTurn(L, was, next) ==
    /\ was.ours # << >> /\ next.ours = Tail(was.ours)
    /\ next.theirs = was.theirs \/ (was.theirs # << >> /\ next.theirs = Tail(was.theirs))
    /\ \E part \in Seq(L) : next.lines = was.lines \o part /\ Within(Head(was.ours).new, part)

TheirsTurn(L, was, next) ==
    /\ was.theirs # << >> /\ next.ours = was.ours /\ next.theirs = Tail(was.theirs)
    /\ \E part \in Seq(L) : next.lines = was.lines \o part

(* A turn takes a change of ours and writes what it says, or one of theirs;  *)
(* when none is left it does nothing.                                        *)
LEMMA TurnHolds ==
    ASSUME NEW L, NEW text \in Seq(L), NEW was \in Turns(L, Len(text))
    PROVE  \/ was.ours = << >> /\ was.theirs = << >> /\ Turn(text, was) = was
           \/ OursTurn(L, was, Turn(text, was))
           \/ TheirsTurn(L, was, Turn(text, was))
PROOF
  <1> DEFINE C == ChangesUpTo(L, Len(text))
             who == WhoStarts(was.ours, was.theirs)
             next == Turn(text, was)
  <1>1. PICK o \in Seq(C), t \in Seq(C), p \in Nat : o = was.ours /\ t = was.theirs /\ p = was.pos
    BY DEF Turns
  <1>2. C \subseteq Changes(L) /\ \A c \in C : c.new \in Seq(L)
    BY DEF ChangesUpTo, Changes
  <1>3. \A s \in Seq(C) : s # << >> => Head(s) \in C /\ Tail(s) \in Seq(C)
    BY HeadTailProperties
  <1>4. ASSUME NEW c \in C, NEW w \in Seq(L), Within(w, c.new)
        PROVE  Taken(text, p, c) \in Seq(L) /\ Within(w, Taken(text, p, c))
    BY <1>4, TakenHolds
  <1>5. \A c \in C : Within(c.new, c.new)
    <2> SUFFICES ASSUME NEW c \in C PROVE Within(c.new, c.new)
      OBVIOUS
    <2>1. c.new \in Seq(L)
      BY <1>2
    <2>2. IsPrefix(c.new, c.new)
      BY <2>1, LenProperties DEF IsPrefix
    <2> QED BY <2>1, <2>2, PrefixWithin
  <1> HIDE DEF C
  <1>7. CASE o = << >> /\ t = << >>
    BY <1>1, <1>7 DEF Turn
  <1>8. CASE ~ (o = << >> /\ t = << >>) /\ who = "ours"
    <2>1. o # << >>
      BY <1>1, <1>8 DEF WhoStarts
    <2>2. next = Write(text, was, Head(o), End(Head(o)), 0, Tail(o), t)
      BY <1>1, <1>8 DEF Turn
    <2>3. PICK c \in C : c = Head(o)
      BY <1>3, <2>1
    <2>4. next.ours = Tail(o) /\ next.theirs = t /\ next.lines = was.lines \o Taken(text, p, c)
      <3> HIDE DEF next
      <3>1. next = Write(text, was, c, End(c), 0, Tail(o), t)
        BY <2>2, <2>3
      <3>2. PICK x, k, e, u, v : x = next /\ x = Write(text, was, c, k, e, u, v) /\ u = Tail(o) /\ v = t
        BY <3>1, Zenon
      <3>3. x.ours = u /\ x.theirs = v /\ x.lines = was.lines \o Taken(text, p, c)
        <4>1. PICK l, q : l = was.lines \o Taken(text, p, c) /\ q = was.conflicts + e
          OBVIOUS
        <4>2. x = [ours |-> u, theirs |-> v, pos |-> k, lines |-> l, conflicts |-> q]
          BY <1>1, <3>2, <4>1, Zenon DEF Write
        <4> QED BY <4>1, <4>2
      <3> QED BY <3>2, <3>3
    <2>5. Taken(text, p, c) \in Seq(L) /\ Within(c.new, Taken(text, p, c))
      BY <1>2, <1>4, <1>5
    <2>6. OursTurn(L, was, next)
      <3> HIDE DEF next
      <3> QED BY <1>1, <2>1, <2>3, <2>4, <2>5 DEF OursTurn
    <2> QED BY <2>6
  <1>9. CASE ~ (o = << >> /\ t = << >>) /\ who = "theirs"
    <2>1. t # << >>
      BY <1>1, <1>9 DEF WhoStarts
    <2>2. next = Write(text, was, Head(t), End(Head(t)), 0, o, Tail(t))
      BY <1>1, <1>9 DEF Turn
    <2>3. PICK c \in C : c = Head(t)
      BY <1>3, <2>1
    <2>4. next.ours = o /\ next.theirs = Tail(t) /\ next.lines = was.lines \o Taken(text, p, c)
      <3> HIDE DEF next
      <3>1. next = Write(text, was, c, End(c), 0, o, Tail(t))
        BY <2>2, <2>3
      <3>2. PICK x, k, e, u, v : x = next /\ x = Write(text, was, c, k, e, u, v) /\ u = o /\ v = Tail(t)
        BY <3>1, Zenon
      <3>3. x.ours = u /\ x.theirs = v /\ x.lines = was.lines \o Taken(text, p, c)
        <4>1. PICK l, q : l = was.lines \o Taken(text, p, c) /\ q = was.conflicts + e
          OBVIOUS
        <4>2. x = [ours |-> u, theirs |-> v, pos |-> k, lines |-> l, conflicts |-> q]
          BY <1>1, <3>2, <4>1, Zenon DEF Write
        <4> QED BY <4>1, <4>2
      <3> QED BY <3>2, <3>3
    <2>5. Taken(text, p, c) \in Seq(L)
      BY <1>2, <1>4, <1>5
    <2>6. TheirsTurn(L, was, next)
      <3> HIDE DEF next
      <3> QED BY <1>1, <2>1, <2>4, <2>5 DEF TheirsTurn
    <2> QED BY <2>6
  <1>10. CASE ~ (o = << >> /\ t = << >>) /\ who = "both"
    <2>1. o # << >> /\ t # << >>
      BY <1>1, <1>10 DEF WhoStarts
    <2>2. PICK a \in C, b \in C : a = Head(o) /\ b = Head(t)
      BY <1>3, <2>1
    <2> DEFINE same == SameStart(a, b)
    <2>3. next = Write(text, was, same.change, same.pos, same.clash, Tail(o), Tail(t))
      BY <1>1, <1>10, <2>2 DEF Turn
    <2>4. PICK c \in C : c = same.change /\ Within(a.new, c.new)
      BY <1>2, SameHolds
    <2> HIDE DEF same
    <2>5. next.ours = Tail(o) /\ next.theirs = Tail(t) /\ next.lines = was.lines \o Taken(text, p, c)
      <3> HIDE DEF next
      <3>1. next = Write(text, was, c, same.pos, same.clash, Tail(o), Tail(t))
        BY <2>3, <2>4
      <3>2. PICK x, k, e, u, v : x = next /\ x = Write(text, was, c, k, e, u, v) /\ u = Tail(o) /\ v = Tail(t)
        BY <3>1, Zenon
      <3>3. x.ours = u /\ x.theirs = v /\ x.lines = was.lines \o Taken(text, p, c)
        <4>1. PICK l, q : l = was.lines \o Taken(text, p, c) /\ q = was.conflicts + e
          OBVIOUS
        <4>2. x = [ours |-> u, theirs |-> v, pos |-> k, lines |-> l, conflicts |-> q]
          BY <1>1, <3>2, <4>1, Zenon DEF Write
        <4> QED BY <4>1, <4>2
      <3> QED BY <3>2, <3>3
    <2>6. Taken(text, p, c) \in Seq(L) /\ Within(a.new, Taken(text, p, c))
      BY <1>2, <1>4, <2>4
    <2>7. OursTurn(L, was, next)
      <3> HIDE DEF next
      <3> QED BY <1>1, <2>1, <2>2, <2>5, <2>6 DEF OursTurn
    <2> QED BY <2>7
  <1>11. who \in {"ours", "theirs", "both"}
    BY DEF WhoStarts
  <1> QED BY <1>7, <1>8, <1>9, <1>10, <1>11

(* The changes of a side that are left after its first c                     *)
IsRest(all, c, rest) ==
    /\ c \in 0..Len(all) /\ Len(rest) = Len(all) - c
    /\ \A i \in 1..Len(rest) : rest[i] = all[c + i]

(* Taking the next of them leaves one less.                                  *)
LEMMA RestAfter ==
    ASSUME NEW C, NEW all \in Seq(C), NEW c \in Nat, NEW rest \in Seq(C), IsRest(all, c, rest), rest # << >>
    PROVE  /\ rest[1] = all[c + 1] /\ c + 1 \in 1..Len(all)
           /\ Tail(rest) \in Seq(C) /\ IsRest(all, c + 1, Tail(rest)) /\ Len(Tail(rest)) = Len(rest) - 1
PROOF
  <1>1. PICK n \in Nat, r \in Nat, d \in Nat : n = Len(all) /\ r = Len(rest) /\ d = c /\ d <= n /\ r = n - d
    BY LenProperties DEF IsRest
  <1>2. r # 0
    BY <1>1, EmptySeq
  <1>3. 1 \in 1..r /\ d + 1 \in 1..n /\ d + 1 \in 0..n /\ n - (d + 1) = r - 1
    BY <1>1, <1>2
  <1>5. rest[1] = all[d + 1]
    BY <1>1, <1>3 DEF IsRest
  <1>6. PICK u \in Seq(C) : u = Tail(rest) /\ Len(u) = r - 1 /\ \A i \in 1..(r - 1) : u[i] = rest[i + 1]
    <2>1. /\ Tail(rest) \in Seq(C) /\ Len(Tail(rest)) = Len(rest) - 1
          /\ \A i \in 1..Len(Tail(rest)) : Tail(rest)[i] = rest[i + 1]
      BY HeadTailProperties
    <2>2. PICK u \in Seq(C) : u = Tail(rest)
      BY <2>1
    <2> QED BY <1>1, <2>1, <2>2
  <1>7. ASSUME NEW i \in 1..(r - 1) PROVE u[i] = all[(d + 1) + i]
    <2>1. i + 1 \in 1..r /\ d + (i + 1) = (d + 1) + i
      BY <1>1
    <2>2. rest[i + 1] = all[d + (i + 1)]
      BY <1>1, <2>1 DEF IsRest
    <2> QED BY <1>6, <2>1, <2>2
  <1>8. IsRest(all, d + 1, u)
    BY <1>1, <1>3, <1>6, <1>7 DEF IsRest
  <1> QED BY <1>1, <1>3, <1>5, <1>6, <1>8

(* The loop of the merge writes what our changes write, whatever the changes *)
(* of the other side are.                                                    *)
LEMMA WalkHolds ==
    ASSUME NEW L, NEW text \in Seq(L),
           NEW o \in Seq(ChangesUpTo(L, Len(text))), NEW t \in Seq(ChangesUpTo(L, Len(text)))
    PROVE  Within(Joined(Written(o)), MergeChanges(text, o, t).lines)
PROOF
  <1> DEFINE n == Len(o) + Len(t)
             C == ChangesUpTo(L, Len(text))
             m == Len(o)
  <1>1. PICK walk \in [0..n -> Turns(L, Len(text))] :
              /\ IsWalk(text, o, t, walk)
              /\ MergeChanges(text, o, t) = Merged(text, walk[n])
    BY WalkInSteps
  <1>2. m \in Nat /\ n \in Nat /\ Len(t) \in Nat /\ m = Len(o) /\ n = m + Len(t)
    BY LenProperties
  <1>3. o \in Seq(Changes(L)) /\ \A c \in C : c.new \in Seq(L)
    <2>1. C \subseteq Changes(L)
      BY DEF ChangesUpTo
    <2>2. \A i \in 1..Len(o) : o[i] \in Changes(L)
      BY <2>1, ElementOfSeq
    <2>3. \A c \in Changes(L) : c.new \in Seq(L)
      BY DEF Changes
    <2> QED BY <2>1, <2>2, <2>3, LenProperties
  <1>4. PICK wrote \in [0..m -> Seq(L)] :
              /\ wrote[0] = << >> /\ Joined(Written(o)) = wrote[m]
              /\ \A k \in 1..m : wrote[k] = wrote[k - 1] \o o[k].new
    <2>1. /\ Written(o) \in Seq(Seq(L)) /\ Len(Written(o)) = m
          /\ \A k \in 1..m : Written(o)[k] = o[k].new
      BY <1>3, WrittenParts
    <2>2. PICK wrote \in [0..Len(Written(o)) -> Seq(L)] :
              /\ IsJoined(Written(o), wrote)
              /\ Joined(Written(o)) = wrote[Len(Written(o))]
      BY <2>1, JoinedInSteps
    <2> QED BY <2>1, <2>2 DEF IsJoined
  <1>5. ASSUME NEW k \in 0..n
        PROVE  \E u \in Seq(C), v \in Seq(C), l \in Seq(L), p \in Nat :
                  u = walk[k].ours /\ v = walk[k].theirs /\ l = walk[k].lines /\ p = walk[k].pos
    BY <1>1 DEF Turns
  <1>6. /\ walk[0].ours = o /\ walk[0].theirs = t /\ walk[0].lines = << >>
        /\ \A k \in 1..n : walk[k] = Turn(text, walk[k - 1])
    <2>1. walk[0] = [ours |-> o, theirs |-> t, pos |-> 0, lines |-> << >>, conflicts |-> 0]
      BY <1>1 DEF IsWalk
    <2> QED BY <1>1, <2>1 DEF IsWalk
  <1> HIDE DEF n, m, C
  <1> DEFINE Holds(k, c) == /\ IsRest(o, c, walk[k].ours)
                            /\ Within(wrote[c], walk[k].lines)
                            /\ Len(walk[k].ours) + Len(walk[k].theirs) <= n - k
             T == {k \in 0..n : \E c \in 0..m : Holds(k, c)}
  <1>7. 0 \in T
    <2>1. 0 \in 0..m /\ 0 \in 0..n /\ m + Len(t) <= n - 0
      BY <1>2
    <2>2. IsRest(o, 0, o)
      BY <1>2 DEF IsRest
    <2>3. Within(<< >>, << >>)
      BY EmptySeq, NothingWithin
    <2>4. Holds(0, 0)
      BY <1>2, <1>4, <1>6, <2>1, <2>2, <2>3
    <2> HIDE DEF Holds
    <2> QED BY <2>1, <2>4
  <1>8. ASSUME NEW k \in 1..n, k - 1 \in T PROVE k \in T
    <2>1. k \in 0..n /\ k - 1 \in 0..n /\ k \in Nat
      BY <1>2
    <2>2. PICK c \in 0..m : Holds(k - 1, c)
      <3>1. \A i \in T : \E c \in 0..m : Holds(i, c)
        OBVIOUS
      <3> HIDE DEF Holds, T
      <3> QED BY <1>8, <3>1
    <2>3. PICK was \in Turns(L, Len(text)), next \in Turns(L, Len(text)) :
              was = walk[k - 1] /\ next = walk[k] /\ next = Turn(text, was)
      BY <1>1, <1>6, <2>1
    <2>4. PICK u \in Seq(C), v \in Seq(C), l \in Seq(L) :
              u = was.ours /\ v = was.theirs /\ l = was.lines
      BY DEF Turns, C
    <2>5. /\ IsRest(o, c, u) /\ Within(wrote[c], l)
          /\ Len(u) + Len(v) <= n - (k - 1) /\ Len(u) \in Nat /\ Len(v) \in Nat
      BY <2>2, <2>3, <2>4, LenProperties
    <2>6. \E d \in 0..m : /\ IsRest(o, d, next.ours) /\ Within(wrote[d], next.lines)
                          /\ Len(next.ours) + Len(next.theirs) <= n - k
      <3>1. CASE was.ours = << >> /\ was.theirs = << >> /\ next = was
        <4>1. Len(u) = 0 /\ Len(v) = 0
          BY <2>4, <3>1, EmptySeq
        <4>2. Len(u) + Len(v) <= n - k
          BY <1>2, <2>1, <4>1
        <4> QED BY <2>4, <2>5, <3>1, <4>2
      <3>2. CASE OursTurn(L, was, next)
        <4>1. PICK a \in Seq(C), w \in Seq(C), part \in Seq(L) :
                  /\ u # << >> /\ a = Tail(u) /\ next.ours = a /\ next.theirs = w
                  /\ w = v \/ (v # << >> /\ w = Tail(v))
                  /\ next.lines = l \o part /\ Within(Head(u).new, part)
          <5>1. u # << >> /\ Tail(u) \in Seq(C) /\ (v # << >> => Tail(v) \in Seq(C))
            BY <2>4, <3>2, HeadTailProperties DEF OursTurn
          <5> QED BY <2>4, <3>2, <5>1 DEF OursTurn
        <4>2. /\ Head(u) = o[c + 1] /\ c + 1 \in 1..m /\ IsRest(o, c + 1, a) /\ Len(a) = Len(u) - 1
          <5>1. o \in Seq(C)
            BY DEF C
          <5>2. /\ Head(u) = o[c + 1] /\ c + 1 \in 1..Len(o)
                /\ IsRest(o, c + 1, Tail(u)) /\ Len(Tail(u)) = Len(u) - 1
            <6>1. u \in Seq(C) /\ IsRest(o, c, u) /\ u # << >> /\ c \in Nat
              BY <2>5, <4>1
            <6>2. u[1] = o[c + 1]
              BY <5>1, <6>1, RestAfter
            <6> QED BY <5>1, <6>1, <6>2, RestAfter
          <5> QED BY <4>1, <5>2 DEF m
        <4>3. Len(w) <= Len(v) /\ Len(w) \in Nat
          BY <2>5, <4>1, HeadTailProperties, LenProperties
        <4>4. Len(a) + Len(w) <= n - k
          BY <1>2, <2>1, <2>5, <4>2, <4>3
        <4>5. PICK x \in Seq(L), y \in Seq(L) : x = wrote[c] /\ y = Head(u).new
          <5>1. Head(u) \in C
            BY <4>1, HeadTailProperties
          <5> QED BY <1>3, <1>4, <5>1
        <4>6. Within(x \o y, l \o part)
          BY <2>5, <4>1, <4>5, ConcatWithin
        <4>7. wrote[c + 1] = x \o y
          <5>1. (c + 1) - 1 = c
            OBVIOUS
          <5> QED BY <1>4, <4>2, <4>5, <5>1
        <4>8. c + 1 \in 0..m
          BY <1>2, <4>2
        <4> QED BY <4>1, <4>2, <4>4, <4>6, <4>7, <4>8
      <3>3. CASE TheirsTurn(L, was, next)
        <4>1. PICK w \in Seq(C), part \in Seq(L) :
                  /\ v # << >> /\ w = Tail(v) /\ Len(w) = Len(v) - 1
                  /\ next.ours = u /\ next.theirs = w /\ next.lines = l \o part
          <5>1. v # << >>
            BY <2>4, <3>3 DEF TheirsTurn
          <5>2. PICK w \in Seq(C) : w = Tail(v) /\ Len(w) = Len(v) - 1
            BY <5>1, HeadTailProperties
          <5> QED BY <2>4, <3>3, <5>1, <5>2 DEF TheirsTurn
        <4>2. Within(wrote[c], l \o part)
          <5>1. wrote[c] \in Seq(L)
            BY <1>4
          <5> QED BY <2>5, <5>1, WithinLonger
        <4>3. Len(u) + Len(w) <= n - k
          BY <1>2, <2>1, <2>5, <4>1
        <4> QED BY <2>5, <4>1, <4>2, <4>3
      <3> QED BY <2>3, <3>1, <3>2, <3>3, TurnHolds
    <2>7. \E d \in 0..m : Holds(k, d)
      BY <2>3, <2>6
    <2> HIDE DEF Holds
    <2> QED BY <2>1, <2>7
  <1>9. PICK c \in 0..m : Holds(n, c)
    <2>1. \A k \in 0..n : k \in T
      <3> HIDE DEF T
      <3> QED BY <1>2, <1>7, <1>8, UpTo
    <2>2. n \in 0..n
      BY <1>2
    <2>3. n \in T
      BY <2>1, <2>2
    <2>4. \A i \in T : \E c \in 0..m : Holds(i, c)
      OBVIOUS
    <2> HIDE DEF Holds, T
    <2> QED BY <2>3, <2>4
  <1>10. PICK u \in Seq(C), v \in Seq(C), l \in Seq(L), p \in Nat :
            u = walk[n].ours /\ v = walk[n].theirs /\ l = walk[n].lines /\ p = walk[n].pos
    <2>1. n \in 0..n
      BY <1>2
    <2> QED BY <1>5, <2>1
  <1>11. c = m
    <2>1. /\ Len(u) = m - c /\ Len(u) + Len(v) <= n - n /\ Len(u) \in Nat /\ Len(v) \in Nat
      BY <1>9, <1>10, LenProperties DEF IsRest, m
    <2> QED BY <1>2, <2>1
  <1>12. Within(wrote[m], l) /\ wrote[m] \in Seq(L)
    <2>1. m \in 0..m
      BY <1>2
    <2> QED BY <1>4, <1>9, <1>10, <1>11, <2>1
  <1>13. PICK s \in Seq(L) : s = SubSeq(text, p + 1, Len(text))
    <2>1. Len(text) \in Nat /\ \A i \in (p + 1)..Len(text) : text[i] \in L
      BY LenProperties
    <2>2. SubSeq(text, p + 1, Len(text)) \in Seq(L)
      BY <2>1, SubSeqProperties
    <2> QED BY <2>2
  <1>14. PICK k, j : k = walk[n].conflicts /\ j = l \o s
    OBVIOUS
  <1>15. MergeChanges(text, o, t) = [lines |-> j, conflicts |-> k]
    BY <1>1, <1>10, <1>13, <1>14 DEF Merged, n
  <1>16. MergeChanges(text, o, t).lines = l \o s
    BY <1>14, <1>15
  <1>17. Within(wrote[m], l \o s)
    BY <1>12, WithinLonger
  <1> QED BY <1>4, <1>16, <1>17

(* The changes of a diff of x start within it.                               *)
LEMMA DiffChanges ==
    ASSUME NEW L, NEW x \in TextsOver(L), NEW y \in TextsOver(L), NEW d \in DiffsOf(x, y)
    PROVE  /\ d.changes \in Seq(ChangesUpTo(L, Len(x.lines))) /\ d.changes \in Seq(Changes(L))
           /\ \A k \in DOMAIN d.changes : d.changes[k].at <= Len(x.lines)
PROOF
  <1>1. d \in Diffs(L) /\ d.reach <= Len(x.lines)
    BY DiffReproduces DEF Applicable
  <1>2. /\ d.changes \in Seq(Changes(L)) /\ d.reach \in Nat /\ Len(x.lines) \in Nat
        /\ \A k \in DOMAIN d.changes : d.changes[k].at <= d.reach
    BY <1>1, LenProperties DEF Diffs, TextsOver
  <1>3. ASSUME NEW k \in DOMAIN d.changes
        PROVE  d.changes[k] \in ChangesUpTo(L, Len(x.lines)) /\ d.changes[k].at <= Len(x.lines)
    <2>1. PICK c \in Changes(L) : c = d.changes[k]
      BY <1>2, ElementOfSeq, LenProperties
    <2>2. c.at \in Nat /\ c.at <= d.reach
      BY <1>2, <2>1 DEF Changes
    <2> QED BY <1>1, <1>2, <2>1, <2>2 DEF ChangesUpTo
  <1> QED BY <1>2, <1>3, LenProperties

(* Whichever path the merge takes, the lines that the merged text gives hold *)
(* what ours wrote.                                                          *)
LEMMA MergeHolds ==
    ASSUME NEW L, NEW x \in TextsOver(L), NEW o \in TextsOver(L), NEW t \in TextsOver(L),
           NEW p \in DiffsOf(x, o), NEW q \in DiffsOf(x, t)
    PROVE  /\ Joined(Written(p.changes)) \in Seq(L)
           /\ \E lines \in Seq(L) :
                 /\ Gives(MergeTexts(x, o, t, p, q).text, lines, x.ends \/ o.ends \/ t.ends)
                 /\ Within(Joined(Written(p.changes)), lines)
PROOF
  <1> DEFINE walk == MergeChanges(x.lines, p.changes, q.changes)
             ends == x.ends \/ o.ends \/ t.ends
             wrote == Joined(Written(p.changes))
             result == MergeTexts(x, o, t, p, q)
             made(text, k) == [text |-> text, conflicts |-> k]
  <1>1. /\ x.lines \in Seq(L) /\ o.lines \in Seq(L) /\ t.lines \in Seq(L)
        /\ ends \in BOOLEAN /\ (o.ends => ends) /\ (t.ends => ends)
    BY DEF TextsOver
  <1>2. /\ p.changes \in Seq(ChangesUpTo(L, Len(x.lines)))
        /\ q.changes \in Seq(ChangesUpTo(L, Len(x.lines)))
        /\ p.changes \in Seq(Changes(L))
        /\ \A k \in DOMAIN p.changes : p.changes[k].at <= Len(x.lines)
    BY DiffChanges
  <1>3. wrote \in Seq(L) /\ Within(wrote, Patched(x.lines, p.changes))
    BY <1>1, <1>2, PatchedHolds
  <1>4. Patched(x.lines, p.changes) = o.lines
    BY DiffReproduces DEF ApplyDiff
  <1>5. Within(wrote, walk.lines)
    BY <1>1, <1>2, WalkHolds
  <1>6. \/ result = made(Terminated(o, ends), 0)
        \/ x = o /\ result = made(Terminated(t, ends), 0)
        \/ result = made(Text(walk.lines, ends), walk.conflicts)
    BY Zenon DEF MergeTexts
  <1>7. x = o => Within(wrote, t.lines)
    <2> SUFFICES ASSUME x = o PROVE Within(wrote, t.lines)
      OBVIOUS
    <2>1. p = [changes |-> << >>, reach |-> 0]
      BY DEF DiffsOf
    <2>2. p.changes = << >>
      BY <2>1
    <2>3. Len(Written(p.changes)) = 0 /\ Written(p.changes) \in Seq(Seq(L))
      BY <1>2, <2>2, WrittenParts, EmptySeq
    <2>4. wrote = << >>
      <3>1. PICK text \in [0..Len(Written(p.changes)) -> Seq(L)] :
                IsJoined(Written(p.changes), text) /\ wrote = text[Len(Written(p.changes))]
        BY <2>3, JoinedInSteps
      <3> HIDE DEF wrote
      <3> QED BY <2>3, <3>1 DEF IsJoined
    <2> HIDE DEF wrote
    <2> QED BY <1>1, <2>4, NothingWithin
  <1>8. walk.lines \in Seq(L)
    BY <1>1, <1>2, WalkIsText
  <1> HIDE DEF walk, ends, wrote
  <1>9. \E lines \in Seq(L) : Gives(result.text, lines, ends) /\ Within(wrote, lines)
    <2>1. CASE result = made(Terminated(o, ends), 0)
      <3>1. Gives(Terminated(o, ends), o.lines, ends)
        BY <1>1, TerminatedIsText
      <3>2. result.text = Terminated(o, ends)
        BY <2>1
      <3> HIDE DEF result, made
      <3> QED BY <1>1, <1>3, <1>4, <3>1, <3>2
    <2>2. CASE x = o /\ result = made(Terminated(t, ends), 0)
      <3>1. Gives(Terminated(t, ends), t.lines, ends)
        BY <1>1, TerminatedIsText
      <3>2. result.text = Terminated(t, ends)
        BY <2>2
      <3> HIDE DEF result, made
      <3> QED BY <1>1, <1>7, <2>2, <3>1, <3>2
    <2>3. CASE result = made(Text(walk.lines, ends), walk.conflicts)
      <3>1. Gives(Text(walk.lines, ends), walk.lines, ends)
        BY <1>1, <1>8, JoinedGives
      <3>2. result.text = Text(walk.lines, ends)
        BY <2>3
      <3> HIDE DEF result, made
      <3> QED BY <1>5, <1>8, <3>1, <3>2
    <2> QED BY <1>6, <2>1, <2>2, <2>3
  <1> HIDE DEF result
  <1> QED BY <1>3, <1>9 DEF wrote, result, ends

(* What our side wrote is in the merged text, in order, whatever the other   *)
(* side did and wherever the two clash, but for a blank last line that the   *)
(* joining of the lines loses: of merge_texts, for all texts and every       *)
(* longest alignment.                                                        *)
THEOREM OursAlwaysSurvives == Session => []OursSurvives
PROOF
  <1>1. ASSUME SessionInv PROVE OursSurvives
    <2> DEFINE wrote == Joined(Written(diffOurs.changes))
    <2> SUFFICES ASSUME merged # Unmerged
                 PROVE  \E lines \in {merged.text.lines, Append(merged.text.lines, Blank)} :
                            Gives(merged.text, lines, Closed) /\ HoldLines(lines, wrote)
      BY Zenon DEF OursSurvives, Written
    <2> DEFINE L == LinesOf(Bases \cup Edits)
    <2>1. /\ base \in TextsOver(L) /\ ours \in TextsOver(L) /\ theirs \in TextsOver(L)
          /\ diffOurs \in DiffsOf(base, ours) /\ diffTheirs \in DiffsOf(base, theirs)
          /\ merged = MergeTexts(base, ours, theirs, diffOurs, diffTheirs)
      BY <1>1 DEF SessionInv
    <2> HIDE DEF L
    <2>2. /\ wrote \in Seq(L)
          /\ \E lines \in Seq(L) : Gives(merged.text, lines, Closed) /\ Within(wrote, lines)
      BY <2>1, MergeHolds DEF Closed
    <2>3. PICK w \in Seq(L) : w = wrote
      BY <2>2
    <2>4. PICK l \in Seq(L) : Gives(merged.text, l, Closed) /\ Within(w, l)
      BY <2>2, <2>3
    <2>5. HoldLines(l, w)
      <3>1. \E S \in SUBSET DOMAIN l :
                /\ Cardinality(S) = Len(w)
                /\ \A k \in DOMAIN w : l[Ascending(S)[k]] = w[k]
        BY <2>4, WithinPositions
      <3> QED BY <3>1 DEF HoldLines
    <2>6. l \in {merged.text.lines, Append(merged.text.lines, Blank)}
      BY <2>4 DEF Gives
    <2> HIDE DEF wrote
    <2> QED BY <2>3, <2>4, <2>5, <2>6
  <1> QED BY <1>1, SessionInvariant, PTL

-----------------------------------------------------------------------------
(* Changes that lie apart *)

(* From place s, where it is w and what is copied after e, to place q a text *)
(* grows by the lines themselves, without those up to e.                     *)
GrowsByLines(lines, g, w, s, q, e) ==
    /\ g[s] = w \o SubSeq(lines, e + 1, s)
    /\ \A i \in (s + 1)..q : g[i] = g[i - 1] \o (IF i > e THEN <<lines[i]>> ELSE << >>)

(* w and what is copied after e up to q                                      *)
CopiedTo(lines, w, e, q) == w \o SubSeq(lines, e + 1, q)

(* So it is w and what is copied after e.                                    *)
LEMMA CopiedOn ==
    ASSUME NEW L, NEW lines \in Seq(L), NEW w \in Seq(L), NEW e \in Nat, NEW s \in Nat,
           NEW q \in s..Len(lines), NEW g, GrowsByLines(lines, g, w, s, q, e)
    PROVE  g[q] = CopiedTo(lines, w, e, q)
PROOF
  <1> DEFINE d == q - s
             T == {k \in 0..d : g[s + k] = w \o SubSeq(lines, e + 1, s + k)}
  <1>1. Len(lines) \in Nat /\ q \in Nat /\ q <= Len(lines) /\ d \in Nat /\ s + d = q
    BY LenProperties
  <1>2. 0 \in T
    <2>1. s + 0 = s /\ 0 \in 0..d
      BY <1>1
    <2> QED BY <2>1 DEF GrowsByLines
  <1>3. ASSUME NEW k \in 1..d, k - 1 \in T PROVE k \in T
    <2>1. PICK i \in Nat : i = s + k /\ s + (k - 1) = i - 1 /\ i \in (s + 1)..q /\ i \in 1..Len(lines)
      <3>1. s + k \in (s + 1)..q /\ s + k \in 1..Len(lines) /\ s + (k - 1) = (s + k) - 1
        BY <1>1
      <3> QED BY <3>1
    <2>2. PICK u \in Seq(L) : u = SubSeq(lines, e + 1, i - 1) /\ g[i - 1] = w \o u
      <3>1. \A j \in (e + 1)..(i - 1) : lines[j] \in L
        BY <2>1, LenProperties
      <3>2. SubSeq(lines, e + 1, i - 1) \in Seq(L)
        BY <2>1, <3>1, SubSeqProperties
      <3>3. g[s + (k - 1)] = w \o SubSeq(lines, e + 1, s + (k - 1))
        BY <1>3
      <3> QED BY <2>1, <3>2, <3>3
    <2>3. g[i] = w \o SubSeq(lines, e + 1, i)
      <3>1. CASE i > e
        <4>1. e + 1 \in 1..Len(lines) /\ i \in (e + 1)..Len(lines)
          BY <2>1, <3>1
        <4>2. SubSeq(lines, e + 1, i) = u \o <<lines[i]>>
          BY <2>2, <4>1, SubSeqRecursiveSecond
        <4>3. PICK one \in Seq(L) : one = <<lines[i]>>
          <5>1. PICK x \in L : x = lines[i]
            BY <2>1, ElementOfSeq
          <5>2. <<x>> \in Seq(L)
            OBVIOUS
          <5> QED BY <5>1, <5>2
        <4>4. g[i] = (w \o u) \o one
          BY <2>1, <2>2, <3>1, <4>3 DEF GrowsByLines
        <4>5. (w \o u) \o one = w \o (u \o one)
          BY ConcatAssociative
        <4> QED BY <4>2, <4>3, <4>4, <4>5
      <3>2. CASE ~ (i > e)
        <4>1. SubSeq(lines, e + 1, i) = << >> /\ u = << >>
          BY <2>1, <2>2, <3>2, SubSeqEmpty
        <4>2. g[i] = (w \o u) \o << >>
          BY <2>1, <2>2, <3>2 DEF GrowsByLines
        <4> QED BY <4>1, <4>2, ConcatEmptySeq
      <3> QED BY <3>1, <3>2
    <2>4. s + k = i /\ k \in 0..d
      BY <1>1, <2>1
    <2> QED BY <2>3, <2>4
  <1>4. \A k \in 0..d : k \in T
    <2> HIDE DEF T
    <2> QED BY <1>1, <1>2, <1>3, UpTo
  <1>5. d \in 0..d
    BY <1>1
  <1>6. d \in T
    BY <1>4, <1>5
  <1>7. g[q] = w \o SubSeq(lines, e + 1, q)
    BY <1>1, <1>6
  <1> QED BY <1>7, Zenon DEF CopiedTo

(* Changes of a text of n lines, none of which touches another               *)
ChangesIn(L, n) == {c \in Changes(L) : End(c) <= n}
AllDistinct(changes) == \A c, d \in changes : c # d => Apart(c, d)

(* The reference text from place to place: its first i places make sofar[i]. *)
IsLaid(lines, changes, sofar) ==
    /\ sofar[0] = << >>
    /\ \A i \in 1..(Len(lines) + 1) : sofar[i] = sofar[i - 1] \o Placed(lines, changes, i)

LaidOut(lines, changes) == Joined([i \in 1..(Len(lines) + 1) |-> Placed(lines, changes, i)])

(* What is at a place is lines.                                              *)
LEMMA PlacedIsLines ==
    ASSUME NEW L, NEW lines \in Seq(L), NEW E \in SUBSET Changes(L), NEW i \in 1..(Len(lines) + 1)
    PROVE  Placed(lines, E, i) \in Seq(L)
PROOF
  <1> DEFINE here == {c \in E : c.at = i - 1}
             kept == i <= Len(lines) /\ \A c \in E : ~(c.at < i /\ i <= End(c))
             a == IF here = {} THEN << >> ELSE (CHOOSE c \in here : TRUE).new
             b == IF kept THEN <<lines[i]>> ELSE << >>
  <1>1. a \in Seq(L)
    <2>1. CASE here = {}
      BY <2>1, EmptySeq
    <2>2. CASE here # {}
      <3>1. PICK c \in here : c = CHOOSE d \in here : TRUE
        BY <2>2
      <3>2. c.new \in Seq(L)
        BY <3>1 DEF Changes
      <3> HIDE DEF here
      <3> QED BY <2>2, <3>1, <3>2
    <2> QED BY <2>1, <2>2
  <1>2. b \in Seq(L)
    <2>1. CASE kept
      <3>1. i \in 1..Len(lines)
        BY <2>1, LenProperties
      <3>2. lines[i] \in L
        BY <3>1, ElementOfSeq
      <3> HIDE DEF kept
      <3> QED BY <2>1, <3>2
    <2>2. CASE ~ kept
      <3> HIDE DEF kept
      <3> QED BY <2>2, EmptySeq
    <2> QED BY <2>1, <2>2
  <1>3. Placed(lines, E, i) = a \o b
    BY Zenon DEF Placed
  <1> HIDE DEF a, b
  <1> QED BY <1>1, <1>2, <1>3, ConcatProperties

(* The reference goes through its places.                                    *)
LEMMA LaidInSteps ==
    ASSUME NEW L, NEW lines \in Seq(L), NEW E \in SUBSET Changes(L)
    PROVE  \E sofar \in [0..(Len(lines) + 1) -> Seq(L)] :
              IsLaid(lines, E, sofar) /\ LaidOut(lines, E) = sofar[Len(lines) + 1]
PROOF
  <1> DEFINE parts == [i \in 1..(Len(lines) + 1) |-> Placed(lines, E, i)]
  <1>1. PICK n \in Nat : n = Len(lines) + 1
    BY LenProperties
  <1>2. parts \in [1..n -> Seq(L)] /\ \A i \in 1..n : parts[i] = Placed(lines, E, i)
    BY <1>1, PlacedIsLines
  <1>3. LaidOut(lines, E) = Joined(parts)
    BY DEF LaidOut
  <1> HIDE DEF parts
  <1>4. parts \in Seq(Seq(L)) /\ Len(parts) = n
    BY <1>1, <1>2, SeqDef, LenProperties
  <1>5. PICK text \in [0..Len(parts) -> Seq(L)] :
            IsJoined(parts, text) /\ Joined(parts) = text[Len(parts)]
    BY <1>4, JoinedInSteps
  <1>6. IsLaid(lines, E, text)
    BY <1>1, <1>2, <1>4, <1>5 DEF IsJoined, IsLaid
  <1> QED BY <1>1, <1>3, <1>4, <1>5, <1>6

(* Where a change starts, the reference has what it writes, and goes on with *)
(* the line itself if the change drops none.                                 *)
LEMMA PlacedChange ==
    ASSUME NEW L, NEW lines \in Seq(L), NEW E \in SUBSET ChangesIn(L, Len(lines)), AllDistinct(E),
           NEW c \in E
    PROVE  Placed(lines, E, c.at + 1)
              = c.new \o (IF c.at + 1 <= Len(lines) /\ c.at + 1 > End(c)
                          THEN <<lines[c.at + 1]>> ELSE << >>)
PROOF
  <1>1. ASSUME NEW d \in E PROVE d.at \in Nat /\ End(d) \in Nat /\ d.at <= End(d) /\ End(d) <= Len(lines)
    <2>1. d.at \in Nat /\ d.drop \in Nat /\ End(d) <= Len(lines)
      BY DEF ChangesIn, Changes
    <2> QED BY <2>1 DEF End
  <1>2. PICK i \in Nat : i = c.at + 1 /\ i - 1 = c.at
    BY <1>1
  <1> DEFINE here == {d \in E : d.at = i - 1}
             kept == i <= Len(lines) /\ \A d \in E : ~(d.at < i /\ i <= End(d))
  <1>3. here = {c}
    <2>1. c \in here
      BY <1>2
    <2>2. \A d \in E : d # c => d.at # c.at
      BY DEF AllDistinct, Apart
    <2> QED BY <1>2, <2>1, <2>2
  <1>4. kept <=> i <= Len(lines) /\ i > End(c)
    <2>1. ASSUME NEW d \in E, d.at < i, i <= End(d) PROVE d = c
      <3>1. SUFFICES ASSUME d # c PROVE FALSE
        OBVIOUS
      <3>2. d.at # c.at /\ (End(d) <= c.at \/ End(c) <= d.at)
        BY <3>1 DEF AllDistinct, Apart
      <3> QED BY <1>1, <1>2, <2>1, <3>2
    <2>2. c.at < i
      BY <1>1, <1>2
    <2>3. (\A d \in E : ~(d.at < i /\ i <= End(d))) <=> ~ (i <= End(c))
      BY <2>1, <2>2
    <2> QED BY <1>1, <1>2, <2>3
  <1>5. Placed(lines, E, i)
           = (IF here = {} THEN << >> ELSE (CHOOSE d \in here : TRUE).new)
                \o (IF kept THEN <<lines[i]>> ELSE << >>)
    BY Zenon DEF Placed
  <1>6. here # {} /\ (CHOOSE d \in here : TRUE) = c
    BY <1>3
  <1> HIDE DEF here, kept
  <1>7. Placed(lines, E, i) = c.new \o (IF kept THEN <<lines[i]>> ELSE << >>)
    BY <1>5, <1>6
  <1>8. (IF kept THEN <<lines[i]>> ELSE << >>)
           = (IF i <= Len(lines) /\ i > End(c) THEN <<lines[i]>> ELSE << >>)
    BY <1>4, Zenon
  <1> QED BY <1>2, <1>7, <1>8

(* Where none starts, it has the line itself if no change before drops it.   *)
LEMMA PlacedLine ==
    ASSUME NEW L, NEW lines \in Seq(L), NEW E, NEW i \in 1..(Len(lines) + 1), NEW e \in Nat,
           \A d \in E : d.at # i - 1,
           (\E d \in E : d.at < i /\ i <= End(d)) <=> i <= e
    PROVE  Placed(lines, E, i) = (IF i <= Len(lines) /\ i > e THEN <<lines[i]>> ELSE << >>)
PROOF
  <1> DEFINE here == {d \in E : d.at = i - 1}
             kept == i <= Len(lines) /\ \A d \in E : ~(d.at < i /\ i <= End(d))
             one == IF i <= Len(lines) /\ i > e THEN <<lines[i]>> ELSE << >>
  <1>1. here = {}
    OBVIOUS
  <1>2. kept <=> i <= Len(lines) /\ i > e
    <2>1. (\A d \in E : ~(d.at < i /\ i <= End(d))) <=> ~ (i <= e)
      OBVIOUS
    <2> QED BY <2>1, LenProperties
  <1>3. Placed(lines, E, i)
           = (IF here = {} THEN << >> ELSE (CHOOSE d \in here : TRUE).new)
                \o (IF kept THEN <<lines[i]>> ELSE << >>)
    BY Zenon DEF Placed
  <1> HIDE DEF here, kept
  <1>4. Placed(lines, E, i) = << >> \o (IF kept THEN <<lines[i]>> ELSE << >>)
    BY <1>1, <1>3
  <1>5. (IF kept THEN <<lines[i]>> ELSE << >>) = one
    BY <1>2, Zenon
  <1>6. one \in Seq(L)
    <2>1. i <= Len(lines) => lines[i] \in L
      BY ElementOfSeq, LenProperties
    <2> QED BY <2>1, EmptySeq
  <1> HIDE DEF one
  <1>7. << >> \o one = one
    BY <1>6, ConcatEmptySeq
  <1> QED BY <1>4, <1>5, <1>7 DEF one

(* l is what is written of the reference, up to pos, when the changes left   *)
(* are still to come: with the lines copied up to q it is the reference's    *)
(* first q places, if the changes done are those that start before q.        *)
Laying(lines, E, sofar, left, pos, l) ==
    LET n == Len(lines)
    IN  /\ left \subseteq E /\ pos \in 0..n
        /\ \A c \in E \ left : End(c) <= pos
        /\ \A c \in left : pos <= c.at
        /\ \A q \in pos..n :
              (\A c \in E : c.at < q <=> c \notin left) => l \o SubSeq(lines, pos + 1, q) = sofar[q]
        /\ (\E c \in E \ left : c.at = n) => pos = n /\ l = sofar[n + 1]

(* A change lies in its text.                                                *)
LEMMA ChangeLies ==
    ASSUME NEW L, NEW n \in Nat, NEW c \in ChangesIn(L, n)
    PROVE  c.at \in Nat /\ End(c) \in Nat /\ c.at <= End(c) /\ End(c) <= n /\ c.new \in Seq(L)
PROOF
  <1>1. c.at \in Nat /\ c.drop \in Nat /\ c.new \in Seq(L) /\ End(c) <= n
    BY DEF ChangesIn, Changes
  <1> QED BY <1>1 DEF End

(* Nothing is written before the first change.                               *)
LEMMA LayingStarts ==
    ASSUME NEW L, NEW lines \in Seq(L), NEW E \in SUBSET ChangesIn(L, Len(lines)),
           NEW sofar \in [0..(Len(lines) + 1) -> Seq(L)], IsLaid(lines, E, sofar)
    PROVE  Laying(lines, E, sofar, E, 0, << >>)
PROOF
  <1>1. PICK n \in Nat : n = Len(lines)
    BY LenProperties
  <1>2. \A c \in E : c.at \in Nat /\ 0 <= c.at
    BY <1>1, ChangeLies
  <1>3. << >> \in Seq(L)
    BY EmptySeq
  <1>4. ASSUME NEW q \in 0..n, \A c \in E : c.at < q <=> c \notin E
        PROVE  << >> \o SubSeq(lines, 0 + 1, q) = sofar[q]
    <2>1. ASSUME NEW i \in (0 + 1)..q
          PROVE  sofar[i] = sofar[i - 1] \o (IF i > 0 THEN <<lines[i]>> ELSE << >>)
      <3>1. i \in 1..(n + 1) /\ i <= n /\ i > 0 /\ i <= q /\ ~ (i <= 0)
        BY <1>1
      <3>2. \A c \in E : ~ (c.at < q)
        BY <1>4
      <3>3. \A c \in E : ~ (c.at < i) /\ c.at # i - 1
        BY <1>2, <3>1, <3>2
      <3>4. Placed(lines, E, i) = (IF i <= Len(lines) /\ i > 0 THEN <<lines[i]>> ELSE << >>)
        BY <1>1, <3>1, <3>3, PlacedLine
      <3> QED BY <1>1, <3>1, <3>4 DEF IsLaid
    <2>2. SubSeq(lines, 0 + 1, 0) = << >> /\ << >> \o << >> = << >>
      BY <1>3, SubSeqEmpty, ConcatEmptySeq
    <2>3. sofar[0] = << >> \o SubSeq(lines, 0 + 1, 0)
      BY <2>2 DEF IsLaid
    <2>4. GrowsByLines(lines, sofar, << >>, 0, q, 0)
      BY <2>1, <2>3 DEF GrowsByLines
    <2>5. q \in 0..Len(lines) /\ 0 \in Nat
      BY <1>1
    <2>6. sofar[q] = CopiedTo(lines, << >>, 0, q)
      BY <1>3, <2>4, <2>5, CopiedOn
    <2> QED BY <2>6 DEF CopiedTo
  <1>5. 0 \in 0..n
    BY <1>1
  <1> QED BY <1>1, <1>2, <1>4, <1>5 DEF Laying

(* When no change is left, the rest of the lines completes the reference.    *)
LEMMA LayingEnds ==
    ASSUME NEW L, NEW lines \in Seq(L), NEW E \in SUBSET ChangesIn(L, Len(lines)),
           NEW sofar \in [0..(Len(lines) + 1) -> Seq(L)], IsLaid(lines, E, sofar),
           NEW pos, NEW l \in Seq(L), Laying(lines, E, sofar, {}, pos, l)
    PROVE  CopiedTo(lines, l, pos, Len(lines)) = sofar[Len(lines) + 1]
PROOF
  <1>1. PICK n \in Nat : n = Len(lines)
    BY LenProperties
  <1>2. pos \in 0..n /\ pos \in Nat
    BY <1>1 DEF Laying
  <1>3. ASSUME \E c \in E : c.at = n
        PROVE  l \o SubSeq(lines, pos + 1, Len(lines)) = sofar[Len(lines) + 1]
    <2>1. pos = n /\ l = sofar[n + 1]
      BY <1>1, <1>3 DEF Laying
    <2>2. SubSeq(lines, n + 1, n) = << >>
      BY <1>1, SubSeqEmpty
    <2>3. l \o << >> = l
      BY ConcatEmptySeq
    <2> QED BY <1>1, <2>1, <2>2, <2>3
  <1>4. ASSUME ~ \E c \in E : c.at = n
        PROVE  l \o SubSeq(lines, pos + 1, Len(lines)) = sofar[Len(lines) + 1]
    <2>1. \A c \in E : c.at < n
      <3> SUFFICES ASSUME NEW c \in E PROVE c.at < n
        OBVIOUS
      <3>1. c.at \in Nat /\ c.at <= End(c) /\ End(c) <= n /\ End(c) \in Nat /\ c.at # n
        BY <1>1, <1>4, ChangeLies
      <3> QED BY <1>1, <3>1
    <2>2. n \in pos..n
      BY <1>1, <1>2
    <2>3. l \o SubSeq(lines, pos + 1, n) = sofar[n]
      BY <1>1, <2>1, <2>2 DEF Laying
    <2>4. PICK i \in 1..(n + 1) : i = n + 1 /\ i - 1 = n /\ ~ (i <= n)
      <3>1. n + 1 \in 1..(n + 1) /\ (n + 1) - 1 = n /\ ~ (n + 1 <= n)
        BY <1>1
      <3> QED BY <3>1
    <2>5. Placed(lines, E, i) = (IF i <= Len(lines) /\ i > n THEN <<lines[i]>> ELSE << >>)
      <3>1. \A c \in E : c.at # i - 1
        BY <1>4, <2>4
      <3>2. ASSUME NEW c \in E PROVE ~ (i <= End(c))
        <4>1. End(c) \in Nat /\ End(c) <= n
          BY <1>1, ChangeLies
        <4> QED BY <1>1, <2>4, <4>1
      <3>3. (\E d \in E : d.at < i /\ i <= End(d)) <=> i <= n
        BY <2>4, <3>2
      <3> QED BY <1>1, <3>1, <3>3, PlacedLine
    <2>6. sofar[i] = sofar[n] \o << >>
      BY <1>1, <2>4, <2>5 DEF IsLaid
    <2>7. sofar[n] \in Seq(L)
      BY <1>1
    <2> QED BY <1>1, <2>3, <2>4, <2>6, <2>7, ConcatEmptySeq
  <1>5. l \o SubSeq(lines, pos + 1, Len(lines)) = sofar[Len(lines) + 1]
    BY <1>3, <1>4
  <1> QED BY <1>5, Zenon DEF CopiedTo

(* l with what is written up to change c and for it                          *)
Onwards(lines, l, pos, c) == l \o Taken(lines, pos, c)

(* c starts before the changes of others.                                    *)
StartsBefore(c, others) == \A d \in others : c.at < d.at

(* c is the first of the changes left, and after is left after it.           *)
FirstOf(left, c, after) == c \in left /\ after = left \ {c} /\ StartsBefore(c, after)

(* The next change written: the lines before it are copied, and the reference *)
(* goes on after what it drops.                                              *)
LEMMA LayingGoesOn ==
    ASSUME NEW L, NEW lines \in Seq(L), NEW E \in SUBSET ChangesIn(L, Len(lines)), AllDistinct(E),
           NEW sofar \in [0..(Len(lines) + 1) -> Seq(L)], IsLaid(lines, E, sofar),
           NEW left, NEW pos, NEW l \in Seq(L), Laying(lines, E, sofar, left, pos, l),
           NEW c, NEW rest, FirstOf(left, c, rest)
    PROVE  /\ Onwards(lines, l, pos, c) \in Seq(L)
           /\ Laying(lines, E, sofar, rest, End(c), Onwards(lines, l, pos, c))
PROOF
  <1>0. \A u, v, z \in Seq(L) : (u \o v) \o z = u \o (v \o z)
    <2> TAKE u, v, z \in Seq(L)
    <2> QED BY ConcatAssociative
  <1>1. rest = left \ {c} /\ c \in left /\ \A d \in rest : c.at < d.at
    BY DEF FirstOf, StartsBefore
  <1>2. PICK n \in Nat : n = Len(lines) /\ n \in Nat
    BY LenProperties
  <1>3. /\ left \subseteq E /\ pos \in 0..n /\ pos \in Nat
        /\ \A d \in E \ left : End(d) <= pos
        /\ \A d \in left : pos <= d.at
    BY <1>2 DEF Laying
  <1>4. \A d \in E : /\ d.at \in Nat /\ End(d) \in Nat /\ d.at <= End(d) /\ End(d) <= n
                     /\ d.new \in Seq(L)
    BY <1>2, ChangeLies
  <1>5. c \in E
    BY <1>1, <1>3
  <1>6. \A d \in E : d # c => d.at # c.at /\ (End(d) <= c.at \/ End(c) <= d.at)
    BY <1>5 DEF AllDistinct, Apart
  <1>7. ASSUME NEW d \in E \ left PROVE d.at < c.at
    <2>1. End(d) <= pos /\ pos <= c.at /\ d # c
      BY <1>1, <1>3
    <2> QED BY <1>3, <1>4, <1>5, <1>6, <2>1
  <1>8. PICK at \in Nat, e \in Nat, s \in Nat :
            /\ at = c.at /\ e = End(c) /\ s = at + 1 /\ s - 1 = at
            /\ at \in Nat /\ e \in Nat /\ s \in Nat
            /\ at <= n /\ at <= e /\ e <= n /\ pos <= at
    <2>1. PICK a \in Nat, b \in Nat : a = c.at /\ b = End(c)
      BY <1>4, <1>5
    <2>2. a + 1 \in Nat /\ (a + 1) - 1 = a
      OBVIOUS
    <2>3. a <= b /\ b <= n /\ pos <= a
      <3>1. c.at <= End(c) /\ End(c) <= n /\ pos <= c.at
        <4>1. c.at <= End(c) /\ End(c) <= n
          BY <1>4, <1>5
        <4>2. pos <= c.at
          BY <1>1, <1>3
        <4> QED BY <4>1, <4>2
      <3> QED BY <2>1, <3>1
    <2>4. a <= n
      BY <1>2, <2>3
    <2> QED BY <2>1, <2>2, <2>3, <2>4
  <1>9. PICK part \in Seq(L), new \in Seq(L) : part = SubSeq(lines, pos + 1, at) /\ new = c.new
    <2>1. \A i \in (pos + 1)..at : lines[i] \in L
      BY <1>2, <1>3, <1>8, LenProperties
    <2>2. SubSeq(lines, pos + 1, at) \in Seq(L)
      BY <1>3, <2>1, SubSeqProperties
    <2> QED BY <1>4, <1>5, <2>2
  <1>10. l \o part = sofar[at]
    <2>1. at \in pos..n
      BY <1>2, <1>3, <1>8
    <2>2. \A d \in E : d.at < at <=> d \notin left
      <3> SUFFICES ASSUME NEW d \in E PROVE d.at < at <=> d \notin left
        OBVIOUS
      <3>1. d \notin left => d.at < at
        BY <1>7, <1>8
      <3>2. d \in left => ~ (d.at < at)
        <4>1. d = c \/ (d \in left => c.at < d.at)
          BY <1>1
        <4> QED BY <1>4, <1>5, <1>8, <4>1
      <3> QED BY <3>1, <3>2
    <2> QED BY <1>2, <1>9, <2>1, <2>2 DEF Laying
  <1>11. PICK w \in Seq(L) : w = Onwards(lines, l, pos, c) /\ w = sofar[at] \o new
    <2>1. (l \o part) \o new = l \o (part \o new)
      BY ConcatAssociative
    <2>2. Taken(lines, pos, c) = part \o new
      BY <1>8, <1>9 DEF Taken
    <2>3. l \o (part \o new) \in Seq(L)
      BY ConcatProperties
    <2>4. Onwards(lines, l, pos, c) = l \o (part \o new)
      BY <2>2, Zenon DEF Onwards
    <2> QED BY <1>10, <2>1, <2>3, <2>4
  <1>12. rest \subseteq E /\ e \in 0..n
    BY <1>1, <1>2, <1>3, <1>8
  <1>13. ASSUME NEW d \in E \ rest PROVE End(d) <= e
    <2>1. CASE d = c
      BY <1>8, <2>1
    <2>2. CASE d # c
      <3>1. d \in E \ left
        BY <1>1, <2>2
      <3> QED BY <1>3, <1>4, <1>8, <3>1
    <2> QED BY <2>1, <2>2
  <1>14. ASSUME NEW d \in rest PROVE e <= d.at
    <2>1. d \in E /\ d # c /\ c.at < d.at
      BY <1>1, <1>3
    <2> QED BY <1>4, <1>5, <1>6, <1>8, <2>1
  <1>15. Placed(lines, E, s) = new \o (IF s <= n /\ s > e THEN <<lines[s]>> ELSE << >>)
    BY <1>2, <1>5, <1>8, <1>9, PlacedChange
  <1>16. sofar[s] = sofar[at] \o Placed(lines, E, s)
    <2>1. s \in 1..(n + 1)
      BY <1>2, <1>8
    <2> QED BY <1>2, <1>8, <2>1 DEF IsLaid
  <1>17. sofar[at] \in Seq(L)
    BY <1>2, <1>8
  <1>18. ASSUME NEW q \in e..n, \A d \in E : d.at < q <=> d \notin rest
         PROVE  w \o SubSeq(lines, e + 1, q) = sofar[q]
    <2>1. q \in Nat /\ q <= n /\ s <= q
      <3>1. c.at < q
        BY <1>1, <1>5, <1>18
      <3> QED BY <1>2, <1>8, <3>1
    <2>2. sofar[s] = w \o SubSeq(lines, e + 1, s)
      <3>1. CASE s > e
        <4>1. e + 1 = s /\ s \in 1..Len(lines) /\ s <= n
          BY <1>2, <1>8, <2>1, <3>1
        <4>2. PICK x \in L : x = lines[s]
          BY <4>1, ElementOfSeq
        <4>3. SubSeq(lines, s, s) = <<x>>
          <5>1. SubSeq(lines, s, s) = SubSeq(lines, s, s - 1) \o <<lines[s]>>
            BY <4>1, SubSeqRecursiveSecond
          <5>2. SubSeq(lines, s, s - 1) = << >>
            BY SubSeqEmpty
          <5>3. <<x>> \in Seq(L)
            OBVIOUS
          <5> QED BY <4>2, <5>1, <5>2, <5>3, ConcatEmptySeq
        <4>4. PICK one \in Seq(L) : one = <<x>>
          <5>1. <<x>> \in Seq(L)
            OBVIOUS
          <5> QED BY <5>1
        <4>5. (sofar[at] \o new) \o one = sofar[at] \o (new \o one)
          <5>1. PICK u \in Seq(L) : u = sofar[at]
            BY <1>17
          <5>2. (u \o new) \o one = u \o (new \o one)
            BY <1>0
          <5> QED BY <5>1, <5>2
        <4>6. Placed(lines, E, s) = new \o one
          BY <1>15, <3>1, <4>1, <4>2, <4>4
        <4> QED BY <1>11, <1>16, <4>1, <4>3, <4>4, <4>5, <4>6
      <3>2. CASE ~ (s > e)
        <4>1. SubSeq(lines, e + 1, s) = << >>
          <5>1. e + 1 \in Int /\ s \in Int /\ s < e + 1
            BY <3>2
          <5> QED BY <5>1, SubSeqEmpty
        <4>2. Placed(lines, E, s) = new
          BY <1>15, <3>2, ConcatEmptySeq
        <4>3. w \o << >> = w
          BY ConcatEmptySeq
        <4> QED BY <1>11, <1>16, <4>1, <4>2, <4>3
      <3> QED BY <3>1, <3>2
    <2>3. ASSUME NEW i \in (s + 1)..q
          PROVE  sofar[i] = sofar[i - 1] \o (IF i > e THEN <<lines[i]>> ELSE << >>)
      <3>1. i \in 1..(n + 1) /\ i <= n /\ i <= q /\ s <= i - 1 /\ i \in Nat /\ at < i - 1
        <4>1. at \in Nat /\ s = at + 1 /\ s \in Nat /\ q \in Nat /\ q <= n
          BY <1>8, <2>1
        <4> QED BY <1>2, <2>3, <4>1
      <3>2. ASSUME NEW d \in E, d.at < i, d # c PROVE End(d) < i /\ d.at < at
        <4>1. d.at < q
          BY <1>4, <2>1, <3>1, <3>2
        <4>2. d \in E \ left
          BY <1>1, <1>18, <3>2, <4>1
        <4>3. d.at < at /\ End(d) <= pos
          BY <1>3, <1>7, <1>8, <4>2
        <4>4. End(d) \in Nat /\ d.at \in Nat /\ pos <= at /\ pos \in Nat
          BY <1>3, <1>4, <1>8
        <4>5. End(d) <= at /\ at < i /\ i \in Nat
          <5>1. at < i - 1 /\ i \in Nat
            BY <3>1
          <5>2. at < i
            BY <5>1
          <5> QED BY <4>3, <4>4, <5>1, <5>2
        <4> QED BY <4>3, <4>4, <4>5
      <3>3. ASSUME NEW d \in E PROVE d.at # i - 1
        <4>1. CASE d = c
          BY <1>8, <3>1, <4>1
        <4>2. CASE d # c
          <5>1. SUFFICES ASSUME d.at = i - 1 PROVE FALSE
            OBVIOUS
          <5>2. i - 1 < i /\ at < i - 1 /\ at \in Nat /\ i \in Nat
            BY <1>8, <3>1
          <5>3. d.at < i
            BY <5>1, <5>2
          <5>4. d.at < at
            BY <3>2, <4>2, <5>3
          <5> QED BY <5>1, <5>2, <5>4
        <4> QED BY <4>1, <4>2
      <3>4. (\E d \in E : d.at < i /\ i <= End(d)) <=> i <= e
        <4>1. ASSUME NEW d \in E, d.at < i, i <= End(d) PROVE i <= e
          <5>1. d = c
            BY <1>4, <3>1, <3>2, <4>1
          <5> QED BY <1>8, <4>1, <5>1
        <4>2. c.at < i
          BY <1>8, <3>1
        <4> QED BY <1>5, <1>8, <4>1, <4>2
      <3>5. Placed(lines, E, i) = (IF i <= Len(lines) /\ i > e THEN <<lines[i]>> ELSE << >>)
        BY <1>2, <1>8, <3>1, <3>3, <3>4, PlacedLine
      <3> QED BY <1>2, <3>1, <3>5 DEF IsLaid
    <2>4. GrowsByLines(lines, sofar, w, s, q, e)
      <3> QED BY <2>2, <2>3, Zenon DEF GrowsByLines
    <2>5. q \in s..Len(lines)
      BY <1>2, <1>8, <2>1
    <2>6. e \in Nat /\ s \in Nat
      BY <1>8
    <2>7. sofar[q] = w \o SubSeq(lines, e + 1, q)
      <3>1. PICK z \in s..Len(lines) : z = q
        BY <2>5
      <3>2. GrowsByLines(lines, sofar, w, s, z, e)
        BY <2>4, <3>1, Zenon
      <3>3. sofar[z] = w \o SubSeq(lines, e + 1, z)
        <4>1. sofar[z] = CopiedTo(lines, w, e, z)
          BY <2>6, <3>2, CopiedOn
        <4> QED BY <4>1 DEF CopiedTo
      <3> QED BY <3>1, <3>3
    <2> QED BY <2>7
  <1>19. ASSUME NEW d \in E \ rest, d.at = n PROVE e = n /\ w = sofar[n + 1]
    <2>1. d = c
      <3>1. SUFFICES ASSUME d # c PROVE FALSE
        OBVIOUS
      <3>2. d \in E \ left
        BY <1>1, <1>19, <3>1
      <3> QED BY <1>2, <1>7, <1>8, <1>19, <3>2
    <2>2. at = n /\ e = n /\ s = n + 1 /\ ~ (s <= n)
      BY <1>2, <1>8, <1>19, <2>1
    <2>3. Placed(lines, E, s) = new
      BY <1>15, <2>2, ConcatEmptySeq
    <2> QED BY <1>11, <1>16, <2>2, <2>3
  <1>20. Laying(lines, E, sofar, rest, e, w)
    <2> QED BY <1>2, <1>12, <1>13, <1>14, <1>18, <1>19 DEF Laying
  <1> QED BY <1>8, <1>11, <1>20

(* Each change ends before the next starts.                                  *)
InOrder(list) == \A i, j \in DOMAIN list : i < j => End(list[i]) < list[j].at

(* Between two changes of an alignment a line matches.                       *)
LEMMA ChangesInOrder ==
    ASSUME NEW L, NEW old \in Seq(L), NEW new \in Seq(L), NEW n \in Nat, NEW a, NEW b,
           IsAligned(old, new, n, a, b), NEW list, IsChangeList(new, n, a, b, list)
    PROVE  InOrder(list)
PROOF
  <1> DEFINE S == ChangedAt(n, a, b)
             N == Cardinality(S)
             at == Ascending(S)
  <1>1. S \in SUBSET (1..(n + 1))
    BY DEF ChangedAt
  <1>2. /\ N \in Nat /\ at \in [1..N -> S]
        /\ \A i, j \in 1..N : i < j => at[i] < at[j]
    <2>1. n + 1 \in Nat
      OBVIOUS
    <2> HIDE DEF S
    <2> QED BY <1>1, <2>1, AscendingOrders
  <1>3. /\ list \in Seq(Changes(L)) /\ Len(list) = N
        /\ \A i \in 1..N : list[i].at = a[at[i] - 1] /\ End(list[i]) = Past(a, at[i])
    BY ChangeListed DEF IsChange
  <1>4. /\ a \in [0..(n + 1) -> Nat] /\ \A k \in 1..(n + 1) : a[k - 1] < a[k]
        /\ \A j \in 0..(n + 1) : \A i \in 0..j : a[i] <= a[j]
    <2>1. \A j \in 0..(n + 1) : \A i \in 0..j : a[i] <= a[j]
      BY AlignedIn
    <2>2. a \in [0..(n + 1) -> Nat] /\ \A k \in 1..(n + 1) : a[k - 1] < a[k]
      BY DEF IsAligned
    <2> QED BY <2>1, <2>2
  <1>5. DOMAIN list = 1..N
    BY <1>3, LenProperties
  <1> HIDE DEF S, N, at
  <1> SUFFICES ASSUME NEW i \in 1..N, NEW j \in 1..N, i < j PROVE End(list[i]) < list[j].at
    BY <1>5 DEF InOrder
  <1>6. PICK k \in 1..(n + 1), l \in 1..(n + 1) : k = at[i] /\ l = at[j] /\ k < l
    <2>1. at[i] \in 1..(n + 1) /\ at[j] \in 1..(n + 1) /\ at[i] < at[j]
      BY <1>1, <1>2
    <2> QED BY <2>1
  <1>7. PICK u \in Nat, v \in Nat, z \in Nat : u = a[k - 1] /\ v = a[k] /\ z = a[l - 1] /\ u < v /\ v <= z
    <2>1. k - 1 \in 0..(n + 1) /\ k \in 0..(l - 1) /\ l - 1 \in 0..(n + 1) /\ k \in 0..(n + 1)
      BY <1>6
    <2>2. a[k - 1] \in Nat /\ a[k] \in Nat /\ a[l - 1] \in Nat
      BY <1>4, <2>1
    <2>3. a[k - 1] < a[k] /\ a[k] <= a[l - 1]
      BY <1>4, <2>1
    <2> QED BY <2>2, <2>3
  <1>8. End(list[i]) = v - 1 /\ list[j].at = z
    BY <1>3, <1>6, <1>7 DEF Past
  <1> QED BY <1>7, <1>8

(* The changes of a diff are changes of the old text in order, and there are *)
(* some unless the texts are the same.                                       *)
LEMMA DiffInOrder ==
    ASSUME NEW L, NEW x \in TextsOver(L), NEW y \in TextsOver(L), NEW d \in DiffsOf(x, y)
    PROVE  /\ d.changes \in Seq(ChangesIn(L, Len(x.lines))) /\ InOrder(d.changes)
           /\ x = y => d = [changes |-> << >>, reach |-> 0]
           /\ x # y => d.changes # << >>
PROOF
  <1> DEFINE C == ChangesIn(L, Len(x.lines))
  <1>1. x.lines \in Seq(L) /\ y.lines \in Seq(L) /\ Len(x.lines) \in Nat
    BY LenProperties DEF TextsOver
  <1>2. CASE x = y
    <2>1. d.changes = << >> /\ d = [changes |-> << >>, reach |-> 0]
      BY <1>2 DEF DiffsOf
    <2>2. << >> \in Seq(C) /\ DOMAIN << >> = {}
      BY EmptySeq
    <2>3. InOrder(<< >>)
      BY <2>2 DEF InOrder
    <2> QED BY <1>2, <2>1, <2>2, <2>3
  <1>3. CASE x # y
    <2> DEFINE changes(m) == ChangesOf(x, y, m)
               end(m) == Last(changes(m)).at + Last(changes(m)).drop + Context
    <2>1. PICK m \in Alignments(x, y) :
              d = [changes |-> changes(m),
                   reach |-> IF end(m) > Len(x.lines) THEN Len(x.lines) ELSE end(m)]
      BY <1>3 DEF DiffsOf
    <2>2. m \in Common(x, y)
      BY DEF Alignments
    <2> DEFINE n == Cardinality(m[1])
               a == Aligned(m[1], Len(x.lines))
               b == Aligned(m[2], Len(y.lines))
               list == changes(m)
    <2>3. n \in Nat /\ IsAligned(x.lines, y.lines, n, a, b) /\ IsChangeList(y.lines, n, a, b, list)
      BY <2>2, ChangesAligned
    <2>4. list # << >>
      BY <1>3, <2>2, NothingToChange
    <2> HIDE DEF n, a, b, changes, list
    <2>5. /\ list \in Seq(Changes(L))
          /\ \A i \in DOMAIN list : End(list[i]) <= Len(x.lines)
      BY <1>1, <2>3, ChangesAscend
    <2>6. InOrder(list)
      BY <1>1, <2>3, ChangesInOrder
    <2>7. \A i \in 1..Len(list) : list[i] \in C
      BY <2>5, ElementOfSeq, LenProperties DEF ChangesIn
    <2>8. list \in Seq(C)
      BY <2>5, <2>7, LenProperties
    <2>9. PICK s, r : s = list /\ r = (IF end(m) > Len(x.lines) THEN Len(x.lines) ELSE end(m))
      OBVIOUS
    <2>10. d = [changes |-> s, reach |-> r]
      BY <2>1, <2>9 DEF list
    <2>11. d.changes = list
      BY <2>9, <2>10
    <2> QED BY <1>3, <2>4, <2>6, <2>8, <2>11
  <1> QED BY <1>2, <1>3

(* The changes of a list that are left after its first c                     *)
LeftOf(list, c) == {list[i] : i \in (c + 1)..Len(list)}

(* What is left after c lies beyond a place before the next change.          *)
LEMMA LeftBeyond ==
    ASSUME NEW L, NEW n \in Nat, NEW list \in Seq(ChangesIn(L, n)), InOrder(list),
           NEW c \in 0..Len(list), NEW place \in Nat, c = Len(list) \/ place < list[c + 1].at
    PROVE  \A y \in LeftOf(list, c) : place < y.at
PROOF
  <1>1. PICK s \in Nat : s = Len(list) /\ c \in Nat
    BY LenProperties
  <1>2. \A i \in 1..s : list[i].at \in Nat /\ End(list[i]) \in Nat /\ list[i].at <= End(list[i])
    BY <1>1, ElementOfSeq, ChangeLies
  <1>3. \A i, j \in 1..s : i < j => End(list[i]) < list[j].at
    BY <1>1, LenProperties DEF InOrder
  <1> SUFFICES ASSUME NEW i \in (c + 1)..s PROVE place < list[i].at
    BY <1>1 DEF LeftOf
  <1>4. PICK k \in 1..s : k = c + 1 /\ place < list[k].at /\ i \in 1..s /\ (k = i \/ k < i)
    <2>1. c + 1 \in 1..s /\ i \in 1..s /\ (c + 1 = i \/ c + 1 < i) /\ c # s
      BY <1>1
    <2> QED BY <1>1, <2>1
  <1>5. CASE k = i
    BY <1>4, <1>5
  <1>6. CASE k < i
    <2>1. list[k].at \in Nat /\ End(list[k]) \in Nat /\ list[i].at \in Nat
      BY <1>2, <1>4
    <2>2. list[k].at <= End(list[k]) /\ End(list[k]) < list[i].at
      BY <1>2, <1>3, <1>4, <1>6
    <2> QED BY <1>4, <2>1, <2>2
  <1> QED BY <1>4, <1>5, <1>6

(* The next change of a list, if it starts before all of F, is the first of  *)
(* what is left of both.                                                     *)
LEMMA NextOfList ==
    ASSUME NEW L, NEW n \in Nat, NEW list \in Seq(ChangesIn(L, n)), InOrder(list),
           NEW c \in Nat, c + 1 \in 1..Len(list),
           NEW F, StartsBefore(list[c + 1], F)
    PROVE  FirstOf(LeftOf(list, c) \cup F, list[c + 1], LeftOf(list, c + 1) \cup F)
PROOF
  <1>1. PICK s \in Nat : s = Len(list)
    BY LenProperties
  <1>2. PICK k \in 1..s : k = c + 1
    BY <1>1
  <1>3. PICK next \in ChangesIn(L, n) : next = list[k]
    BY <1>1, ElementOfSeq
  <1>4. next.at \in Nat /\ End(next) \in Nat /\ next.at <= End(next)
    BY ChangeLies
  <1>5. \A y \in LeftOf(list, k) : next.at < y.at
    <2>1. k \in 0..Len(list)
      BY <1>1
    <2>2. k = Len(list) \/ next.at < list[k + 1].at
      <3>1. CASE k = s
        BY <1>1, <3>1
      <3>2. CASE k # s
        <4>1. k + 1 \in 1..s /\ k < k + 1
          BY <3>2
        <4>2. End(next) < list[k + 1].at
          BY <1>1, <1>3, <4>1, LenProperties DEF InOrder
        <4>3. list[k + 1] \in ChangesIn(L, n)
          BY <1>1, <4>1, ElementOfSeq
        <4>4. list[k + 1].at \in Nat
          BY <4>3, ChangeLies
        <4> QED BY <1>4, <4>2, <4>4
      <3> QED BY <3>1, <3>2
    <2> QED BY <1>4, <2>1, <2>2, LeftBeyond
  <1>6. LeftOf(list, c) = LeftOf(list, k) \cup {next}
    <2>1. (c + 1)..s = ((k + 1)..s) \cup {k}
      BY <1>2
    <2> QED BY <1>1, <1>2, <1>3, <2>1 DEF LeftOf
  <1>7. \A y \in LeftOf(list, k) \cup F : next.at < y.at
    <2>1. \A y \in F : list[c + 1].at < y.at
      BY DEF StartsBefore
    <2> QED BY <1>2, <1>3, <1>5, <2>1
  <1>8. next \notin LeftOf(list, k) \cup F
    <2>1. ~ (next.at < next.at)
      BY <1>4
    <2> QED BY <1>7, <2>1
  <1>9. FirstOf(LeftOf(list, c) \cup F, next, LeftOf(list, k) \cup F)
    BY <1>6, <1>7, <1>8 DEF FirstOf, StartsBefore
  <1> QED BY <1>2, <1>3, <1>9

(* Applied in order, changes make the reference.                             *)
LEMMA PatchedLands ==
    ASSUME NEW L, NEW lines \in Seq(L), NEW list \in Seq(ChangesIn(L, Len(lines))), InOrder(list)
    PROVE  Patched(lines, list) = LaidOut(lines, LeftOf(list, 0))
PROOF
  <1> DEFINE E == LeftOf(list, 0)
             n == Len(list)
  <1>1. n \in Nat /\ Len(lines) \in Nat /\ DOMAIN list = 1..n
        /\ \A k \in 1..n : list[k] \in ChangesIn(L, Len(lines))
    BY LenProperties, ElementOfSeq
  <1>2. E \in SUBSET ChangesIn(L, Len(lines)) /\ E \in SUBSET Changes(L)
    BY <1>1 DEF LeftOf, ChangesIn
  <1>3. AllDistinct(E)
    <2>1. ASSUME NEW i \in 1..n, NEW j \in 1..n, i < j
          PROVE  Apart(list[i], list[j]) /\ Apart(list[j], list[i])
      <3>1. list[i].at \in Nat /\ End(list[i]) \in Nat /\ list[j].at \in Nat /\ list[i].at <= End(list[i])
        BY <1>1, ChangeLies
      <3>2. End(list[i]) < list[j].at
        BY <1>1, <2>1 DEF InOrder
      <3> QED BY <3>1, <3>2 DEF Apart
    <2> SUFFICES ASSUME NEW c \in E, NEW d \in E, c # d PROVE Apart(c, d)
      BY DEF AllDistinct
    <2>2. PICK i \in 1..n, j \in 1..n : c = list[i] /\ d = list[j]
      BY DEF LeftOf
    <2>3. i < j \/ j < i
      BY <1>1, <2>2
    <2> QED BY <2>1, <2>2, <2>3
  <1>4. PICK sofar \in [0..(Len(lines) + 1) -> Seq(L)] :
            IsLaid(lines, E, sofar) /\ LaidOut(lines, E) = sofar[Len(lines) + 1]
    BY <1>2, LaidInSteps
  <1>5. list \in Seq(Changes(L)) /\ \A k \in DOMAIN list : list[k].at <= Len(lines)
    <2>1. ASSUME NEW k \in 1..n PROVE list[k] \in Changes(L) /\ list[k].at <= Len(lines)
      <3>1. list[k].at \in Nat /\ End(list[k]) \in Nat
            /\ list[k].at <= End(list[k]) /\ End(list[k]) <= Len(lines)
        BY <1>1, ChangeLies
      <3>2. list[k] \in Changes(L)
        BY <1>1 DEF ChangesIn
      <3> QED BY <1>1, <3>1, <3>2
    <2> QED BY <1>1, <2>1, LenProperties
  <1>6. PICK text \in [0..n -> Seq(L)] :
            /\ IsWritten(lines, list, text)
            /\ Patched(lines, list) = text[n] \o SubSeq(lines, Copied(list, n + 1) + 1, Len(lines))
    BY <1>5, PatchedInSteps
  <1> HIDE DEF E, n
  <1> DEFINE T == {k \in 0..n : Laying(lines, E, sofar, LeftOf(list, k), Copied(list, k + 1), text[k])}
  <1>7. 0 \in T
    <2>1. Laying(lines, E, sofar, E, 0, << >>)
      BY <1>2, <1>4, LayingStarts
    <2>2. Copied(list, 0 + 1) = 0 /\ text[0] = << >> /\ 0 \in 0..n
      BY <1>1, <1>6 DEF Copied, IsWritten
    <2> QED BY <2>1, <2>2 DEF E
  <1>8. ASSUME NEW k \in 1..n, k - 1 \in T PROVE k \in T
    <2>1. PICK j \in Nat : j = k - 1 /\ j + 1 = k /\ j \in 0..n /\ k \in 0..n
      BY <1>1
    <2>2. PICK l, pos : l = text[j] /\ pos = Copied(list, j + 1) /\ l \in Seq(L)
      BY <1>6, <2>1
    <2>3. Laying(lines, E, sofar, LeftOf(list, j), pos, l)
      BY <1>8, <2>1, <2>2
    <2>4. PICK c \in ChangesIn(L, Len(lines)) : c = list[k]
      BY <1>1
    <2>5. FirstOf(LeftOf(list, j), c, LeftOf(list, k))
      <3>1. PICK F : F = {}
        OBVIOUS
      <3>2. j + 1 \in 1..Len(list) /\ StartsBefore(list[j + 1], F)
        BY <2>1, <3>1 DEF n, StartsBefore
      <3>3. FirstOf(LeftOf(list, j) \cup F, list[j + 1], LeftOf(list, j + 1) \cup F)
        BY <1>1, <2>1, <3>2, NextOfList
      <3>4. LeftOf(list, j) \cup F = LeftOf(list, j) /\ LeftOf(list, j + 1) \cup F = LeftOf(list, k)
        BY <2>1, <3>1
      <3> QED BY <2>1, <2>4, <3>3, <3>4
    <2>7. Laying(lines, E, sofar, LeftOf(list, k), End(c), Onwards(lines, l, pos, c))
      <3>1. PICK z \in Seq(L) : z = l
        BY <2>2
      <3>2. Laying(lines, E, sofar, LeftOf(list, j), pos, z)
        BY <2>3, <3>1
      <3>3. Laying(lines, E, sofar, LeftOf(list, k), End(c), Onwards(lines, z, pos, c))
        BY <1>2, <1>3, <1>4, <2>5, <3>2, LayingGoesOn
      <3> QED BY <3>1, <3>3
    <2>8. text[k] = Onwards(lines, l, pos, c)
      BY <1>6, <2>1, <2>2, <2>4 DEF IsWritten, n, Onwards
    <2>9. Copied(list, k + 1) = End(c)
      BY <2>1, <2>4 DEF Copied
    <2> QED BY <2>1, <2>7, <2>8, <2>9
  <1>9. Laying(lines, E, sofar, {}, Copied(list, n + 1), text[n])
    <2>1. \A k \in 0..n : k \in T
      <3> HIDE DEF T
      <3> QED BY <1>1, <1>7, <1>8, UpTo
    <2>2. n \in 0..n /\ (n + 1)..n = {}
      BY <1>1
    <2>3. LeftOf(list, n) = {}
      BY <2>2 DEF LeftOf, n
    <2> QED BY <2>1, <2>2, <2>3
  <1>10. PICK l, pos : l = text[n] /\ pos = Copied(list, n + 1) /\ l \in Seq(L)
    <2>1. n \in 0..n
      BY <1>1
    <2> QED BY <1>6, <2>1
  <1>11. CopiedTo(lines, l, pos, Len(lines)) = sofar[Len(lines) + 1]
    <2>1. PICK z \in Seq(L) : z = l
      BY <1>10
    <2>2. Laying(lines, E, sofar, {}, pos, z)
      BY <1>9, <1>10, <2>1
    <2>3. CopiedTo(lines, z, pos, Len(lines)) = sofar[Len(lines) + 1]
      BY <1>2, <1>4, <2>2, LayingEnds
    <2> QED BY <2>1, <2>3
  <1> QED BY <1>4, <1>6, <1>10, <1>11 DEF E, CopiedTo

(* A turn that writes c and goes on after it, with o and t left              *)
WritesOnly(text, was, next, c, o, t) ==
    /\ next.ours = o /\ next.theirs = t /\ next.pos = End(c)
    /\ next.lines = Onwards(text, was.lines, was.pos, c) /\ next.conflicts = was.conflicts

(* When the two sides do not go on at the same line, the side that goes on    *)
(* first has its change written, and nothing is a conflict.                  *)
LEMMA ApartTurn ==
    ASSUME NEW L, NEW text \in Seq(L), NEW was \in Turns(L, Len(text)),
           was.ours # << >> /\ was.theirs # << >> => Head(was.ours).at # Head(was.theirs).at
    PROVE  LET o == was.ours
               t == was.theirs
               next == Turn(text, was)
           IN  \/ o = << >> /\ t = << >> /\ next = was
               \/ /\ o # << >> /\ t # << >> => Head(o).at < Head(t).at
                  /\ o # << >> /\ WritesOnly(text, was, next, Head(o), Tail(o), t)
               \/ /\ o # << >> /\ t # << >> => Head(t).at < Head(o).at
                  /\ t # << >> /\ WritesOnly(text, was, next, Head(t), o, Tail(t))
PROOF
  <1> DEFINE C == ChangesUpTo(L, Len(text))
             who == WhoStarts(was.ours, was.theirs)
             next == Turn(text, was)
  <1>1. PICK o \in Seq(C), t \in Seq(C), k \in Nat : o = was.ours /\ t = was.theirs /\ k = was.conflicts
    BY DEF Turns
  <1>2. \A s \in Seq(C) : s # << >> => Head(s) \in C /\ Head(s).at \in Nat
    <2> SUFFICES ASSUME NEW s \in Seq(C), s # << >> PROVE Head(s) \in C /\ Head(s).at \in Nat
      OBVIOUS
    <2>1. PICK c \in C : c = Head(s)
      <3> HIDE DEF C
      <3> QED BY HeadTailProperties
    <2> QED BY <2>1 DEF ChangesUpTo, Changes
  <1>3. ASSUME NEW c, NEW u, NEW v, next = Write(text, was, c, End(c), 0, u, v)
        PROVE  WritesOnly(text, was, next, c, u, v)
    <2> HIDE DEF next
    <2>1. PICK x, e, l, q : /\ x = next /\ e = End(c) /\ q = was.conflicts + 0
                            /\ l = was.lines \o Taken(text, was.pos, c)
      OBVIOUS
    <2>2. x = [ours |-> u, theirs |-> v, pos |-> e, lines |-> l, conflicts |-> q]
      BY <1>3, <2>1, Zenon DEF Write
    <2>3. x.ours = u /\ x.theirs = v /\ x.pos = e /\ x.lines = l /\ x.conflicts = q
      BY <2>2
    <2>4. q = was.conflicts
      BY <1>1, <2>1
    <2>5. l = Onwards(text, was.lines, was.pos, c)
      BY <2>1, Zenon DEF Onwards
    <2> QED BY <2>1, <2>3, <2>4, <2>5, Zenon DEF WritesOnly
  <1> HIDE DEF C
  <1>4. CASE o = << >> /\ t = << >>
    <2>1. next = was
      BY <1>1, <1>4 DEF Turn
    <2> QED BY <1>1, <1>4, <2>1
  <1>5. CASE ~ (o = << >> /\ t = << >>) /\ who = "ours"
    <2>1. o # << >> /\ (t # << >> => Head(o).at < Head(t).at)
      BY <1>1, <1>5 DEF WhoStarts
    <2>2. next = Write(text, was, Head(o), End(Head(o)), 0, Tail(o), t)
      BY <1>1, <1>5 DEF Turn
    <2>3. WritesOnly(text, was, next, Head(o), Tail(o), t)
      <3> HIDE DEF next
      <3> QED BY <1>3, <2>2
    <2> QED BY <1>1, <2>1, <2>3
  <1>6. CASE ~ (o = << >> /\ t = << >>) /\ who = "theirs"
    <2>1. t # << >> /\ (o # << >> => Head(t).at < Head(o).at)
      BY <1>1, <1>2, <1>6 DEF WhoStarts
    <2>2. next = Write(text, was, Head(t), End(Head(t)), 0, o, Tail(t))
      BY <1>1, <1>6 DEF Turn
    <2>3. WritesOnly(text, was, next, Head(t), o, Tail(t))
      <3> HIDE DEF next
      <3> QED BY <1>3, <2>2
    <2> QED BY <1>1, <2>1, <2>3
  <1>7. ASSUME ~ (o = << >> /\ t = << >>) PROVE who \in {"ours", "theirs"}
    BY <1>1, <1>7 DEF WhoStarts
  <1> QED BY <1>4, <1>5, <1>6, <1>7

(* Writing the next change of a list that starts before all else goes on.    *)
LEMMA LayNext ==
    ASSUME NEW L, NEW lines \in Seq(L), NEW E \in SUBSET ChangesIn(L, Len(lines)), AllDistinct(E),
           NEW sofar \in [0..(Len(lines) + 1) -> Seq(L)], IsLaid(lines, E, sofar),
           NEW list \in Seq(ChangesIn(L, Len(lines))), InOrder(list),
           NEW c \in Nat, c + 1 \in 1..Len(list), NEW F, StartsBefore(list[c + 1], F),
           NEW pos, NEW l \in Seq(L), Laying(lines, E, sofar, LeftOf(list, c) \cup F, pos, l)
    PROVE  Laying(lines, E, sofar, LeftOf(list, c + 1) \cup F, End(list[c + 1]),
                  Onwards(lines, l, pos, list[c + 1]))
PROOF
  <1>1. PICK next, left, rest :
            next = list[c + 1] /\ left = LeftOf(list, c) \cup F /\ rest = LeftOf(list, c + 1) \cup F
    OBVIOUS
  <1>2. FirstOf(left, next, rest)
    <2>1. PICK n \in Nat : n = Len(lines)
      BY LenProperties
    <2>2. FirstOf(LeftOf(list, c) \cup F, list[c + 1], LeftOf(list, c + 1) \cup F)
      BY <2>1, NextOfList
    <2> QED BY <1>1, <2>2
  <1>3. Laying(lines, E, sofar, left, pos, l)
    BY <1>1
  <1>4. Laying(lines, E, sofar, rest, End(next), Onwards(lines, l, pos, next))
    BY <1>2, <1>3, LayingGoesOn
  <1> QED BY <1>1, <1>4

(* Between two turns, with c and d changes taken of the two sides            *)
Goes(lines, o, t, sofar, was, c, d) ==
    /\ IsRest(o, c, was.ours) /\ IsRest(t, d, was.theirs) /\ was.conflicts = 0
    /\ Laying(lines, LeftOf(o, 0) \cup LeftOf(t, 0), sofar,
              LeftOf(o, c) \cup LeftOf(t, d), was.pos, was.lines)

(* The changes of two sides touch different lines.                           *)
SidesApart(o, t) == \A i \in DOMAIN o, j \in DOMAIN t : Apart(o[i], t[j])

LEMMA SidesDistinct ==
    ASSUME NEW L, NEW n \in Nat, NEW o \in Seq(ChangesIn(L, n)), NEW t \in Seq(ChangesIn(L, n)),
           InOrder(o), InOrder(t), SidesApart(o, t)
    PROVE  LET E == LeftOf(o, 0) \cup LeftOf(t, 0)
           IN  E \in SUBSET ChangesIn(L, n) /\ AllDistinct(E)
PROOF
  <1>1. ASSUME NEW s \in Seq(ChangesIn(L, n)), InOrder(s), NEW c \in LeftOf(s, 0), NEW d \in LeftOf(s, 0),
               c # d
        PROVE  Apart(c, d)
    <2>1. ASSUME NEW i \in 1..Len(s), NEW j \in 1..Len(s), i < j
          PROVE  Apart(s[i], s[j]) /\ Apart(s[j], s[i])
      <3>1. PICK u \in ChangesIn(L, n), v \in ChangesIn(L, n) : u = s[i] /\ v = s[j]
        BY ElementOfSeq
      <3>2. u.at \in Nat /\ End(u) \in Nat /\ v.at \in Nat /\ u.at <= End(u)
        BY ChangeLies
      <3>3. End(u) < v.at
        BY <1>1, <2>1, <3>1, LenProperties DEF InOrder
      <3> QED BY <3>1, <3>2, <3>3 DEF Apart
    <2>2. PICK i \in 1..Len(s), j \in 1..Len(s) : c = s[i] /\ d = s[j]
      BY DEF LeftOf
    <2>3. i < j \/ j < i
      BY <1>1, <2>2, LenProperties
    <2> QED BY <2>1, <2>2, <2>3
  <1>2. ASSUME NEW c \in LeftOf(o, 0), NEW d \in LeftOf(t, 0) PROVE Apart(c, d) /\ Apart(d, c)
    <2>1. PICK i \in 1..Len(o), j \in 1..Len(t) : c = o[i] /\ d = t[j]
      BY DEF LeftOf
    <2>2. Apart(c, d)
      BY <2>1, LenProperties DEF SidesApart
    <2> QED BY <2>2 DEF Apart
  <1>3. ASSUME NEW s \in Seq(ChangesIn(L, n)) PROVE LeftOf(s, 0) \in SUBSET ChangesIn(L, n)
    BY ElementOfSeq, LenProperties DEF LeftOf
  <1>4. LeftOf(o, 0) \in SUBSET ChangesIn(L, n) /\ LeftOf(t, 0) \in SUBSET ChangesIn(L, n)
    BY <1>3
  <1>5. ASSUME NEW c \in LeftOf(o, 0) \cup LeftOf(t, 0), NEW d \in LeftOf(o, 0) \cup LeftOf(t, 0), c # d
        PROVE  Apart(c, d)
    <2>1. CASE c \in LeftOf(o, 0) /\ d \in LeftOf(o, 0)
      BY <1>1, <1>5, <2>1
    <2>2. CASE c \in LeftOf(t, 0) /\ d \in LeftOf(t, 0)
      BY <1>1, <1>5, <2>2
    <2>3. CASE c \in LeftOf(o, 0) /\ d \in LeftOf(t, 0)
      BY <1>2, <2>3
    <2>4. CASE c \in LeftOf(t, 0) /\ d \in LeftOf(o, 0)
      BY <1>2, <2>4
    <2> QED BY <2>1, <2>2, <2>3, <2>4
  <1> QED BY <1>4, <1>5 DEF AllDistinct

(* The rest of a list starts with its next change.                           *)
LEMMA RestStarts ==
    ASSUME NEW C, NEW list \in Seq(C), NEW c \in Nat, NEW rest \in Seq(C), IsRest(list, c, rest)
    PROVE  /\ c \in 0..Len(list) /\ (rest = << >> <=> c = Len(list))
           /\ rest # << >> => /\ Head(rest) = list[c + 1] /\ c + 1 \in 1..Len(list)
                              /\ IsRest(list, c + 1, Tail(rest))
PROOF
  <1>1. c \in 0..Len(list) /\ Len(rest) = Len(list) - c /\ Len(list) \in Nat
    BY LenProperties DEF IsRest
  <1>2. rest = << >> <=> Len(rest) = 0
    BY EmptySeq
  <1>3. rest # << >> => /\ rest[1] = list[c + 1] /\ c + 1 \in 1..Len(list)
                        /\ IsRest(list, c + 1, Tail(rest))
    BY RestAfter
  <1> QED BY <1>1, <1>2, <1>3

(* A turn over sides that lie apart takes the first change that is left.     *)
LEMMA ApartGoesOn ==
    ASSUME NEW L, NEW lines \in Seq(L),
           NEW o \in Seq(ChangesIn(L, Len(lines))), NEW t \in Seq(ChangesIn(L, Len(lines))),
           InOrder(o), InOrder(t), SidesApart(o, t),
           NEW sofar \in [0..(Len(lines) + 1) -> Seq(L)],
           IsLaid(lines, LeftOf(o, 0) \cup LeftOf(t, 0), sofar),
           NEW was \in Turns(L, Len(lines)), NEW c \in Nat, NEW d \in Nat,
           Goes(lines, o, t, sofar, was, c, d)
    PROVE  \/ c = Len(o) /\ d = Len(t) /\ Goes(lines, o, t, sofar, Turn(lines, was), c, d)
           \/ c + 1 \in 1..Len(o) /\ Goes(lines, o, t, sofar, Turn(lines, was), c + 1, d)
           \/ d + 1 \in 1..Len(t) /\ Goes(lines, o, t, sofar, Turn(lines, was), c, d + 1)
PROOF
  <1> DEFINE C == ChangesUpTo(L, Len(lines))
             D == ChangesIn(L, Len(lines))
             E == LeftOf(o, 0) \cup LeftOf(t, 0)
             next == Turn(lines, was)
  <1>1. PICK u \in Seq(C), v \in Seq(C), l \in Seq(L), pos \in Nat :
            u = was.ours /\ v = was.theirs /\ l = was.lines /\ pos = was.pos
    BY DEF Turns
  <1>2. Len(lines) \in Nat /\ E \in SUBSET D /\ AllDistinct(E)
    BY LenProperties, SidesDistinct
  <1>3. ASSUME NEW s \in Seq(D) PROVE s \in Seq(C)
    <2>1. \A x \in D : x \in C
      <3> SUFFICES ASSUME NEW x \in D PROVE x \in C
        OBVIOUS
      <3>1. x.at \in Nat /\ End(x) \in Nat /\ x.at <= End(x) /\ End(x) <= Len(lines)
        BY <1>2, ChangeLies
      <3> QED BY <1>2, <3>1 DEF ChangesIn, ChangesUpTo
    <2> HIDE DEF C, D
    <2>2. \A i \in 1..Len(s) : s[i] \in C
      BY <2>1, ElementOfSeq
    <2>3. PICK m \in Nat : m = Len(s) /\ s \in [1..m -> D]
      BY LenProperties
    <2>4. s \in [1..m -> C]
      BY <2>2, <2>3
    <2> QED BY <2>4, SeqDef
  <1>4. o \in Seq(C) /\ t \in Seq(C)
    BY <1>3
  <1>5. /\ IsRest(o, c, u) /\ IsRest(t, d, v) /\ was.conflicts = 0
        /\ Laying(lines, E, sofar, LeftOf(o, c) \cup LeftOf(t, d), pos, l)
    BY <1>1 DEF Goes
  <1> HIDE DEF C
  <1>6. /\ c \in 0..Len(o) /\ (u = << >> <=> c = Len(o))
        /\ u # << >> => /\ Head(u) = o[c + 1] /\ c + 1 \in 1..Len(o)
                        /\ IsRest(o, c + 1, Tail(u))
    BY <1>4, <1>5, RestStarts
  <1>7. /\ d \in 0..Len(t) /\ (v = << >> <=> d = Len(t))
        /\ v # << >> => /\ Head(v) = t[d + 1] /\ d + 1 \in 1..Len(t)
                        /\ IsRest(t, d + 1, Tail(v))
    BY <1>4, <1>5, RestStarts
  <1>8. u # << >> /\ v # << >> => Head(u).at # Head(v).at
    <2> SUFFICES ASSUME u # << >>, v # << >> PROVE Head(u).at # Head(v).at
      OBVIOUS
    <2>1. c + 1 \in DOMAIN o /\ d + 1 \in DOMAIN t
      BY <1>6, <1>7, LenProperties
    <2>2. Apart(o[c + 1], t[d + 1])
      BY <2>1 DEF SidesApart
    <2> QED BY <1>6, <1>7, <2>2 DEF Apart
  <1>9. ASSUME NEW s \in Seq(D), NEW i \in 1..Len(s) PROVE s[i] \in D /\ s[i].at \in Nat
    <2>1. s[i] \in D
      BY ElementOfSeq
    <2> QED BY <1>2, <2>1, ChangeLies
  <1>10. CASE u = << >> /\ v = << >> /\ next = was
    BY <1>5, <1>6, <1>7, <1>1, <1>10 DEF Goes
  <1>11. CASE /\ u # << >> /\ v # << >> => Head(u).at < Head(v).at
              /\ u # << >> /\ WritesOnly(lines, was, next, Head(u), Tail(u), v)
    <2>1. PICK a : a = o[c + 1] /\ a = Head(u) /\ c + 1 \in 1..Len(o) /\ a.at \in Nat
      BY <1>6, <1>9, <1>11
    <2>2. StartsBefore(a, LeftOf(t, d))
      <3>1. d = Len(t) \/ a.at < t[d + 1].at
        BY <1>7, <1>11, <2>1
      <3>2. \A y \in LeftOf(t, d) : a.at < y.at
        BY <1>2, <1>7, <2>1, <3>1, LeftBeyond
      <3> QED BY <3>2 DEF StartsBefore
    <2>3. Laying(lines, E, sofar, LeftOf(o, c + 1) \cup LeftOf(t, d), End(a), Onwards(lines, l, pos, a))
      <3>1. StartsBefore(o[c + 1], LeftOf(t, d))
        BY <2>1, <2>2
      <3>2. Laying(lines, E, sofar, LeftOf(o, c + 1) \cup LeftOf(t, d), End(o[c + 1]),
                   Onwards(lines, l, pos, o[c + 1]))
        <4> HIDE DEF E
        <4> QED BY <1>2, <1>5, <2>1, <3>1, LayNext DEF E
      <3> QED BY <2>1, <3>2
    <2>4. /\ next.ours = Tail(u) /\ next.theirs = v /\ next.pos = End(a)
          /\ next.lines = Onwards(lines, l, pos, a) /\ next.conflicts = was.conflicts
      BY <1>1, <1>11, <2>1 DEF WritesOnly
    <2>5. IsRest(o, c + 1, Tail(u))
      BY <1>6, <1>11
    <2> HIDE DEF next, E
    <2>6. Goes(lines, o, t, sofar, next, c + 1, d)
      BY <1>5, <2>3, <2>4, <2>5 DEF Goes, E
    <2> QED BY <2>1, <2>6 DEF next
  <1>12. CASE /\ u # << >> /\ v # << >> => Head(v).at < Head(u).at
              /\ v # << >> /\ WritesOnly(lines, was, next, Head(v), u, Tail(v))
    <2>1. PICK a : a = t[d + 1] /\ a = Head(v) /\ d + 1 \in 1..Len(t) /\ a.at \in Nat
      BY <1>7, <1>9, <1>12
    <2>2. StartsBefore(a, LeftOf(o, c))
      <3>1. c = Len(o) \/ a.at < o[c + 1].at
        BY <1>6, <1>12, <2>1
      <3>2. \A y \in LeftOf(o, c) : a.at < y.at
        BY <1>2, <1>6, <2>1, <3>1, LeftBeyond
      <3> QED BY <3>2 DEF StartsBefore
    <2>3. Laying(lines, E, sofar, LeftOf(o, c) \cup LeftOf(t, d + 1), End(a), Onwards(lines, l, pos, a))
      <3>1. StartsBefore(t[d + 1], LeftOf(o, c))
        BY <2>1, <2>2
      <3>2. /\ LeftOf(o, c) \cup LeftOf(t, d) = LeftOf(t, d) \cup LeftOf(o, c)
            /\ LeftOf(o, c) \cup LeftOf(t, d + 1) = LeftOf(t, d + 1) \cup LeftOf(o, c)
        OBVIOUS
      <3>3. Laying(lines, E, sofar, LeftOf(t, d + 1) \cup LeftOf(o, c), End(t[d + 1]),
                   Onwards(lines, l, pos, t[d + 1]))
        <4> HIDE DEF E
        <4>1. Laying(lines, E, sofar, LeftOf(t, d) \cup LeftOf(o, c), pos, l)
          BY <1>5, <3>2
        <4> QED BY <1>2, <2>1, <3>1, <4>1, LayNext DEF E
      <3> QED BY <2>1, <3>2, <3>3
    <2>4. /\ next.ours = u /\ next.theirs = Tail(v) /\ next.pos = End(a)
          /\ next.lines = Onwards(lines, l, pos, a) /\ next.conflicts = was.conflicts
      BY <1>1, <1>12, <2>1 DEF WritesOnly
    <2>5. IsRest(t, d + 1, Tail(v))
      BY <1>7, <1>12
    <2> HIDE DEF next, E
    <2>6. Goes(lines, o, t, sofar, next, c, d + 1)
      BY <1>5, <2>3, <2>4, <2>5 DEF Goes, E
    <2> QED BY <2>1, <2>6 DEF next
  <1>13. \/ u = << >> /\ v = << >> /\ next = was
         \/ /\ u # << >> /\ v # << >> => Head(u).at < Head(v).at
            /\ u # << >> /\ WritesOnly(lines, was, next, Head(u), Tail(u), v)
         \/ /\ u # << >> /\ v # << >> => Head(v).at < Head(u).at
            /\ v # << >> /\ WritesOnly(lines, was, next, Head(v), u, Tail(v))
    BY <1>1, <1>8, ApartTurn
  <1> QED BY <1>10, <1>11, <1>12, <1>13

(* Changes that lie apart are merged into the reference, without a conflict. *)
LEMMA WalkLands ==
    ASSUME NEW L, NEW lines \in Seq(L),
           NEW o \in Seq(ChangesIn(L, Len(lines))), NEW t \in Seq(ChangesIn(L, Len(lines))),
           InOrder(o), InOrder(t), SidesApart(o, t),
           o \in Seq(ChangesUpTo(L, Len(lines))), t \in Seq(ChangesUpTo(L, Len(lines)))
    PROVE  /\ MergeChanges(lines, o, t).lines = LaidOut(lines, LeftOf(o, 0) \cup LeftOf(t, 0))
           /\ MergeChanges(lines, o, t).conflicts = 0
PROOF
  <1> DEFINE E == LeftOf(o, 0) \cup LeftOf(t, 0)
             n == Len(o) + Len(t)
             V == Turns(L, Len(lines))
  <1>1. PICK walk \in [0..n -> V] :
            /\ IsWalk(lines, o, t, walk)
            /\ MergeChanges(lines, o, t) = Merged(lines, walk[n])
    BY WalkInSteps
  <1>2. n \in Nat /\ Len(o) \in Nat /\ Len(t) \in Nat /\ n = Len(o) + Len(t) /\ Len(lines) \in Nat
    BY LenProperties
  <1>3. E \in SUBSET ChangesIn(L, Len(lines)) /\ AllDistinct(E)
    BY <1>2, SidesDistinct
  <1>4. E \in SUBSET Changes(L)
    BY <1>3 DEF ChangesIn
  <1>5. PICK sofar \in [0..(Len(lines) + 1) -> Seq(L)] :
            IsLaid(lines, E, sofar) /\ LaidOut(lines, E) = sofar[Len(lines) + 1]
    <2> HIDE DEF E
    <2> QED BY <1>4, LaidInSteps
  <1> DEFINE At(k, c, d) == Goes(lines, o, t, sofar, walk[k], c, d)
             Far(k, c, d) == k <= c + d \/ (c = Len(o) /\ d = Len(t))
             T == {k \in 0..n : \E c \in 0..Len(o), d \in 0..Len(t) : At(k, c, d) /\ Far(k, c, d)}
  <1> HIDE DEF n, V
  <1>6. 0 \in T
    <2>1. PICK start : start = walk[0] /\ start = [ours |-> o, theirs |-> t, pos |-> 0, lines |-> << >>, conflicts |-> 0]
      BY <1>1 DEF IsWalk
    <2>2. start.ours = o /\ start.theirs = t /\ start.pos = 0 /\ start.lines = << >> /\ start.conflicts = 0
      BY <2>1
    <2>3. IsRest(o, 0, o) /\ IsRest(t, 0, t)
      BY <1>2 DEF IsRest
    <2>4. Laying(lines, E, sofar, E, 0, << >>)
      <3> HIDE DEF E
      <3> QED BY <1>3, <1>5, LayingStarts
    <2>5. At(0, 0, 0)
      BY <2>1, <2>2, <2>3, <2>4 DEF Goes
    <2>6. 0 \in 0..n /\ 0 \in 0..Len(o) /\ 0 \in 0..Len(t) /\ Far(0, 0, 0)
      BY <1>2
    <2> HIDE DEF At, Far
    <2> QED BY <2>5, <2>6
  <1>7. ASSUME NEW k \in 1..n, k - 1 \in T PROVE k \in T
    <2>1. k \in 0..n /\ k - 1 \in 0..n /\ k \in Nat
      BY <1>2
    <2>2. PICK c \in 0..Len(o), d \in 0..Len(t) : At(k - 1, c, d) /\ Far(k - 1, c, d)
      <3>1. \A i \in T : \E c \in 0..Len(o), d \in 0..Len(t) : At(i, c, d) /\ Far(i, c, d)
        OBVIOUS
      <3> HIDE DEF At, Far, T
      <3> QED BY <1>7, <3>1
    <2>3. PICK was \in V, next \in V : was = walk[k - 1] /\ next = walk[k] /\ next = Turn(lines, was)
      BY <1>1, <2>1 DEF IsWalk, n
    <2>4. c \in Nat /\ d \in Nat /\ Goes(lines, o, t, sofar, was, c, d)
      BY <1>2, <2>2, <2>3
    <2>5. \/ c = Len(o) /\ d = Len(t) /\ Goes(lines, o, t, sofar, next, c, d)
          \/ c + 1 \in 1..Len(o) /\ Goes(lines, o, t, sofar, next, c + 1, d)
          \/ d + 1 \in 1..Len(t) /\ Goes(lines, o, t, sofar, next, c, d + 1)
      <3>1. was \in Turns(L, Len(lines)) /\ IsLaid(lines, LeftOf(o, 0) \cup LeftOf(t, 0), sofar)
        BY <1>5 DEF V
      <3>2. \/ c = Len(o) /\ d = Len(t) /\ Goes(lines, o, t, sofar, Turn(lines, was), c, d)
            \/ c + 1 \in 1..Len(o) /\ Goes(lines, o, t, sofar, Turn(lines, was), c + 1, d)
            \/ d + 1 \in 1..Len(t) /\ Goes(lines, o, t, sofar, Turn(lines, was), c, d + 1)
        <4> HIDE DEF E
        <4> QED BY <2>4, <3>1, ApartGoesOn
      <3> QED BY <2>3, <3>2
    <2>6. \E a \in 0..Len(o), b \in 0..Len(t) : At(k, a, b) /\ Far(k, a, b)
      <3>1. CASE c = Len(o) /\ d = Len(t) /\ Goes(lines, o, t, sofar, next, c, d)
        <4>1. At(k, c, d) /\ Far(k, c, d)
          BY <2>3, <3>1
        <4> HIDE DEF At, Far
        <4> QED BY <4>1
      <3>2. CASE c + 1 \in 1..Len(o) /\ Goes(lines, o, t, sofar, next, c + 1, d)
        <4>1. At(k, c + 1, d) /\ c + 1 \in 0..Len(o)
          BY <1>2, <2>3, <3>2
        <4>2. k - 1 <= c + d
          BY <1>2, <2>2, <3>2
        <4>3. Far(k, c + 1, d)
          BY <1>2, <2>1, <4>2
        <4> HIDE DEF At, Far
        <4> QED BY <4>1, <4>3
      <3>3. CASE d + 1 \in 1..Len(t) /\ Goes(lines, o, t, sofar, next, c, d + 1)
        <4>1. At(k, c, d + 1) /\ d + 1 \in 0..Len(t)
          BY <1>2, <2>3, <3>3
        <4>2. k - 1 <= c + d
          BY <1>2, <2>2, <3>3
        <4>3. Far(k, c, d + 1)
          BY <1>2, <2>1, <4>2
        <4> HIDE DEF At, Far
        <4> QED BY <4>1, <4>3
      <3> QED BY <2>5, <3>1, <3>2, <3>3
    <2> HIDE DEF At, Far
    <2> QED BY <2>1, <2>6
  <1>8. PICK c \in 0..Len(o), d \in 0..Len(t) : At(n, c, d) /\ Far(n, c, d)
    <2>1. \A k \in 0..n : k \in T
      <3> HIDE DEF T
      <3> QED BY <1>2, <1>6, <1>7, UpTo
    <2>2. n \in 0..n
      BY <1>2
    <2>3. \A i \in T : \E c \in 0..Len(o), d \in 0..Len(t) : At(i, c, d) /\ Far(i, c, d)
      OBVIOUS
    <2> HIDE DEF At, Far, T
    <2> QED BY <2>1, <2>2, <2>3
  <1>9. c = Len(o) /\ d = Len(t)
    BY <1>2, <1>8
  <1>10. PICK l \in Seq(L), pos \in Nat, k \in Nat :
            l = walk[n].lines /\ pos = walk[n].pos /\ k = walk[n].conflicts
    <2>1. n \in 0..n
      BY <1>2
    <2>2. PICK end \in V : end = walk[n]
      BY <1>1, <2>1
    <2>3. end.lines \in Seq(L) /\ end.pos \in Nat /\ end.conflicts \in Nat
      BY DEF V, Turns
    <2> QED BY <2>2, <2>3
  <1>11. k = 0 /\ Laying(lines, E, sofar, {}, pos, l)
    <2>1. LeftOf(o, c) = {} /\ LeftOf(t, d) = {}
      <3>1. (Len(o) + 1)..Len(o) = {} /\ (Len(t) + 1)..Len(t) = {}
        BY <1>2
      <3> QED BY <1>9, <3>1 DEF LeftOf
    <2>2. LeftOf(o, c) \cup LeftOf(t, d) = {}
      BY <2>1
    <2> QED BY <1>8, <1>10, <2>2 DEF Goes
  <1>12. CopiedTo(lines, l, pos, Len(lines)) = sofar[Len(lines) + 1]
    <2> HIDE DEF E
    <2>1. PICK changes \in SUBSET ChangesIn(L, Len(lines)) : changes = E
      BY <1>3
    <2>2. IsLaid(lines, changes, sofar) /\ Laying(lines, changes, sofar, {}, pos, l)
      BY <1>5, <1>11, <2>1
    <2> QED BY <2>2, LayingEnds
  <1>13. PICK s : s = CopiedTo(lines, l, pos, Len(lines))
    OBVIOUS
  <1>14. s = l \o SubSeq(lines, pos + 1, Len(lines))
    BY <1>13, Zenon DEF CopiedTo
  <1>15. MergeChanges(lines, o, t) = [lines |-> s, conflicts |-> k]
    BY <1>1, <1>10, <1>14 DEF Merged
  <1>16. MergeChanges(lines, o, t).lines = s /\ MergeChanges(lines, o, t).conflicts = k
    BY <1>15
  <1> QED BY <1>5, <1>11, <1>12, <1>13, <1>16

(* Whichever path the merge takes, changes that lie apart all land.          *)
LEMMA MergeLands ==
    ASSUME NEW L, NEW x \in TextsOver(L), NEW o \in TextsOver(L), NEW t \in TextsOver(L),
           NEW p \in DiffsOf(x, o), NEW q \in DiffsOf(x, t), o = t => p = q,
           SidesApart(p.changes, q.changes)
    PROVE  /\ Gives(MergeTexts(x, o, t, p, q).text,
                    LaidOut(x.lines, LeftOf(p.changes, 0) \cup LeftOf(q.changes, 0)),
                    x.ends \/ o.ends \/ t.ends)
           /\ MergeTexts(x, o, t, p, q).conflicts = 0
PROOF
  <1> DEFINE walk == MergeChanges(x.lines, p.changes, q.changes)
             ends == x.ends \/ o.ends \/ t.ends
             both == LaidOut(x.lines, LeftOf(p.changes, 0) \cup LeftOf(q.changes, 0))
             result == MergeTexts(x, o, t, p, q)
             made(text, k) == [text |-> text, conflicts |-> k]
  <1>0. ends \in BOOLEAN /\ (o.ends => ends) /\ (t.ends => ends)
    BY DEF TextsOver
  <1>1. x.lines \in Seq(L)
    BY DEF TextsOver
  <1>2. /\ p.changes \in Seq(ChangesIn(L, Len(x.lines))) /\ InOrder(p.changes)
        /\ x = o => p = [changes |-> << >>, reach |-> 0]
        /\ x # o => p.changes # << >>
    BY DiffInOrder
  <1>3. /\ q.changes \in Seq(ChangesIn(L, Len(x.lines))) /\ InOrder(q.changes)
        /\ x = t => q = [changes |-> << >>, reach |-> 0]
        /\ x # t => q.changes # << >>
    BY DiffInOrder
  <1>4. /\ p.changes \in Seq(ChangesUpTo(L, Len(x.lines)))
        /\ q.changes \in Seq(ChangesUpTo(L, Len(x.lines)))
    BY DiffChanges
  <1>5. Patched(x.lines, p.changes) = o.lines /\ Patched(x.lines, q.changes) = t.lines
    BY DiffReproduces DEF ApplyDiff
  <1>6. LeftOf(<< >>, 0) = {}
    <2>1. Len(<< >>) = 0 /\ (0 + 1)..0 = {}
      BY EmptySeq
    <2> QED BY <2>1 DEF LeftOf
  <1>7. x = t => o.lines = both
    <2> SUFFICES ASSUME x = t PROVE o.lines = both
      OBVIOUS
    <2>1. q.changes = << >>
      BY <1>3
    <2>2. LeftOf(p.changes, 0) \cup LeftOf(q.changes, 0) = LeftOf(p.changes, 0)
      BY <1>6, <2>1
    <2>3. Patched(x.lines, p.changes) = LaidOut(x.lines, LeftOf(p.changes, 0))
      BY <1>1, <1>2, PatchedLands
    <2> QED BY <1>5, <2>2, <2>3
  <1>8. x = o => t.lines = both
    <2> SUFFICES ASSUME x = o PROVE t.lines = both
      OBVIOUS
    <2>1. p.changes = << >>
      BY <1>2
    <2>2. LeftOf(p.changes, 0) \cup LeftOf(q.changes, 0) = LeftOf(q.changes, 0)
      BY <1>6, <2>1
    <2>3. Patched(x.lines, q.changes) = LaidOut(x.lines, LeftOf(q.changes, 0))
      BY <1>1, <1>3, PatchedLands
    <2> QED BY <1>5, <2>2, <2>3
  <1>9. o = t => x = t
    <2> SUFFICES ASSUME o = t, x # t PROVE FALSE
      OBVIOUS
    <2>1. p.changes = q.changes /\ p.changes # << >>
      BY <1>2
    <2>2. 1 \in DOMAIN p.changes
      BY <1>2, <2>1, LenProperties, EmptySeq
    <2>3. Apart(p.changes[1], p.changes[1])
      BY <2>1, <2>2 DEF SidesApart
    <2> QED BY <2>3 DEF Apart
  <1>10. walk.lines = both /\ walk.conflicts = 0
    BY <1>1, <1>2, <1>3, <1>4, WalkLands
  <1>11. \/ (o = t \/ x = t) /\ result = made(Terminated(o, ends), 0)
         \/ x = o /\ result = made(Terminated(t, ends), 0)
         \/ result = made(Text(walk.lines, ends), walk.conflicts)
    BY Zenon DEF MergeTexts
  <1>12. walk.lines \in Seq(L)
    BY <1>1, <1>4, WalkIsText
  <1> HIDE DEF walk, ends, both
  <1>13. Gives(result.text, both, ends) /\ result.conflicts = 0
    <2>1. CASE (o = t \/ x = t) /\ result = made(Terminated(o, ends), 0)
      <3>1. Gives(Terminated(o, ends), o.lines, ends)
        BY <1>0, TerminatedIsText
      <3>2. o.lines = both
        BY <1>7, <1>9, <2>1
      <3>3. result.text = Terminated(o, ends) /\ result.conflicts = 0
        BY <2>1
      <3> HIDE DEF result, made
      <3> QED BY <3>1, <3>2, <3>3
    <2>2. CASE x = o /\ result = made(Terminated(t, ends), 0)
      <3>1. Gives(Terminated(t, ends), t.lines, ends)
        BY <1>0, TerminatedIsText
      <3>2. t.lines = both
        BY <1>8, <2>2
      <3>3. result.text = Terminated(t, ends) /\ result.conflicts = 0
        BY <2>2
      <3> HIDE DEF result, made
      <3> QED BY <3>1, <3>2, <3>3
    <2>3. CASE result = made(Text(walk.lines, ends), walk.conflicts)
      <3>1. Gives(Text(walk.lines, ends), walk.lines, ends)
        BY <1>0, <1>12, JoinedGives
      <3>2. result.text = Text(walk.lines, ends) /\ result.conflicts = 0
        BY <1>10, <2>3
      <3> HIDE DEF result, made
      <3> QED BY <1>10, <3>1, <3>2
    <2> QED BY <1>11, <2>1, <2>2, <2>3
  <1> HIDE DEF result
  <1> QED BY <1>13 DEF result, both, ends

(* Changes of the two sides that touch different lines of the base all land  *)
(* in the merged text, each at its place and none twice, with every line no  *)
(* side dropped, but for a blank last line of the outcome that the joining   *)
(* loses, and merge_texts reports no conflict: on its fast paths and on its  *)
(* walk, for all texts and every longest alignment.                          *)
THEOREM ApartChangesAlwaysLand == Session => []ApartChangesLand
PROOF
  <1>1. ASSUME SessionInv PROVE ApartChangesLand
    <2> SUFFICES ASSUME merged # Unmerged, AllApart
                 PROVE  merged.conflicts = 0 /\ Gives(merged.text, Both, Closed)
      BY DEF ApartChangesLand
    <2> DEFINE L == LinesOf(Bases \cup Edits)
    <2>1. /\ base \in TextsOver(L) /\ ours \in TextsOver(L) /\ theirs \in TextsOver(L)
          /\ diffOurs \in DiffsOf(base, ours) /\ diffTheirs \in DiffsOf(base, theirs)
          /\ ours = theirs => diffOurs = diffTheirs
          /\ merged = MergeTexts(base, ours, theirs, diffOurs, diffTheirs)
      BY <1>1 DEF SessionInv
    <2> HIDE DEF L
    <2>2. SidesApart(diffOurs.changes, diffTheirs.changes)
      BY DEF AllApart, SidesApart
    <2>3. /\ merged.conflicts = 0
          /\ Gives(merged.text,
                   LaidOut(base.lines, LeftOf(diffOurs.changes, 0) \cup LeftOf(diffTheirs.changes, 0)),
                   Closed)
      BY <2>1, <2>2, MergeLands DEF Closed
    <2>4. ASSUME NEW s \in Seq(ChangesUpTo(L, Len(base.lines)))
          PROVE  {s[i] : i \in DOMAIN s} = LeftOf(s, 0)
      <3>1. DOMAIN s = (0 + 1)..Len(s)
        BY LenProperties
      <3> QED BY <3>1 DEF LeftOf
    <2>5. Either = LeftOf(diffOurs.changes, 0) \cup LeftOf(diffTheirs.changes, 0)
      <3>1. /\ diffOurs.changes \in Seq(ChangesUpTo(L, Len(base.lines)))
            /\ diffTheirs.changes \in Seq(ChangesUpTo(L, Len(base.lines)))
        BY <2>1, DiffChanges
      <3> QED BY <2>4, <3>1 DEF Either
    <2>6. Both = LaidOut(base.lines, Either)
      BY Zenon DEF Both, LaidOut
    <2> QED BY <2>3, <2>5, <2>6
  <1> QED BY <1>1, SessionInvariant, PTL

-----------------------------------------------------------------------------
(* The backup store *)

(* The texts, chains, snapshots and backups there can be                   *)
Alphabet == LinesOf(Texts \cup {InitText})
Documents == TextsOver(Alphabet)
Deltas == [old : Documents, diff : Diffs(Alphabet), source : {"manual", "backup"}]
Chains == Seq(Deltas) \ {<< >>}
Snapshots == [deltas : Chains, parents : Seq(Nat)]
Copies == [source : Nat, old : Documents, deltas : Chains, content : Documents]

(* Appending to a sequence of positions one that comes after them            *)
LEMMA AscendingAppend ==
    ASSUME NEW n \in Nat, NEW S \in SUBSET (1..n)
    PROVE  LET N == Cardinality(S)
               more == Ascending(S \cup {n + 1})
           IN  /\ N \in Nat /\ Cardinality(S \cup {n + 1}) = N + 1
               /\ \A k \in 1..N : more[k] = Ascending(S)[k]
               /\ more[N + 1] = n + 1
PROOF
  <1> DEFINE N == Cardinality(S)
             M == S \cup {n + 1}
  <1>1. M \in SUBSET (1..(n + 1)) /\ n + 1 \in Nat /\ n + 1 \notin S
    OBVIOUS
  <1>2. /\ IsFiniteSet(S) /\ N \in Nat /\ Ascending(S) \in [1..N -> S]
        /\ \A k \in 1..N, x \in S :
              Ascending(S)[k] = x <=> Cardinality({y \in S : y <= x}) = k
    BY AscendingOrders
  <1>3. Cardinality(M) = N + 1
    BY <1>1, <1>2, FS_AddElement
  <1>4. \A k \in 1..(N + 1), x \in M :
              Ascending(M)[k] = x <=> Cardinality({y \in M : y <= x}) = k
    <2>1. PICK m \in Nat : m = n + 1
      BY <1>1
    <2>2. M \in SUBSET (1..m)
      BY <1>1, <2>1
    <2> HIDE DEF M
    <2>3. \A k \in 1..Cardinality(M), x \in M :
              Ascending(M)[k] = x <=> Cardinality({y \in M : y <= x}) = k
      BY <2>2, AscendingOrders
    <2> QED BY <1>3, <2>3
  <1>5. ASSUME NEW k \in 1..N PROVE Ascending(M)[k] = Ascending(S)[k]
    <2>1. PICK x \in S : x = Ascending(S)[k]
      BY <1>2
    <2>2. Cardinality({y \in S : y <= x}) = k
      BY <1>2, <2>1
    <2>3. {y \in M : y <= x} = {y \in S : y <= x}
      <3>1. x \in 1..n
        OBVIOUS
      <3>2. ~ (n + 1 <= x)
        BY <3>1
      <3> QED BY <3>2
    <2>4. k \in 1..(N + 1) /\ x \in M
      BY <1>2
    <2> HIDE DEF M
    <2> QED BY <1>4, <2>1, <2>2, <2>3, <2>4
  <1>6. Ascending(M)[N + 1] = n + 1
    <2>1. {y \in M : y <= n + 1} = M
      <3>1. \A y \in M : y <= n + 1
        BY <1>1
      <3> QED BY <3>1
    <2>2. N + 1 \in 1..(N + 1) /\ n + 1 \in M
      BY <1>2
    <2> HIDE DEF M
    <2> QED BY <1>3, <1>4, <2>1, <2>2
  <1> QED BY <1>2, <1>3, <1>5, <1>6

(* Reading a chain drops repeated deltas, and makes up none.                 *)
LEMMA ReturnedDeltas ==
    ASSUME NEW D, NEW chain \in Seq(D)
    PROVE  /\ Returned(chain) \in Seq(D)
           /\ \A k \in DOMAIN Returned(chain) : \E i \in DOMAIN chain : Returned(chain)[k] = chain[i]
           /\ chain # << >> => Returned(chain) # << >>
PROOF
  <1> DEFINE n == Len(chain)
             first(i) == \A j \in 1..(i - 1) : chain[j] # chain[i]
             S == {i \in DOMAIN chain : first(i)}
             N == Cardinality(S)
             kept == Ascending(S)
  <1>1. n \in Nat /\ DOMAIN chain = 1..n /\ \A i \in 1..n : chain[i] \in D
    BY LenProperties, ElementOfSeq
  <1>2. S \in SUBSET (1..n)
    BY <1>1
  <1>3. /\ N \in Nat /\ kept \in [1..N -> S] /\ \A x \in S : \E k \in 1..N : kept[k] = x
    <2> HIDE DEF S, n
    <2> QED BY <1>1, <1>2, AscendingOrders
  <1>4. Returned(chain) = [k \in 1..N |-> chain[kept[k]]]
    <2>1. Returned(chain) = [k \in DOMAIN kept |-> chain[kept[k]]]
      BY DEF Returned
    <2> HIDE DEF kept
    <2> QED BY <1>3, <2>1
  <1>5. chain # << >> => 1 \in S
    <2> SUFFICES ASSUME chain # << >> PROVE 1 \in S
      OBVIOUS
    <2>1. 1 \in DOMAIN chain
      BY <1>1, EmptySeq
    <2> QED BY <2>1
  <1> HIDE DEF S, kept, N
  <1>6. ASSUME NEW k \in 1..N PROVE kept[k] \in 1..n /\ Returned(chain)[k] = chain[kept[k]]
    BY <1>2, <1>3, <1>4
  <1>7. Returned(chain) \in Seq(D) /\ DOMAIN Returned(chain) = 1..N
    <2>1. Returned(chain) \in [1..N -> D]
      BY <1>1, <1>4, <1>6
    <2> QED BY <1>3, <1>4, <2>1
  <1>8. chain # << >> => Returned(chain) # << >>
    <2> SUFFICES ASSUME chain # << >>, Returned(chain) = << >> PROVE FALSE
      OBVIOUS
    <2>1. PICK k \in 1..N : TRUE
      BY <1>3, <1>5
    <2>2. Returned(chain) \in Seq(D) /\ Len(Returned(chain)) = 0
      BY <1>7, EmptySeq
    <2>3. DOMAIN Returned(chain) = 1..0
      BY <2>2, LenProperties
    <2> QED BY <1>7, <2>1, <2>3
  <1> QED BY <1>1, <1>6, <1>7, <1>8

(* A delta that is new in the chain is read last.                            *)
LEMMA ReturnedAppend ==
    ASSUME NEW D, NEW chain \in Seq(D), NEW d \in D, \A k \in DOMAIN chain : chain[k] # d
    PROVE  Returned(Append(chain, d)) = Append(Returned(chain), d)
PROOF
  <1> DEFINE n == Len(chain)
             more == Append(chain, d)
             first(c, i) == \A j \in 1..(i - 1) : c[j] # c[i]
             S == {i \in DOMAIN chain : first(chain, i)}
             M == {i \in DOMAIN more : first(more, i)}
             N == Cardinality(S)
  <1>1. n \in Nat /\ DOMAIN chain = 1..n
    BY LenProperties
  <1>2. /\ more \in Seq(D) /\ Len(more) = n + 1 /\ DOMAIN more = 1..(n + 1)
        /\ \A i \in 1..n : more[i] = chain[i]
        /\ more[n + 1] = d
    BY <1>1, AppendProperties, LenProperties
  <1> HIDE DEF more
  <1>3. M = S \cup {n + 1}
    <2>1. ASSUME NEW i \in 1..n PROVE first(more, i) <=> first(chain, i)
      <3>1. \A j \in 1..(i - 1) : j \in 1..n
        BY <1>1
      <3> QED BY <1>2, <3>1
    <2>2. first(more, n + 1)
      <3>1. (n + 1) - 1 = n
        BY <1>1
      <3> QED BY <1>1, <1>2, <3>1
    <2>3. \A i \in 1..(n + 1) : i = n + 1 \/ i \in 1..n
      BY <1>1
    <2>4. n + 1 \in 1..(n + 1) /\ \A i \in 1..n : i \in 1..(n + 1)
      BY <1>1
    <2> HIDE DEF first, n
    <2> QED BY <1>1, <1>2, <2>1, <2>2, <2>3, <2>4
  <1>4. S \in SUBSET (1..n)
    BY <1>1
  <1>5. Returned(chain) = [k \in DOMAIN Ascending(S) |-> chain[Ascending(S)[k]]]
        /\ Returned(more) = [k \in DOMAIN Ascending(M) |-> more[Ascending(M)[k]]]
    BY DEF Returned
  <1> HIDE DEF S, M, n
  <1>6. /\ N \in Nat /\ Cardinality(M) = N + 1
        /\ \A k \in 1..N : Ascending(M)[k] = Ascending(S)[k]
        /\ Ascending(M)[N + 1] = n + 1
    BY <1>1, <1>3, <1>4, AscendingAppend
  <1>7. Ascending(S) \in [1..N -> S] /\ DOMAIN Ascending(M) = 1..(N + 1)
    <2>1. Ascending(S) \in [1..N -> S]
      BY <1>1, <1>4, AscendingOrders
    <2>2. DOMAIN Ascending(M) = 1..Cardinality(M)
      BY DEF Ascending
    <2> QED BY <1>6, <2>1, <2>2
  <1> HIDE DEF N
  <1>8. Returned(chain) = [k \in 1..N |-> chain[Ascending(S)[k]]]
    BY <1>5, <1>7
  <1>9. Returned(chain) \in Seq(D) /\ Len(Returned(chain)) = N
    <2>1. Returned(chain) \in Seq(D)
      BY ReturnedDeltas
    <2> QED BY <1>6, <1>8, <2>1, LenProperties
  <1>10. PICK r \in Seq(D) : r = Returned(chain) /\ Len(r) = N
    BY <1>9
  <1>11. /\ Append(r, d) \in Seq(D) /\ Len(Append(r, d)) = N + 1
         /\ \A k \in 1..N : Append(r, d)[k] = r[k]
         /\ Append(r, d)[N + 1] = d
    BY <1>10, AppendProperties
  <1>12. Returned(more) \in Seq(D) /\ Len(Returned(more)) = N + 1
    <2>1. Returned(more) \in Seq(D)
      BY <1>2, ReturnedDeltas
    <2>2. DOMAIN Returned(more) = 1..(N + 1)
      BY <1>5, <1>7
    <2> QED BY <1>6, <2>1, <2>2, LenProperties
  <1>13. ASSUME NEW k \in 1..(N + 1) PROVE Returned(more)[k] = Append(r, d)[k]
    <2>1. Returned(more)[k] = more[Ascending(M)[k]]
      BY <1>5, <1>7
    <2>2. CASE k = N + 1
      BY <1>2, <1>6, <1>11, <2>1, <2>2
    <2>3. CASE k # N + 1
      <3>1. k \in 1..N
        BY <1>6, <2>3
      <3>2. PICK i \in 1..n : i = Ascending(S)[k]
        BY <1>4, <1>7, <3>1
      <3>3. r[k] = chain[i]
        BY <1>8, <1>10, <3>1, <3>2
      <3> QED BY <1>2, <1>6, <1>11, <2>1, <3>1, <3>2, <3>3
    <2> QED BY <2>2, <2>3
  <1>14. Returned(more) = Append(r, d)
    <2>1. PICK u \in Seq(D), v \in Seq(D) : u = Returned(more) /\ v = Append(r, d)
      BY <1>11, <1>12
    <2>2. Len(u) = Len(v) /\ \A k \in 1..Len(u) : u[k] = v[k]
      BY <1>11, <1>12, <1>13, <2>1
    <2> QED BY <2>1, <2>2, SeqEqual
  <1> QED BY <1>10, <1>14 DEF more

(* The requests there can be                                               *)
Idling == {Idle}
Merging == [step : {"merge"}, backup : Copies]
Writing == [step : {"write"}, backup : Copies, staged : Nat]

(* Types, and pointers that point at a snapshot there once was             *)
StoreShape ==
    /\ snaps \in Seq(Snapshots)
    /\ present \subseteq DOMAIN snaps
    /\ manual \in DOMAIN snaps /\ staged \in DOMAIN snaps
    /\ files \subseteq [hashed : Documents, content : Documents]
    /\ backups \subseteq Copies
    /\ restoring \in Idling \cup Merging \cup Writing
    /\ losses \in Nat

(* The row of the file init stored holds that file.                        *)
InitFileKept ==
    /\ \E f \in files : f.hashed = InitText
    /\ \A f \in files : f.hashed = InitText => f.content = InitText

(* There is a row for the file of a delta.                                 *)
HeldIn(rows, old) == \E f \in rows : f.hashed = old

(* As long as nothing was lost, every delta and every backup that was ever *)
(* made finds a right row of its file.                                     *)
FilesFound ==
    losses = 0 =>
        /\ FilesAddressed
        /\ \A i \in DOMAIN snaps : \A k \in DOMAIN snaps[i].deltas : HeldIn(files, snaps[i].deltas[k].old)
        /\ \A b \in backups : HeldIn(files, b.old)
        /\ restoring # Idle => HeldIn(files, restoring.backup.old)

(* A request that is about to write could read the two texts it merges.    *)
ReadBeforeWritten ==
    restoring.step = "write" =>
        /\ restoring.staged \in DOMAIN snaps
        /\ Read(restoring.staged)[2]
        /\ BackupText(restoring.backup)[2]

(* The inductive invariant of the backup repository                        *)
BackupInv == StoreShape /\ InitFileKept /\ BackupsReadBack /\ FilesFound /\ ReadBeforeWritten

(* The texts the core is given are texts.                                  *)
LEMMA DocumentsGiven == InitText \in Documents /\ Texts \subseteq Documents
PROOF
  BY TextsAssumption DEF AreTexts, Documents, Alphabet

(* Reading a chain of deltas gives a text.                                   *)
LEMMA ChainReads ==
    ASSUME NEW from \in Documents, NEW chain \in Seq(Deltas)
    PROVE  /\ [k \in DOMAIN chain |-> chain[k].diff] \in Seq(Diffs(Alphabet))
           /\ Rebuilt(from, chain)[1] \in Documents /\ Rebuilt(from, chain)[2] \in BOOLEAN
           /\ PatchedBy(from, DiffsIn(chain)) \in Readings(Alphabet)
           /\ PatchedBy(from, DiffsIn(chain)).fits = Rebuilt(from, chain)[2]
PROOF
  <1> DEFINE diffs == [k \in DOMAIN chain |-> chain[k].diff]
  <1>1. Len(chain) \in Nat /\ DOMAIN chain = 1..Len(chain)
        /\ \A k \in 1..Len(chain) : chain[k] \in Deltas
    BY LenProperties, ElementOfSeq
  <1>2. \A k \in 1..Len(chain) : chain[k].diff \in Diffs(Alphabet)
    BY <1>1 DEF Deltas
  <1>3. diffs \in Seq(Diffs(Alphabet))
    BY <1>1, <1>2
  <1>4. Rebuilt(from, chain) = ApplyDeltas(from, diffs) /\ DiffsIn(chain) = diffs
    BY DEF Rebuilt, DiffsIn
  <1> HIDE DEF diffs
  <1>5. /\ ApplyDeltas(from, diffs)[1] \in Documents /\ ApplyDeltas(from, diffs)[2] \in BOOLEAN
        /\ PatchedBy(from, diffs) \in Readings(Alphabet)
        /\ PatchedBy(from, diffs).fits = ApplyDeltas(from, diffs)[2]
    BY <1>3, DeltasApply DEF Documents
  <1> QED BY <1>3, <1>4, <1>5 DEF diffs

(* Every stored snapshot has a chain that reads as a text.                   *)
LEMMA SnapshotReads ==
    ASSUME StoreShape, NEW id \in DOMAIN snaps
    PROVE  /\ snaps[id].deltas \in Seq(Deltas) /\ snaps[id].deltas # << >>
           /\ Returned(snaps[id].deltas) \in Seq(Deltas) /\ Returned(snaps[id].deltas) # << >>
           /\ TextAt(id) \in Documents /\ Read(id)[2] \in BOOLEAN
PROOF
  <1>1. snaps[id] \in Snapshots
    BY ElementOfSeq, LenProperties DEF StoreShape
  <1>2. PICK chain \in Seq(Deltas) : chain = snaps[id].deltas /\ chain # << >>
    BY <1>1 DEF Snapshots, Chains
  <1>3. PICK read \in Seq(Deltas) : read = Returned(chain) /\ read # << >>
    BY <1>2, ReturnedDeltas
  <1>4. Rebuilt(InitText, read)[1] \in Documents /\ Rebuilt(InitText, read)[2] \in BOOLEAN
    BY DocumentsGiven, ChainReads
  <1> QED BY <1>2, <1>3, <1>4 DEF TextAt, Read

(* What storing a snapshot whose last delta was taken of old may do          *)
GrownBy(ss, tt, old) ==
    /\ tt \in Seq(Snapshots)
    /\ \A i \in DOMAIN ss : i \in DOMAIN tt /\ tt[i] = ss[i]
    /\ \A i \in DOMAIN tt : \A k \in DOMAIN tt[i].deltas :
          \/ tt[i].deltas[k].old = old
          \/ \E j \in DOMAIN ss : \E l \in DOMAIN ss[j].deltas :
                tt[i].deltas[k].old = ss[j].deltas[l].old

(* A child of a snapshot is a snapshot, with one delta more.               *)
LEMMA ChildIsSnapshot ==
    ASSUME NEW ss \in Seq(Snapshots), NEW parents \in Seq(Nat), parents # << >>,
           Head(parents) \in DOMAIN ss, NEW d \in Deltas
    PROVE  /\ Child(ss, parents, d) \in Snapshots
           /\ Child(ss, parents, d).deltas = Append(ss[Head(parents)].deltas, d)
PROOF
  <1>1. PICK p \in DOMAIN ss : p = Head(parents)
    OBVIOUS
  <1>2. ss[p] \in Snapshots
    BY ElementOfSeq, LenProperties
  <1>3. PICK chain \in Seq(Deltas) : chain = ss[p].deltas
    BY <1>2 DEF Snapshots, Chains
  <1>4. Append(chain, d) \in Seq(Deltas) /\ Append(chain, d) # << >>
    <2>1. Append(chain, d) \in Seq(Deltas) /\ Len(Append(chain, d)) = Len(chain) + 1 /\ Len(chain) \in Nat
      BY AppendProperties, LenProperties
    <2>2. Len(Append(chain, d)) # 0
      BY <2>1
    <2> QED BY <2>1, <2>2, EmptySeq
  <1>5. PICK more \in Chains : more = Append(chain, d)
    BY <1>4 DEF Chains
  <1>6. Child(ss, parents, d) = [deltas |-> more, parents |-> parents]
    BY <1>1, <1>3, <1>5 DEF Child
  <1> QED BY <1>1, <1>3, <1>5, <1>6 DEF Snapshots

(* store_snapshot keeps what was stored, and stores the new snapshot.      *)
LEMMA StoredGrows ==
    ASSUME NEW ss \in Seq(Snapshots), NEW parents \in Seq(Nat), parents # << >>,
           Head(parents) \in DOMAIN ss, NEW d \in Deltas
    PROVE  LET s == Child(ss, parents, d)
               tt == Stored(ss, s)
           IN  GrownBy(ss, tt, d.old) /\ IdIn(tt, s) \in DOMAIN tt /\ tt[IdIn(tt, s)] = s
PROOF
  <1>1. PICK s \in Snapshots : s = Child(ss, parents, d)
    BY ChildIsSnapshot
  <1>2. PICK p \in DOMAIN ss : p = Head(parents)
    OBVIOUS
  <1>3. s.deltas = Append(ss[p].deltas, d)
    BY <1>1, <1>2, ChildIsSnapshot
  <1>4. PICK chain \in Seq(Deltas) : chain = ss[p].deltas
    <2>1. ss[p] \in Snapshots
      BY ElementOfSeq, LenProperties
    <2> QED BY <2>1 DEF Snapshots, Chains
  <1> DEFINE tt == Stored(ss, s)
  <1>5. /\ Len(ss) \in Nat /\ DOMAIN ss = 1..Len(ss)
        /\ tt \in Seq(Snapshots)
        /\ \A i \in DOMAIN ss : i \in DOMAIN tt /\ tt[i] = ss[i]
        /\ \A i \in DOMAIN tt : (i \in DOMAIN ss /\ tt[i] = ss[i]) \/ tt[i] = s
        /\ \E i \in DOMAIN tt : tt[i] = s
    <2>1. Len(ss) \in Nat /\ DOMAIN ss = 1..Len(ss)
      BY LenProperties
    <2>2. CASE \E i \in DOMAIN ss : ss[i] = s
      BY <2>1, <2>2 DEF Stored
    <2>3. CASE ~ \E i \in DOMAIN ss : ss[i] = s
      <3>1. PICK more \in Seq(Snapshots) : more = Append(ss, s)
        BY AppendProperties
      <3>2. /\ Len(more) = Len(ss) + 1 /\ DOMAIN more = 1..(Len(ss) + 1)
            /\ \A i \in 1..Len(ss) : more[i] = ss[i]
            /\ more[Len(ss) + 1] = s
        BY <2>1, <3>1, AppendProperties, LenProperties
      <3>3. tt = more
        BY <2>3, <3>1 DEF Stored
      <3>4. \A i \in 1..(Len(ss) + 1) : i \in 1..Len(ss) \/ i = Len(ss) + 1
        BY <2>1
      <3>5. Len(ss) + 1 \in 1..(Len(ss) + 1) /\ \A i \in 1..Len(ss) : i \in 1..(Len(ss) + 1)
        BY <2>1
      <3> QED BY <2>1, <3>2, <3>3, <3>4, <3>5
    <2> QED BY <2>2, <2>3
  <1> HIDE DEF tt
  <1>6. IdIn(tt, s) \in DOMAIN tt /\ tt[IdIn(tt, s)] = s
    BY <1>5, Zenon DEF IdIn
  <1>7. ASSUME NEW i \in DOMAIN tt, NEW k \in DOMAIN tt[i].deltas
        PROVE  \/ tt[i].deltas[k].old = d.old
               \/ \E j \in DOMAIN ss : \E l \in DOMAIN ss[j].deltas :
                     tt[i].deltas[k].old = ss[j].deltas[l].old
    <2>1. CASE i \in DOMAIN ss /\ tt[i] = ss[i]
      BY <1>7, <2>1, Zenon
    <2>2. CASE tt[i] = s
      <3>1. /\ Len(chain) \in Nat /\ DOMAIN chain = 1..Len(chain)
            /\ DOMAIN Append(chain, d) = 1..(Len(chain) + 1)
            /\ \A l \in 1..Len(chain) : Append(chain, d)[l] = chain[l]
            /\ Append(chain, d)[Len(chain) + 1] = d
        BY AppendProperties, LenProperties
      <3>2. k \in 1..(Len(chain) + 1) /\ tt[i].deltas[k] = Append(chain, d)[k]
        BY <1>3, <1>4, <2>2, <3>1
      <3>3. CASE k \in 1..Len(chain)
        <4>1. tt[i].deltas[k] = ss[p].deltas[k] /\ k \in DOMAIN ss[p].deltas
          BY <1>4, <3>1, <3>2, <3>3
        <4> QED BY <4>1, Zenon
      <3>4. CASE k = Len(chain) + 1
        <4>1. tt[i].deltas[k] = d
          BY <3>1, <3>2, <3>4
        <4> QED BY <4>1, Zenon
      <3>5. k \in 1..Len(chain) \/ k = Len(chain) + 1
        BY <3>1, <3>2
      <3> QED BY <3>3, <3>4, <3>5
    <2> QED BY <1>5, <2>1, <2>2
  <1>8. GrownBy(ss, tt, d.old)
    BY <1>5, <1>7, Zenon DEF GrownBy
  <1> QED BY <1>1, <1>6, <1>8, Zenon DEF tt

(* Two snapshots stored one after the other, as an edit does               *)
LEMMA GrownTwice ==
    ASSUME NEW ss, NEW tt, NEW uu, NEW old, GrownBy(ss, tt, old), GrownBy(tt, uu, old)
    PROVE  GrownBy(ss, uu, old)
PROOF
  <1>1. ASSUME NEW i \in DOMAIN uu, NEW k \in DOMAIN uu[i].deltas
        PROVE  \/ uu[i].deltas[k].old = old
               \/ \E j \in DOMAIN ss : \E l \in DOMAIN ss[j].deltas :
                     uu[i].deltas[k].old = ss[j].deltas[l].old
    <2>1. \/ uu[i].deltas[k].old = old
          \/ \E j \in DOMAIN tt : \E l \in DOMAIN tt[j].deltas :
                uu[i].deltas[k].old = tt[j].deltas[l].old
      BY <1>1, Zenon DEF GrownBy
    <2>2. CASE \E j \in DOMAIN tt : \E l \in DOMAIN tt[j].deltas :
                  uu[i].deltas[k].old = tt[j].deltas[l].old
      <3>0. PICK j \in DOMAIN tt : \E l \in DOMAIN tt[j].deltas :
                uu[i].deltas[k].old = tt[j].deltas[l].old
        BY <2>2, Zenon
      <3>1. PICK l \in DOMAIN tt[j].deltas : uu[i].deltas[k].old = tt[j].deltas[l].old
        BY <3>0, Zenon
      <3>2. \/ tt[j].deltas[l].old = old
            \/ \E p \in DOMAIN ss : \E q \in DOMAIN ss[p].deltas :
                  tt[j].deltas[l].old = ss[p].deltas[q].old
        BY <3>1, Zenon DEF GrownBy
      <3> QED BY <3>1, <3>2, Zenon
    <2> QED BY <2>1, <2>2
  <1> QED BY <1>1, Zenon DEF GrownBy

(* A delta of a text with a diff is a delta.                               *)
LEMMA DeltaIsDelta ==
    ASSUME NEW old \in Documents, NEW d \in Diffs(Alphabet), NEW s \in {"manual", "backup"}
    PROVE  DeltaOf(old, d, s) \in Deltas /\ DeltaOf(old, d, s).old = old
PROOF
  BY DEF DeltaOf, Deltas

(* One or two ids are a list of parents.                                   *)
LEMMA IdsAreParents ==
    ASSUME NEW i \in Nat, NEW j \in Nat
    PROVE  /\ <<i>> \in Seq(Nat) /\ <<i>> # << >> /\ Head(<<i>>) = i
           /\ <<i, j>> \in Seq(Nat) /\ <<i, j>> # << >> /\ Head(<<i, j>>) = i
PROOF
  <1>1. <<i>> \in Seq(Nat) /\ Len(<<i>>) = 1 /\ Head(<<i>>) = i
    OBVIOUS
  <1>2. <<i, j>> \in Seq(Nat) /\ Len(<<i, j>>) = 2 /\ Head(<<i, j>>) = i
    OBVIOUS
  <1>3. Len(<< >>) = 0
    OBVIOUS
  <1> QED BY <1>1, <1>2, <1>3

(* A chain of one delta that could be read, in full: what the delta does     *)
LEMMA OnlyDelta ==
    ASSUME NEW from \in Documents, NEW chain \in Seq(Deltas), Len(chain) = 1
    PROVE  /\ chain[1].diff \in Diffs(Alphabet)
           /\ Rebuilt(from, chain)[2] /\ ReadInFull(from, chain)
              => /\ Applicable(from.lines, chain[1].diff)
                 /\ ApplyDiff(from.lines, chain[1].diff) = Rebuilt(from, chain)[1].lines
PROOF
  <1>1. DOMAIN chain = 1..1 /\ chain[1] \in Deltas
    BY LenProperties, ElementOfSeq
  <1>2. PICK d \in Diffs(Alphabet) : d = chain[1].diff
    BY <1>1 DEF Deltas
  <1> SUFFICES ASSUME Rebuilt(from, chain)[2], ReadInFull(from, chain)
               PROVE  Applicable(from.lines, d) /\ ApplyDiff(from.lines, d) = Rebuilt(from, chain)[1].lines
    BY <1>2
  <1> DEFINE next == Applied([lines |-> from.lines, fits |-> TRUE], d)
  <1>3. PatchedBy(from, DiffsIn(chain)) = next /\ next.fits = Rebuilt(from, chain)[2]
    <2>1. DiffsIn(chain) = <<d>>
      BY <1>1, <1>2 DEF DiffsIn
    <2>2. PatchedBy(from, <<d>>) = next
      BY OneDelta, Zenon DEF Documents
    <2> HIDE DEF next
    <2> QED BY <2>1, <2>2, ChainReads
  <1>4. PICK p \in BOOLEAN : p <=> Applicable(from.lines, d)
    <2>1. CASE Applicable(from.lines, d)
      <3>1. TRUE <=> Applicable(from.lines, d)
        BY <2>1
      <3> QED BY <3>1
    <2>2. CASE ~ Applicable(from.lines, d)
      <3>1. FALSE <=> Applicable(from.lines, d)
        BY <2>2
      <3> QED BY <3>1
    <2> QED BY <2>1, <2>2
  <1>5. next = [lines |-> IF p THEN ApplyDiff(from.lines, d) ELSE from.lines, fits |-> p]
    BY <1>4 DEF Applied
  <1>6. p
    <2>1. next.fits = p
      BY <1>5
    <2> HIDE DEF next
    <2> QED BY <1>3, <2>1
  <1>7. next.lines = ApplyDiff(from.lines, d)
    BY <1>5, <1>6
  <1>8. next.lines = Rebuilt(from, chain)[1].lines
    <2> HIDE DEF next
    <2> QED BY <1>3 DEF ReadInFull
  <1> QED BY <1>2, <1>4, <1>6, <1>7, <1>8

(* The merge and the diff of a restore are made of texts; onto a staged that *)
(* reads as the backup's base, the diff gives the backed-up lines, if the    *)
(* two chains read in full.                                                  *)
LEMMA RestoreDiffs ==
    ASSUME StoreShape, ReadBeforeWritten, restoring.step = "write",
           NEW m \in MergedTexts, NEW d \in MergeDiffs(m)
    PROVE  /\ d \in Diffs(Alphabet)
           /\ /\ TextAt(restoring.staged) = restoring.backup.content
              /\ ReadInFull(InitText, Returned(snaps[restoring.staged].deltas))
              /\ ReadInFull(restoring.backup.content, restoring.backup.deltas)
              => /\ Applicable(restoring.backup.content.lines, d)
                 /\ ApplyDiff(restoring.backup.content.lines, d) = BackupText(restoring.backup)[1].lines
PROOF
  <1>1. restoring \in Writing
    BY DEF StoreShape, Idling, Merging, Idle
  <1>2. PICK b \in Copies, id \in DOMAIN snaps : b = restoring.backup /\ id = restoring.staged
    BY <1>1 DEF Writing, ReadBeforeWritten
  <1>3. b.content \in Documents /\ b.deltas \in Seq(Deltas) /\ b.deltas # << >>
    BY DEF Copies, Chains
  <1>4. PICK x \in Documents, theirsRead \in Documents :
            x = b.content /\ theirsRead = BackupText(b)[1]
    BY <1>3, ChainReads DEF BackupText
  <1>5. PICK oursRead \in Documents : oursRead = TextAt(id)
    BY SnapshotReads
  <1>6. BackupText(b)[2] /\ Read(id)[2]
    BY <1>2 DEF ReadBeforeWritten
  <1>7. PICK p \in DiffsOf(x, oursRead), q \in DiffsOf(x, theirsRead) :
            m = MergeTexts(x, oursRead, theirsRead, p, q).text
    <2>1. MergedTexts = {MergeTexts(x, oursRead, theirsRead, p, q).text :
                            p \in DiffsOf(x, oursRead), q \in DiffsOf(x, theirsRead)}
      BY <1>2, <1>4, <1>5 DEF MergedTexts
    <2> QED BY <2>1
  <1>8. m \in Documents
    BY <1>7, MergeIsText DEF Documents
  <1>9. x = oursRead => m.lines = theirsRead.lines
    <2> SUFFICES ASSUME x = oursRead PROVE m.lines = theirsRead.lines
      OBVIOUS
    <2> DEFINE closed == x.ends \/ oursRead.ends \/ theirsRead.ends
    <2>1. \A u, v : [text |-> u, conflicts |-> v].text = u
      OBVIOUS
    <2>2. CASE oursRead = theirsRead
      <3>1. MergeTexts(x, oursRead, theirsRead, p, q) = [text |-> Terminated(oursRead, closed), conflicts |-> 0]
        BY <2>2, Zenon DEF MergeTexts
      <3>2. m = Terminated(oursRead, closed)
        BY <1>7, <2>1, <3>1, Zenon
      <3> QED BY <2>2, <3>2 DEF Terminated
    <2>3. CASE oursRead # theirsRead
      <3>1. MergeTexts(x, oursRead, theirsRead, p, q) = [text |-> Terminated(theirsRead, closed), conflicts |-> 0]
        BY <2>3, Zenon DEF MergeTexts
      <3>2. m = Terminated(theirsRead, closed)
        BY <1>7, <2>1, <3>1, Zenon
      <3> QED BY <3>2 DEF Terminated
    <2> QED BY <2>2, <2>3
  <1>10. PICK chain \in Seq(Deltas) : chain = Returned(snaps[id].deltas)
    BY SnapshotReads
  <1>11. \/ m = theirsRead /\ Len(b.deltas) = 1 /\ d = b.deltas[1].diff
         \/ m = oursRead /\ Len(chain) = 1 /\ x = InitText /\ d = chain[1].diff
         \/ d \in DiffsOf(x, m)
    BY <1>2, <1>4, <1>5, <1>10 DEF MergeDiffs
  <1> DEFINE Full == /\ x = oursRead /\ ReadInFull(InitText, chain) /\ ReadInFull(x, b.deltas)
  <1>12. d \in Diffs(Alphabet) /\ (Full => Applicable(x.lines, d) /\ ApplyDiff(x.lines, d) = theirsRead.lines)
    <2>1. CASE m = theirsRead /\ Len(b.deltas) = 1 /\ d = b.deltas[1].diff
      <3>1. PICK given \in Seq(Deltas) : given = b.deltas
        BY <1>3
      <3>2. Rebuilt(x, given)[2] /\ Rebuilt(x, given)[1] = theirsRead
        BY <1>4, <1>6, <3>1 DEF BackupText
      <3>3. Len(given) = 1 /\ d = given[1].diff
        BY <2>1, <3>1
      <3> QED BY <3>1, <3>2, <3>3, OnlyDelta
    <2>2. CASE m = oursRead /\ Len(chain) = 1 /\ x = InitText /\ d = chain[1].diff
      <3>1. Rebuilt(x, chain)[2] /\ Rebuilt(x, chain)[1] = oursRead
        BY <1>5, <1>6, <1>10, <2>2 DEF Read, TextAt
      <3>2. d \in Diffs(Alphabet)
            /\ (Full => Applicable(x.lines, d) /\ ApplyDiff(x.lines, d) = oursRead.lines)
        BY <2>2, <3>1, OnlyDelta
      <3> QED BY <1>9, <2>2, <3>2
    <2>3. CASE d \in DiffsOf(x, m)
      <3>1. d \in Diffs(Alphabet) /\ Applicable(x.lines, d) /\ ApplyDiff(x.lines, d) = m.lines
        BY <1>8, <2>3, DiffReproduces DEF Documents
      <3> QED BY <1>9, <3>1
    <2> QED BY <1>11, <2>1, <2>2, <2>3
  <1> QED BY <1>2, <1>4, <1>5, <1>10, <1>12

(* A restore that writes appends a delta of the backup's last file.          *)
LEMMA RestoreGrows ==
    ASSUME StoreShape, ReadBeforeWritten, RestoreWrite
    PROVE  \/ UNCHANGED <<snaps, present, staged>>
           \/ \E m \in MergedTexts : \E d \in MergeDiffs(m) :
                /\ DeltaOf(restoring.backup.old, d, "backup") \in Deltas
                /\ GrownBy(snaps, snaps', restoring.backup.old)
                /\ staged' \in DOMAIN snaps' /\ present' = present \cup {staged'}
                /\ snaps'[staged'].deltas
                     = Append(snaps[restoring.staged].deltas, DeltaOf(restoring.backup.old, d, "backup"))
PROOF
  <1> SUFFICES ASSUME ~ UNCHANGED <<snaps, present, staged>>
               PROVE  \E m \in MergedTexts : \E d \in MergeDiffs(m) :
                /\ DeltaOf(restoring.backup.old, d, "backup") \in Deltas
                /\ GrownBy(snaps, snaps', restoring.backup.old)
                /\ staged' \in DOMAIN snaps' /\ present' = present \cup {staged'}
                /\ snaps'[staged'].deltas
                     = Append(snaps[restoring.staged].deltas, DeltaOf(restoring.backup.old, d, "backup"))
    OBVIOUS
  <1>1. PICK m \in MergedTexts : \E d \in MergeDiffs(m) :
              /\ snaps' = Stored(snaps, Restored(d))
              /\ staged' = IdIn(snaps', Restored(d))
              /\ present' = present \cup {staged'}
    BY Zenon DEF RestoreWrite
  <1>2. PICK d \in MergeDiffs(m) :
              /\ snaps' = Stored(snaps, Restored(d))
              /\ staged' = IdIn(snaps', Restored(d))
              /\ present' = present \cup {staged'}
    BY <1>1, Zenon
  <1>3. restoring.step = "write" /\ restoring \in Writing
    BY DEF RestoreWrite, StoreShape, Idling, Merging, Idle
  <1>4. PICK b \in Copies, id \in DOMAIN snaps : b = restoring.backup /\ id = restoring.staged
    BY <1>3 DEF Writing, ReadBeforeWritten
  <1>5. d \in Diffs(Alphabet)
    BY <1>3, RestoreDiffs
  <1>6. b.old \in Documents /\ b.source \in Nat
    BY DEF Copies
  <1>7. PICK new \in Deltas : new = DeltaOf(b.old, d, "backup")
    BY <1>5, <1>6, DeltaIsDelta
  <1>8. PICK ids \in Seq(Nat) : ids = <<id, b.source>> /\ ids # << >> /\ Head(ids) = id
    <2>1. id \in Nat
      BY LenProperties DEF StoreShape
    <2> QED BY <1>6, <2>1, IdsAreParents
  <1>9. snaps \in Seq(Snapshots)
    BY DEF StoreShape
  <1>10. Restored(d) = Child(snaps, ids, new)
    BY <1>4, <1>7, <1>8 DEF Restored
  <1>11. new.old = b.old
    BY <1>7 DEF DeltaOf
  <1>12. /\ GrownBy(snaps, snaps', b.old) /\ staged' \in DOMAIN snaps'
         /\ snaps'[staged'] = Restored(d)
    BY <1>2, <1>8, <1>9, <1>10, <1>11, StoredGrows
  <1>13. Restored(d).deltas = Append(snaps[id].deltas, new)
    BY <1>8, <1>9, <1>10, ChildIsSnapshot
  <1> QED BY <1>2, <1>4, <1>7, <1>12, <1>13

(* An edit stores snapshots whose new deltas name the text it was made on.   *)
LEMMA EditGrows ==
    ASSUME StoreShape, NEW t \in Texts, Edit(t)
    PROVE  /\ GrownBy(snaps, snaps', TextAt(manual))
           /\ manual' \in DOMAIN snaps' /\ staged' \in DOMAIN snaps'
           /\ present' \subseteq present \cup {manual', staged'}
           /\ files' = FileStored(files, TextAt(manual), TextAt(manual))
PROOF
  <1>1. PICK old \in Documents, into \in Documents : old = TextAt(manual) /\ into = TextAt(staged)
    BY SnapshotReads DEF StoreShape
  <1> DEFINE edited(d) == Child(snaps, <<manual>>, DeltaOf(old, d, "manual"))
             ss(d) == Stored(snaps, edited(d))
             id(d) == IdIn(ss(d), edited(d))
             new(d) == Rebuilt(InitText, Returned(edited(d).deltas))[1]
             mixed(d) == Terminated(new(d), new(d).ends \/ into.ends)
             second(d, e) == Child(ss(d), <<staged, id(d)>>, DeltaOf(old, e, "manual"))
  <1>2. PICK d \in DiffsOf(old, t) :
            /\ manual' = id(d)
            /\ files' = ManualFiles(old)
            /\ \/ snaps' = ss(d) /\ present' = present \cup {id(d)} /\ staged' = staged
               \/ \E e \in DiffsOf(into, mixed(d)) :
                     /\ snaps' = Stored(ss(d), second(d, e))
                     /\ staged' = IdIn(snaps', second(d, e))
                     /\ present' = present \cup {id(d), staged'}
    BY <1>1, Zenon DEF Edit
  <1>3. t \in Documents
    BY DocumentsGiven
  <1>4. d \in Diffs(Alphabet)
    BY <1>3, DiffReproduces DEF Documents
  <1>5. snaps \in Seq(Snapshots) /\ manual \in DOMAIN snaps /\ staged \in DOMAIN snaps
        /\ manual \in Nat /\ staged \in Nat
    BY LenProperties DEF StoreShape
  <1>6. PICK first \in Deltas : first = DeltaOf(old, d, "manual") /\ first.old = old
    BY <1>4, DeltaIsDelta
  <1>7. PICK ids \in Seq(Nat) : ids = <<manual>> /\ ids # << >> /\ Head(ids) = manual
    BY <1>5, IdsAreParents
  <1>8. edited(d) = Child(snaps, ids, first)
    BY <1>6, <1>7
  <1>9. /\ GrownBy(snaps, ss(d), old) /\ id(d) \in DOMAIN ss(d) /\ edited(d) \in Snapshots
    BY <1>5, <1>6, <1>7, <1>8, StoredGrows, ChildIsSnapshot
  <1>10. mixed(d) \in Documents
    <2>1. PICK chain \in Seq(Deltas) : chain = edited(d).deltas
      BY <1>9 DEF Snapshots, Chains
    <2>2. Returned(chain) \in Seq(Deltas)
      BY ReturnedDeltas
    <2>3. new(d) \in Documents
      BY <2>1, <2>2, DocumentsGiven, ChainReads
    <2> HIDE DEF new
    <2> QED BY <2>3 DEF Terminated, Documents, TextsOver, IsText
  <1>11. files' = FileStored(files, TextAt(manual), TextAt(manual))
    BY <1>1, <1>2 DEF ManualFiles
  <1> HIDE DEF edited, ss, id, mixed
  <1>12. CASE snaps' = ss(d) /\ present' = present \cup {id(d)} /\ staged' = staged
    <2>1. staged \in DOMAIN snaps'
      BY <1>5, <1>9, <1>12 DEF GrownBy
    <2> QED BY <1>1, <1>2, <1>9, <1>11, <1>12, <2>1
  <1>13. CASE \E e \in DiffsOf(into, mixed(d)) :
                     /\ snaps' = Stored(ss(d), second(d, e))
                     /\ staged' = IdIn(snaps', second(d, e))
                     /\ present' = present \cup {id(d), staged'}
    <2>1. PICK e \in DiffsOf(into, mixed(d)) :
                     /\ snaps' = Stored(ss(d), second(d, e))
                     /\ staged' = IdIn(snaps', second(d, e))
                     /\ present' = present \cup {id(d), staged'}
      BY <1>13
    <2>2. e \in Diffs(Alphabet)
      BY <1>10, DiffReproduces DEF Documents
    <2>3. PICK next \in Deltas : next = DeltaOf(old, e, "manual") /\ next.old = old
      BY <2>2, DeltaIsDelta
    <2>4. ss(d) \in Seq(Snapshots) /\ staged \in DOMAIN ss(d) /\ id(d) \in Nat
      <3>1. ss(d) \in Seq(Snapshots) /\ staged \in DOMAIN ss(d)
        BY <1>5, <1>9 DEF GrownBy
      <3> QED BY <1>9, <3>1, LenProperties
    <2>5. PICK both \in Seq(Nat) : both = <<staged, id(d)>> /\ both # << >> /\ Head(both) = staged
      BY <1>5, <2>4, IdsAreParents
    <2>6. second(d, e) = Child(ss(d), both, next)
      BY <2>3, <2>5
    <2>7. GrownBy(ss(d), snaps', old) /\ staged' \in DOMAIN snaps'
      BY <2>1, <2>3, <2>4, <2>5, <2>6, StoredGrows
    <2>8. GrownBy(snaps, snaps', old)
      BY <1>9, <2>7, GrownTwice
    <2>9. id(d) \in DOMAIN snaps'
      BY <1>9, <2>7 DEF GrownBy
    <2> QED BY <1>1, <1>2, <1>11, <2>1, <2>7, <2>8, <2>9
  <1> QED BY <1>2, <1>12, <1>13

(* The rows of file_nodes                                                  *)
FileRows == [hashed : Documents, content : Documents]

(* A row is added only where no row has its hash.                            *)
LEMMA FileStoredAdds ==
    ASSUME NEW rows \in SUBSET FileRows, NEW old \in Documents, NEW content \in Documents
    PROVE  LET more == FileStored(rows, old, content)
           IN  /\ more \in SUBSET FileRows /\ rows \subseteq more
               /\ \E f \in more : f.hashed = old
               /\ \A f \in more : f \in rows
                                    \/ (f.hashed = old /\ f.content = content /\ \A r \in rows : r.hashed # old)
PROOF
  <1> DEFINE row == [hashed |-> old, content |-> content]
  <1>1. row \in FileRows /\ row.hashed = old /\ row.content = content
    BY DEF FileRows
  <1> HIDE DEF row
  <1>2. FileStored(rows, old, content) = IF \E f \in rows : f.hashed = old THEN rows ELSE rows \cup {row}
    BY DEF FileStored, row
  <1>3. PICK more : more = FileStored(rows, old, content)
    OBVIOUS
  <1>4. CASE \E f \in rows : f.hashed = old
    <2>1. more = rows
      BY <1>2, <1>3, <1>4
    <2> QED BY <1>3, <1>4, <2>1, Zenon
  <1>5. CASE ~ \E f \in rows : f.hashed = old
    <2>1. more = rows \cup {row}
      BY <1>2, <1>3, <1>5
    <2>2. /\ more \in SUBSET FileRows /\ rows \subseteq more
          /\ \E f \in more : f.hashed = old
          /\ \A f \in more : f \in rows
                               \/ (f.hashed = old /\ f.content = content /\ \A r \in rows : r.hashed # old)
      BY <1>1, <1>5, <2>1
    <2> QED BY <1>3, <2>2
  <1> QED BY <1>4, <1>5

(* store_file_node does not touch the row of the file init stored.         *)
LEMMA InitFileStays ==
    ASSUME InitFileKept, files \subseteq FileRows, NEW old \in Documents, NEW content \in Documents,
           files' = FileStored(files, old, content)
    PROVE  InitFileKept'
PROOF
  <1>1. files \in SUBSET FileRows
    OBVIOUS
  <1>2. PICK more : more = FileStored(files, old, content)
    OBVIOUS
  <1>3. /\ files \subseteq more
        /\ \A f \in more : f \in files
                             \/ (f.hashed = old /\ f.content = content /\ \A r \in files : r.hashed # old)
    BY <1>1, <1>2, FileStoredAdds
  <1>4. (\E f \in more : f.hashed = InitText) /\ \A f \in more : f.hashed = InitText => f.content = InitText
    BY <1>3 DEF InitFileKept
  <1> QED BY <1>2, <1>4 DEF InitFileKept

(* What was read before a snapshot is stored is read after it.               *)
LEMMA GrownReads ==
    ASSUME NEW old, GrownBy(snaps, snaps', old), ReadBeforeWritten, UNCHANGED restoring
    PROVE  ReadBeforeWritten'
PROOF
  <1> SUFFICES ASSUME restoring.step = "write"
               PROVE  /\ restoring.staged \in DOMAIN snaps'
                      /\ Read(restoring.staged)'[2]
                      /\ BackupText(restoring.backup)[2]
    BY DEF ReadBeforeWritten
  <1>1. /\ restoring.staged \in DOMAIN snaps /\ Read(restoring.staged)[2]
        /\ BackupText(restoring.backup)[2]
    BY DEF ReadBeforeWritten
  <1>2. restoring.staged \in DOMAIN snaps' /\ snaps'[restoring.staged] = snaps[restoring.staged]
    BY <1>1 DEF GrownBy
  <1>3. Read(restoring.staged)' = Read(restoring.staged)
    BY <1>2 DEF Read
  <1> QED BY <1>1, <1>2, <1>3

(* Storing a delta whose file has a row keeps every delta's file with a row. *)
LEMMA GrownFiles ==
    ASSUME NEW old, GrownBy(snaps, snaps', old), files \subseteq files', HeldIn(files', old),
           \A i \in DOMAIN snaps : \A k \in DOMAIN snaps[i].deltas : HeldIn(files, snaps[i].deltas[k].old)
    PROVE  \A i \in DOMAIN snaps' : \A k \in DOMAIN snaps'[i].deltas : HeldIn(files', snaps'[i].deltas[k].old)
PROOF
  <1> TAKE i \in DOMAIN snaps'
  <1> TAKE k \in DOMAIN snaps'[i].deltas
  <1>2. CASE snaps'[i].deltas[k].old = old
    <2>1. PICK f \in files' : f.hashed = old
      BY DEF HeldIn
    <2>2. f.hashed = snaps'[i].deltas[k].old
      BY <1>2, <2>1
    <2> QED BY <2>2, Zenon DEF HeldIn
  <1>3. CASE \E j \in DOMAIN snaps : \E l \in DOMAIN snaps[j].deltas :
                snaps'[i].deltas[k].old = snaps[j].deltas[l].old
    <2>1. PICK j \in DOMAIN snaps : \E l \in DOMAIN snaps[j].deltas :
                snaps'[i].deltas[k].old = snaps[j].deltas[l].old
      BY <1>3, Zenon
    <2>2. PICK l \in DOMAIN snaps[j].deltas : snaps'[i].deltas[k].old = snaps[j].deltas[l].old
      BY <2>1, Zenon
    <2>3. HeldIn(files, snaps[j].deltas[l].old)
      BY Zenon
    <2>4. PICK f \in files : f.hashed = snaps[j].deltas[l].old
      BY <2>3, Zenon DEF HeldIn
    <2>5. f \in files' /\ f.hashed = snaps'[i].deltas[k].old
      BY <2>2, <2>4
    <2> QED BY <2>5, Zenon DEF HeldIn
  <1> QED BY <1>2, <1>3, Zenon DEF GrownBy

(* A copy is of a chain that was stored, with the file init stored.          *)
LEMMA CopyMade ==
    ASSUME StoreShape, InitFileKept, NEW id \in DOMAIN snaps
    PROVE  /\ Copy(id) \in Copies /\ BackupText(Copy(id))[1] = TextAt(id)
           /\ \E k \in DOMAIN snaps[id].deltas : Copy(id).old = snaps[id].deltas[k].old
PROOF
  <1>1. PICK chain \in Seq(Deltas) : chain = snaps[id].deltas /\ chain # << >>
    BY SnapshotReads
  <1>2. PICK read \in Seq(Deltas) : read = Returned(chain) /\ read # << >>
    BY <1>1, ReturnedDeltas
  <1>3. FileContent(files, InitText) = InitText
    <2>1. \E f : f \in files /\ f.hashed = InitText
      BY DEF InitFileKept
    <2>2. PICK f : f = CHOOSE g \in files : g.hashed = InitText
      OBVIOUS
    <2>3. f \in files /\ f.hashed = InitText
      BY <2>1, <2>2, Zenon
    <2> QED BY <2>2, <2>3 DEF FileContent, InitFileKept
  <1>4. PICK last \in Deltas : last = Last(read) /\ \E k \in DOMAIN read : last = read[k]
    <2>1. Len(read) \in Nat /\ Len(read) # 0 /\ DOMAIN read = 1..Len(read)
      BY <1>2, LenProperties, EmptySeq
    <2>2. Len(read) \in DOMAIN read
      BY <2>1
    <2>3. Last(read) = read[Len(read)]
      BY DEF Last
    <2> QED BY <2>2, <2>3, ElementOfSeq, <2>1
  <1>5. PICK j \in DOMAIN chain : last = chain[j]
    <2>1. PICK k \in DOMAIN read : last = read[k]
      BY <1>4
    <2>2. \A i \in DOMAIN read : \E j \in DOMAIN chain : read[i] = chain[j]
      BY <1>2, ReturnedDeltas
    <2> QED BY <2>1, <2>2
  <1>6. last.old \in Documents
    BY DEF Deltas
  <1>7. Copy(id) = [source |-> id, old |-> last.old, deltas |-> read, content |-> InitText]
    BY <1>1, <1>2, <1>3, <1>4 DEF Copy, LastOld
  <1>8. id \in Nat
    BY LenProperties DEF StoreShape
  <1>9. Copy(id) \in Copies
    BY <1>2, <1>6, <1>7, <1>8, DocumentsGiven DEF Copies, Chains
  <1>10. Copy(id).old = last.old /\ Copy(id).content = InitText /\ Copy(id).deltas = read
    BY <1>7
  <1>11. BackupText(Copy(id))[1] = TextAt(id)
    BY <1>1, <1>2, <1>10 DEF BackupText, TextAt, Read
  <1> QED BY <1>1, <1>5, <1>9, <1>10, <1>11

(* The invariant holds in the repository as init leaves it.                *)
LEMMA BackupInit == Init => BackupInv
PROOF
  <1> SUFFICES ASSUME Init PROVE BackupInv
    OBVIOUS
  <1>1. PICK none \in Diffs(Alphabet) : none = [changes |-> << >>, reach |-> 0]
    <2>1. << >> \in Seq(Changes(Alphabet)) /\ DOMAIN << >> = {}
      BY EmptySeq
    <2> QED BY <2>1 DEF Diffs
  <1>2. PICK d \in Deltas : d = InitDelta /\ d.old = InitText
    BY <1>1, DocumentsGiven, DeltaIsDelta DEF InitDelta
  <1>3. PICK s \in Snapshots : s = InitSnapshot /\ s.deltas = <<d>>
    <2>1. PICK chain \in Chains : chain = <<d>>
      <3>1. <<d>> \in Seq(Deltas) /\ Len(<<d>>) = 1 /\ Len(<< >>) = 0
        OBVIOUS
      <3> QED BY <3>1 DEF Chains
    <2>2. PICK ids \in Seq(Nat) : ids = << >>
      BY EmptySeq
    <2>3. [deltas |-> chain, parents |-> ids] \in Snapshots
      BY DEF Snapshots
    <2>4. InitSnapshot = [deltas |-> chain, parents |-> ids]
      BY <1>2, <2>1, <2>2 DEF InitSnapshot
    <2> QED BY <2>1, <2>3, <2>4
  <1>4. snaps = <<s>> /\ snaps \in Seq(Snapshots) /\ DOMAIN snaps = {1} /\ snaps[1] = s
    BY <1>3 DEF Init
  <1>5. \A k \in DOMAIN s.deltas : s.deltas[k] = d
    BY <1>3
  <1>6. StoreShape
    BY <1>4, DocumentsGiven DEF Init, StoreShape, Idling
  <1>7. InitFileKept /\ FilesAddressed /\ HeldIn(files, InitText)
    BY DEF Init, InitFileKept, FilesAddressed, HeldIn
  <1>8. BackupsReadBack
    BY DEF Init, BackupsReadBack
  <1>9. ReadBeforeWritten
    BY DEF Init, ReadBeforeWritten, Idle
  <1>10. FilesFound
    <2>1. \A i \in DOMAIN snaps : \A k \in DOMAIN snaps[i].deltas : HeldIn(files, snaps[i].deltas[k].old)
      BY <1>2, <1>4, <1>5, <1>7
    <2> QED BY <1>7, <2>1 DEF FilesFound, Init
  <1> QED BY <1>6, <1>7, <1>8, <1>9, <1>10 DEF BackupInv

(* An edit stores the row of the text it diffs against before the delta    *)
(* that names it.                                                          *)
LEMMA EditKeeps ==
    ASSUME BackupInv, NEW t \in Texts, Edit(t)
    PROVE  BackupInv'
PROOF
  <1>1. StoreShape /\ InitFileKept /\ BackupsReadBack /\ FilesFound /\ ReadBeforeWritten
    BY DEF BackupInv
  <1>2. UNCHANGED <<backups, restoring, taken, losses>>
    BY DEF Edit
  <1>3. PICK old \in Documents : old = TextAt(manual)
    BY <1>1, SnapshotReads DEF StoreShape
  <1>4. /\ GrownBy(snaps, snaps', old)
        /\ manual' \in DOMAIN snaps' /\ staged' \in DOMAIN snaps'
        /\ present' \subseteq present \cup {manual', staged'}
        /\ files' = FileStored(files, old, old)
    BY <1>1, <1>3, EditGrows
  <1>5. files \in SUBSET FileRows
    BY <1>1 DEF StoreShape, FileRows
  <1>6. PICK more : more = FileStored(files, old, old)
    OBVIOUS
  <1>7. /\ more \in SUBSET FileRows /\ files \subseteq more
        /\ \E f \in more : f.hashed = old
        /\ \A f \in more : f \in files
                             \/ (f.hashed = old /\ f.content = old /\ \A r \in files : r.hashed # old)
    BY <1>5, <1>6, FileStoredAdds
  <1>8. StoreShape'
    <2>1. snaps' \in Seq(Snapshots) /\ DOMAIN snaps \subseteq DOMAIN snaps'
      BY <1>4 DEF GrownBy
    <2>2. present' \subseteq DOMAIN snaps'
      BY <1>1, <1>4, <2>1 DEF StoreShape
    <2>3. files' \subseteq [hashed : Documents, content : Documents]
      BY <1>4, <1>6, <1>7 DEF FileRows
    <2> QED BY <1>1, <1>2, <1>4, <2>1, <2>2, <2>3 DEF StoreShape
  <1>9. InitFileKept'
    BY <1>1, <1>4, <1>5, InitFileStays
  <1>10. BackupsReadBack'
    BY <1>1, <1>2 DEF BackupsReadBack
  <1>11. ReadBeforeWritten'
    BY <1>1, <1>2, <1>4, GrownReads
  <1>12. FilesFound'
    <2> SUFFICES ASSUME losses = 0
                 PROVE  /\ FilesAddressed'
                        /\ \A i \in DOMAIN snaps' : \A k \in DOMAIN snaps'[i].deltas :
                              HeldIn(files', snaps'[i].deltas[k].old)
                        /\ \A b \in backups : HeldIn(files', b.old)
                        /\ restoring # Idle => HeldIn(files', restoring.backup.old)
      BY <1>2 DEF FilesFound
    <2>1. /\ FilesAddressed
          /\ \A i \in DOMAIN snaps : \A k \in DOMAIN snaps[i].deltas :
                HeldIn(files, snaps[i].deltas[k].old)
          /\ \A b \in backups : HeldIn(files, b.old)
          /\ restoring # Idle => HeldIn(files, restoring.backup.old)
      BY <1>1 DEF FilesFound
    <2>2. \A x : HeldIn(files, x) => HeldIn(files', x)
      BY <1>4, <1>6, <1>7 DEF HeldIn
    <2>3. HeldIn(files', old) /\ files \subseteq files'
      BY <1>4, <1>6, <1>7 DEF HeldIn
    <2>4. \A i \in DOMAIN snaps' : \A k \in DOMAIN snaps'[i].deltas :
              HeldIn(files', snaps'[i].deltas[k].old)
      BY <1>4, <2>1, <2>3, GrownFiles
    <2>5. FilesAddressed'
      BY <1>4, <1>6, <1>7, <2>1 DEF FilesAddressed
    <2> QED BY <2>1, <2>2, <2>4, <2>5
  <1> QED BY <1>8, <1>9, <1>10, <1>11, <1>12 DEF BackupInv

(* Steps that store no snapshot and no file, and do not restore              *)
LEMMA SameStoreKeeps ==
    ASSUME BackupInv, UNCHANGED <<snaps, manual, staged, files, backups, restoring, taken, losses>>,
           present' \subseteq present
    PROVE  BackupInv'
PROOF
  <1>1. StoreShape' /\ InitFileKept' /\ BackupsReadBack'
    BY DEF BackupInv, StoreShape, InitFileKept, BackupsReadBack
  <1>2. FilesFound'
    BY DEF BackupInv, FilesFound, FilesAddressed
  <1>3. ReadBeforeWritten'
    BY DEF BackupInv, ReadBeforeWritten, Read
  <1> QED BY <1>1, <1>2, <1>3 DEF BackupInv

(* Losing the core's rows leaves the ids and the backups.                  *)
LEMMA LoseKeeps == ASSUME BackupInv, Lose PROVE BackupInv'
PROOF
  <1>1. 1 \in DOMAIN snaps
    BY LenProperties DEF BackupInv, StoreShape
  <1>2. losses' \in Nat /\ losses' # 0
    BY DEF BackupInv, StoreShape, Lose
  <1>3. files' = {[hashed |-> InitText, content |-> InitText]}
    BY DEF Lose
  <1>4. files' \subseteq [hashed : Documents, content : Documents] /\ InitFileKept'
    BY <1>3, DocumentsGiven DEF InitFileKept
  <1>5. StoreShape'
    BY <1>1, <1>2, <1>4 DEF BackupInv, StoreShape, Lose
  <1>6. BackupsReadBack'
    BY DEF BackupInv, BackupsReadBack, Lose
  <1>7. FilesFound'
    BY <1>2 DEF FilesFound
  <1>8. ReadBeforeWritten'
    BY DEF Lose, ReadBeforeWritten, Idle
  <1> QED BY <1>4, <1>5, <1>6, <1>7, <1>8 DEF BackupInv

(* A backup is of a chain over the file init stored.                       *)
LEMMA BackupKeeps == ASSUME BackupInv, NEW id \in present, Backup(id) PROVE BackupInv'
PROOF
  <1>1. StoreShape /\ InitFileKept /\ id \in DOMAIN snaps
    BY DEF BackupInv, StoreShape
  <1>2. PICK c \in Copies : c = Copy(id) /\ BackupText(c)[1] = TextAt(id)
    BY <1>1, CopyMade
  <1>3. \E k \in DOMAIN snaps[id].deltas : c.old = snaps[id].deltas[k].old
    BY <1>1, <1>2, CopyMade
  <1>4. /\ backups' = backups \cup {c}
        /\ taken' = taken \cup {[backup |-> c, text |-> TextAt(id)]}
        /\ UNCHANGED <<snaps, present, manual, staged, files, restoring, losses>>
    BY <1>2 DEF Backup
  <1>5. StoreShape'
    BY <1>1, <1>4 DEF StoreShape
  <1>6. InitFileKept' /\ ReadBeforeWritten'
    BY <1>4 DEF BackupInv, InitFileKept, ReadBeforeWritten, Read
  <1>7. BackupsReadBack'
    <2> SUFFICES ASSUME NEW x \in taken' PROVE BackupText(x.backup)[1] = x.text
      BY DEF BackupsReadBack
    <2>1. CASE x \in taken
      BY <2>1 DEF BackupInv, BackupsReadBack
    <2>2. CASE x = [backup |-> c, text |-> TextAt(id)]
      <3>1. x.backup = c /\ x.text = TextAt(id)
        BY <2>2
      <3> QED BY <1>2, <3>1
    <2> QED BY <1>4, <2>1, <2>2
  <1>8. FilesFound'
    <2>1. losses = 0 => HeldIn(files, c.old)
      BY <1>1, <1>3 DEF BackupInv, FilesFound
    <2> QED BY <1>4, <2>1 DEF BackupInv, FilesFound, FilesAddressed
  <1> QED BY <1>5, <1>6, <1>7, <1>8 DEF BackupInv

(* Deleting a backup forgets what it was taken of.                         *)
LEMMA DeleteKeeps == ASSUME BackupInv, NEW b \in backups, Delete(b) PROVE BackupInv'
PROOF
  <1>1. /\ backups' \subseteq backups /\ taken' \subseteq taken
        /\ UNCHANGED <<snaps, present, manual, staged, files, restoring, losses>>
    BY DEF Delete
  <1>2. StoreShape' /\ InitFileKept' /\ BackupsReadBack'
    BY <1>1 DEF BackupInv, StoreShape, InitFileKept, BackupsReadBack
  <1>3. FilesFound' /\ ReadBeforeWritten'
    BY <1>1 DEF BackupInv, FilesFound, FilesAddressed, ReadBeforeWritten, Read
  <1> QED BY <1>2, <1>3 DEF BackupInv

(* A restore stores a row only where there is none: never, until a loss.   *)
LEMMA RestoreFileKeeps == ASSUME BackupInv, NEW b \in backups, RestoreFile(b) PROVE BackupInv'
PROOF
  <1>1. StoreShape /\ InitFileKept /\ BackupsReadBack /\ FilesFound
    BY DEF BackupInv
  <1>2. /\ files' = FileStored(files, b.old, b.content)
        /\ restoring' = [step |-> "merge", backup |-> b]
        /\ UNCHANGED <<snaps, present, manual, staged, backups, taken, losses>>
    BY DEF RestoreFile
  <1>3. b \in Copies /\ b.old \in Documents /\ b.content \in Documents
    BY <1>1 DEF StoreShape, Copies
  <1>4. files \in SUBSET FileRows
    BY <1>1 DEF StoreShape, FileRows
  <1>5. PICK more : more = FileStored(files, b.old, b.content)
    OBVIOUS
  <1>6. more \in SUBSET FileRows
    BY <1>3, <1>4, <1>5, FileStoredAdds
  <1>7. restoring' \in Merging /\ restoring'.step = "merge" /\ restoring'.backup = b
    BY <1>2, <1>3 DEF Merging
  <1>8. StoreShape'
    BY <1>1, <1>2, <1>5, <1>6, <1>7 DEF StoreShape, FileRows
  <1>9. InitFileKept'
    BY <1>1, <1>2, <1>3, <1>4, InitFileStays
  <1>10. BackupsReadBack'
    BY <1>1, <1>2 DEF BackupsReadBack
  <1>11. ReadBeforeWritten'
    BY <1>7 DEF ReadBeforeWritten
  <1>12. FilesFound'
    <2> SUFFICES ASSUME losses = 0 PROVE FilesFound'
      BY <1>2 DEF FilesFound
    <2>1. HeldIn(files, b.old)
      BY <1>1 DEF FilesFound
    <2>2. files' = files
      BY <1>2, <2>1 DEF FileStored, HeldIn
    <2> QED BY <1>1, <1>2, <1>7, <2>1, <2>2 DEF FilesFound, FilesAddressed
  <1> QED BY <1>8, <1>9, <1>10, <1>11, <1>12 DEF BackupInv

(* A restore goes on only if it could read both texts.                     *)
LEMMA RestoreReadKeeps == ASSUME BackupInv, RestoreRead PROVE BackupInv'
PROOF
  <1>1. StoreShape /\ InitFileKept /\ BackupsReadBack /\ FilesFound
    BY DEF BackupInv
  <1>2. restoring.step = "merge" /\ restoring \in Merging
    BY <1>1 DEF RestoreRead, StoreShape, Idling, Writing, Idle
  <1>3. PICK b \in Copies : b = restoring.backup
    BY <1>2 DEF Merging
  <1>4. UNCHANGED <<snaps, present, manual, staged, files, backups, taken, losses>>
    BY DEF RestoreRead
  <1>5. \/ restoring' = Idle
        \/ BackupText(b)[2] /\ Readable(staged)
             /\ restoring' = [step |-> "write", backup |-> b, staged |-> staged]
    BY <1>3 DEF RestoreRead
  <1>6. staged \in DOMAIN snaps /\ staged \in Nat
    BY <1>1, LenProperties DEF StoreShape
  <1>7. restoring' = Idle \/ (restoring' \in Writing /\ restoring'.backup = b)
    BY <1>5, <1>6 DEF Writing
  <1>8. StoreShape'
    BY <1>1, <1>4, <1>7 DEF StoreShape, Idling
  <1>9. InitFileKept' /\ BackupsReadBack'
    BY <1>1, <1>4 DEF InitFileKept, BackupsReadBack
  <1>10. FilesFound'
    <2>1. restoring # Idle
      BY <1>2 DEF Idle
    <2> QED BY <1>1, <1>3, <1>4, <1>7, <2>1 DEF FilesFound, FilesAddressed
  <1>11. ReadBeforeWritten'
    <2>1. CASE restoring' = Idle
      BY <2>1 DEF ReadBeforeWritten, Idle
    <2>2. CASE BackupText(b)[2] /\ Readable(staged)
                 /\ restoring' = [step |-> "write", backup |-> b, staged |-> staged]
      <3>1. restoring'.backup = b /\ restoring'.staged = staged
        BY <2>2
      <3>2. Read(staged)[2]
        BY <2>2 DEF Readable
      <3> QED BY <1>4, <1>6, <2>2, <3>1, <3>2 DEF ReadBeforeWritten, Read
    <2> QED BY <1>5, <2>1, <2>2
  <1> QED BY <1>8, <1>9, <1>10, <1>11 DEF BackupInv

(* A restore appends a delta whose file has a row.                         *)
LEMMA RestoreWriteKeeps == ASSUME BackupInv, RestoreWrite PROVE BackupInv'
PROOF
  <1>1. StoreShape /\ InitFileKept /\ BackupsReadBack /\ FilesFound /\ ReadBeforeWritten
    BY DEF BackupInv
  <1>2. restoring' = Idle /\ UNCHANGED <<manual, files, backups, taken, losses>>
    BY DEF RestoreWrite
  <1>3. restoring # Idle
    BY DEF RestoreWrite, Idle
  <1>4. \/ UNCHANGED <<snaps, present, staged>>
        \/ /\ GrownBy(snaps, snaps', restoring.backup.old)
           /\ staged' \in DOMAIN snaps' /\ present' = present \cup {staged'}
    BY <1>1, RestoreGrows
  <1>5. StoreShape'
    <2>1. CASE UNCHANGED <<snaps, present, staged>>
      BY <1>1, <1>2, <2>1 DEF StoreShape, Idling
    <2>2. CASE /\ GrownBy(snaps, snaps', restoring.backup.old)
               /\ staged' \in DOMAIN snaps' /\ present' = present \cup {staged'}
      <3>1. snaps' \in Seq(Snapshots) /\ DOMAIN snaps \subseteq DOMAIN snaps'
        BY <2>2 DEF GrownBy
      <3> QED BY <1>1, <1>2, <2>2, <3>1 DEF StoreShape, Idling
    <2> QED BY <1>4, <2>1, <2>2
  <1>6. InitFileKept' /\ BackupsReadBack'
    BY <1>1, <1>2 DEF InitFileKept, BackupsReadBack
  <1>7. ReadBeforeWritten'
    BY <1>2 DEF ReadBeforeWritten, Idle
  <1>8. FilesFound'
    <2> SUFFICES ASSUME losses = 0
                 PROVE  \A i \in DOMAIN snaps' : \A k \in DOMAIN snaps'[i].deltas :
                              HeldIn(files', snaps'[i].deltas[k].old)
      BY <1>1, <1>2 DEF FilesFound, FilesAddressed
    <2>1. /\ \A i \in DOMAIN snaps : \A k \in DOMAIN snaps[i].deltas :
                HeldIn(files, snaps[i].deltas[k].old)
          /\ HeldIn(files, restoring.backup.old)
      BY <1>1, <1>3 DEF FilesFound
    <2>2. CASE UNCHANGED <<snaps, present, staged>>
      BY <1>2, <2>1, <2>2
    <2>3. CASE GrownBy(snaps, snaps', restoring.backup.old)
      <3>1. PICK old : old = restoring.backup.old
        OBVIOUS
      <3>2. GrownBy(snaps, snaps', old) /\ HeldIn(files', old) /\ files \subseteq files'
        BY <1>2, <2>1, <2>3, <3>1
      <3> QED BY <2>1, <3>2, GrownFiles
    <2> QED BY <1>4, <2>2, <2>3
  <1> QED BY <1>5, <1>6, <1>7, <1>8 DEF BackupInv

(* The diffs of a chain with one delta more                                *)
LEMMA DiffsAppend ==
    ASSUME NEW chain \in Seq(Deltas), NEW new \in Deltas, NEW diffs \in Seq(Diffs(Alphabet)),
           diffs = [k \in DOMAIN chain |-> chain[k].diff], new.diff \in Diffs(Alphabet)
    PROVE  [k \in DOMAIN Append(chain, new) |-> Append(chain, new)[k].diff] = Append(diffs, new.diff)
PROOF
  <1>1. Len(chain) \in Nat /\ DOMAIN chain = 1..Len(chain) /\ Len(diffs) = Len(chain)
    BY LenProperties
  <1>2. PICK more : more = Append(chain, new)
    OBVIOUS
  <1>3. /\ more \in Seq(Deltas) /\ DOMAIN more = 1..(Len(chain) + 1)
        /\ \A k \in 1..Len(chain) : more[k] = chain[k]
        /\ more[Len(chain) + 1] = new
    BY <1>2, AppendProperties, LenProperties
  <1>4. PICK e : e = new.diff
    OBVIOUS
  <1>5. PICK longer : longer = Append(diffs, e)
    OBVIOUS
  <1>6. /\ longer \in Seq(Diffs(Alphabet)) /\ DOMAIN longer = 1..(Len(chain) + 1)
        /\ Len(longer) = Len(chain) + 1
        /\ \A k \in 1..Len(chain) : longer[k] = diffs[k]
        /\ longer[Len(chain) + 1] = e
    BY <1>1, <1>4, <1>5, AppendProperties, LenProperties
  <1>7. ASSUME NEW k \in 1..(Len(chain) + 1) PROVE more[k].diff = longer[k]
    <2>1. CASE k \in 1..Len(chain)
      BY <1>1, <1>3, <1>6, <2>1
    <2>2. CASE k = Len(chain) + 1
      BY <1>3, <1>4, <1>6, <2>2
    <2> QED BY <1>1, <2>1, <2>2
  <1>8. PICK given : given = [k \in 1..(Len(chain) + 1) |-> more[k].diff]
    OBVIOUS
  <1>9. given \in Seq(Diffs(Alphabet)) /\ Len(given) = Len(chain) + 1
        /\ \A k \in 1..(Len(chain) + 1) : given[k] = longer[k]
    <2>1. \A k \in 1..(Len(chain) + 1) : longer[k] \in Diffs(Alphabet)
      BY <1>6, ElementOfSeq
    <2>2. given \in [1..(Len(chain) + 1) -> Diffs(Alphabet)]
      BY <1>7, <1>8, <2>1
    <2>3. Len(chain) + 1 \in Nat
      BY <1>1
    <2>4. given \in Seq(Diffs(Alphabet))
      BY <2>2, <2>3
    <2>5. Len(given) = Len(chain) + 1
      BY <2>2, <2>3, <2>4, LenProperties
    <2> QED BY <1>7, <1>8, <2>4, <2>5
  <1>10. given = longer
    BY <1>6, <1>9, SeqEqual
  <1> QED BY <1>2, <1>3, <1>4, <1>5, <1>8, <1>10

(* One step for each action                                                *)
LEMMA BackupInvariant == Spec => []BackupInv
PROOF
  <1>1. ASSUME BackupInv, [Next]_vars PROVE BackupInv'
    <2>1. ASSUME NEW t \in Texts, Edit(t) PROVE BackupInv'
      BY <1>1, <2>1, EditKeeps
    <2>2. CASE Clean
      BY <1>1, <2>2, SameStoreKeeps DEF Clean
    <2>3. CASE Lose
      BY <1>1, <2>3, LoseKeeps
    <2>4. ASSUME NEW id \in present, Backup(id) PROVE BackupInv'
      BY <1>1, <2>4, BackupKeeps
    <2>5. ASSUME NEW b \in backups, Delete(b) \/ RestoreFile(b) PROVE BackupInv'
      BY <1>1, <2>5, DeleteKeeps, RestoreFileKeeps
    <2>6. CASE RestoreRead
      BY <1>1, <2>6, RestoreReadKeeps
    <2>7. CASE RestoreWrite
      BY <1>1, <2>7, RestoreWriteKeeps
    <2>8. CASE UNCHANGED vars
      BY <1>1, <2>8, SameStoreKeeps DEF vars
    <2> QED BY <1>1, <2>1, <2>2, <2>3, <2>4, <2>5, <2>6, <2>7, <2>8 DEF Next, BackupNext
  <1> QED BY <1>1, BackupInit, PTL DEF Spec

(* A backup reads back as the text it was taken of, after any edits,       *)
(* cleans, restores and losses of the core's database: for all texts, and  *)
(* any number of snapshots, backups and losses.  What makes it so is      *)
(* that a copy carries the content of the chain's first file, and    *)
(* that no step changes the row of that file.                              *)
THEOREM BackupsAlwaysReadBack == Spec => []BackupsReadBack
PROOF
  <1>1. BackupInv => BackupsReadBack
    BY DEF BackupInv
  <1> QED BY <1>1, BackupInvariant, PTL

(* Until the core loses rows, file_nodes maps every hash to the content it *)
(* was computed of, although a restore files the content of one delta      *)
(* under the hash of another: the row is there before, since every delta   *)
(* and backup was made after it was stored.                                *)
THEOREM FilesStayAddressed == Spec => []FilesAddressedUntilLoss
PROOF
  <1>1. BackupInv => FilesAddressedUntilLoss
    BY DEF BackupInv, FilesFound, FilesAddressedUntilLoss
  <1> QED BY <1>1, BackupInvariant, PTL

(* A restore onto a staged that reads as the backup's base gives the lines *)
(* that were backed up, whichever diff it stores (a new one, or the only   *)
(* delta of either side used again), as long as the delta it appends is    *)
(* not in the chain already and neither chain loses a blank line on the    *)
(* way; a blank last line may then be lost at the end.                     *)
THEOREM RestoresReproduce == Spec => RestoresOntoBase
PROOF
  <1> DEFINE LandsOnBase ==
        Restores /\ TextAt(staged) = restoring.backup.content /\ Fresh /\ BothInFull =>
            Gives(TextAt(staged)', BackupText(restoring.backup)[1].lines, InitText.ends)
  <1>1. ASSUME BackupInv, [Next]_vars PROVE [LandsOnBase]_vars
    <2> SUFFICES ASSUME Restores, TextAt(staged) = restoring.backup.content, Fresh, BothInFull
                 PROVE  Gives(TextAt(staged)', BackupText(restoring.backup)[1].lines, InitText.ends)
      OBVIOUS
    <2>1. /\ StoreShape /\ ReadBeforeWritten
          /\ restoring.step = "write" /\ restoring' = Idle
          /\ staged' # staged /\ staged = restoring.staged
      BY <1>1 DEF BackupInv, Restores
    <2>2. RestoreWrite
      <3>1. restoring' # restoring /\ restoring # Idle /\ restoring.step # "merge"
        BY <2>1 DEF Idle
      <3>2. ~ UNCHANGED vars
        BY <3>1 DEF vars
      <3>3. \A t \in Texts : ~ Edit(t)
        BY <3>1 DEF Edit
      <3>4. ~ Clean /\ ~ Lose
        BY <3>1 DEF Clean, Lose
      <3>5. (\A id \in present : ~ Backup(id)) /\ (\A b \in backups : ~ Delete(b) /\ ~ RestoreFile(b))
        BY <3>1 DEF Backup, Delete, RestoreFile
      <3>6. ~ RestoreRead
        BY <3>1 DEF RestoreRead
      <3> QED BY <1>1, <3>2, <3>3, <3>4, <3>5, <3>6 DEF Next, BackupNext
    <2>3. PICK m \in MergedTexts : \E e \in MergeDiffs(m) :
                /\ DeltaOf(restoring.backup.old, e, "backup") \in Deltas
                /\ GrownBy(snaps, snaps', restoring.backup.old)
                /\ staged' \in DOMAIN snaps' /\ present' = present \cup {staged'}
                /\ snaps'[staged'].deltas
                     = Append(snaps[restoring.staged].deltas, DeltaOf(restoring.backup.old, e, "backup"))
      BY <2>1, <2>2, RestoreGrows
    <2>4. PICK e \in MergeDiffs(m) :
                /\ DeltaOf(restoring.backup.old, e, "backup") \in Deltas
                /\ snaps'[staged'].deltas
                     = Append(snaps[restoring.staged].deltas, DeltaOf(restoring.backup.old, e, "backup"))
      BY <2>3
    <2>5. PICK new \in Deltas : new = DeltaOf(restoring.backup.old, e, "backup") /\ new.diff = e
      BY <2>4 DEF DeltaOf
    <2>6. PICK chain \in Seq(Deltas) : chain = snaps[staged].deltas
      BY <2>1, SnapshotReads DEF StoreShape
    <2>7. PICK x : x = restoring.backup.content
      OBVIOUS
    <2>8. PICK got : got = BackupText(restoring.backup)[1].lines
      OBVIOUS
    <2>9. e \in Diffs(Alphabet) /\ Applicable(x.lines, e) /\ ApplyDiff(x.lines, e) = got
      BY <2>1, <2>7, <2>8, RestoreDiffs DEF BothInFull
    <2>10. snaps'[staged'].deltas = Append(chain, new)
      BY <2>1, <2>4, <2>5, <2>6
    <2>11. \A k \in DOMAIN chain : chain[k] # new
      <3>1. Last(Append(chain, new)) = new
        BY AppendProperties, LenProperties DEF Last
      <3> QED BY <2>6, <2>10, <3>1 DEF Fresh
    <2>12. PICK read \in Seq(Deltas) : read = Returned(chain)
      BY ReturnedDeltas
    <2>13. Returned(Append(chain, new)) = Append(read, new)
      BY <2>11, <2>12, ReturnedAppend
    <2>14. PICK diffs \in Seq(Diffs(Alphabet)) : diffs = [k \in DOMAIN read |-> read[k].diff]
      BY DocumentsGiven, ChainReads
    <2>15. [k \in DOMAIN Append(read, new) |-> Append(read, new)[k].diff] = Append(diffs, e)
      BY <2>5, <2>9, <2>14, DiffsAppend
    <2>16. PICK was : was = ApplyDeltas(InitText, diffs)
      OBVIOUS
    <2>17. /\ Read(staged) = was
           /\ Read(staged)' = ApplyDeltas(InitText, Append(diffs, e))
      BY <2>6, <2>10, <2>12, <2>13, <2>14, <2>15, <2>16 DEF Read, Rebuilt, DiffsIn
    <2>18. was[2] /\ was[1] = x
      BY <1>1, <2>1, <2>7, <2>17 DEF ReadBeforeWritten, TextAt
    <2> DEFINE before == PatchedBy(InitText, diffs)
               next == Applied(before, e)
    <2>19. ApplyDeltas(InitText, Append(diffs, e)) = <<Text(next.lines, InitText.ends), next.fits>>
      BY <2>9, DocumentsGiven, OneMoreDelta, Zenon DEF Documents
    <2>20. next.lines = got
      <3>1. DiffsIn(read) = diffs /\ Rebuilt(InitText, read) = was
        BY <2>14, <2>16 DEF DiffsIn, Rebuilt
      <3>2. before.fits = was[2] /\ before \in Readings(Alphabet)
        BY <3>1, DocumentsGiven, ChainReads
      <3>3. before.lines = was[1].lines
        BY <2>6, <2>12, <3>1 DEF BothInFull, ReadInFull
      <3> HIDE DEF before
      <3> QED BY <2>9, <2>18, <3>2, <3>3 DEF Applied
    <2> HIDE DEF next
    <2>21. TextAt(staged)' = Text(got, InitText.ends)
      <3>1. PICK t : t = Text(got, InitText.ends)
        OBVIOUS
      <3>2. Read(staged)' = <<t, next.fits>>
        BY <2>17, <2>19, <2>20, <3>1
      <3>3. Read(staged)'[1] = t
        BY <3>2
      <3> QED BY <3>1, <3>3 DEF TextAt
    <2>22. Gives(Text(got, InitText.ends), got, InitText.ends)
      <3>1. got \in Seq(Alphabet)
        <4>1. restoring.backup \in Copies
          BY <2>1 DEF StoreShape, Idling, Merging, Writing, Idle
        <4>2. BackupText(restoring.backup)[1] \in Documents
          BY <4>1, ChainReads DEF Copies, Chains, BackupText
        <4> QED BY <2>8, <4>2 DEF Documents, TextsOver
      <3>2. InitText.ends \in BOOLEAN
        BY DocumentsGiven DEF Documents, TextsOver
      <3> QED BY <3>1, <3>2, JoinedGives
    <2> QED BY <2>8, <2>21, <2>22
  <1> QED BY <1>1, BackupInvariant, PTL DEF Spec, RestoresOntoBase
=============================================================================
