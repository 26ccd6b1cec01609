------------------------ MODULE CheckpointRestoreProofs ------------------------
(***************************************************************************)
(* Whatever calls are made of the library, a storage it tracks has what    *)
(* it has, its answers are right, and what could be restored can be.  The  *)
(* argument: every reachable state is typed (LibraryTyped), every step of  *)
(* one does one of a few things to it and its tables (StepDoes), and each  *)
(* property follows from what those things leave of it.  At the end, the   *)
(* graph of dag.rs, however commits, merges and removals make it grow:     *)
(* generations grow along its edges, so cutting a search short by them     *)
(* never hides an ancestor.                                                *)
(***************************************************************************)
EXTENDS CheckpointRestore, DagGrowth, FiniteSetTheorems, SequenceTheorems,
        WellFoundedInduction, TLAPS

-----------------------------------------------------------------------------
(* Numbers and loops *)

(* Induction up to a bound, for a set instead of a predicate.                *)
LEMMA UpTo ==
    ASSUME NEW n \in Nat, NEW S, 0 \in S, \A i \in 1..n : i - 1 \in S => i \in S
    PROVE  \A i \in 0..n : i \in S
PROOF
  <1> DEFINE T == {i \in 0..n : i \notin S}
  <1>1. SUFFICES ASSUME T # {} PROVE FALSE
    OBVIOUS
  <1>2. T \subseteq Nat
    OBVIOUS
  <1>3. PICK x \in T : \A y \in T : ~ (<<y, x>> \in OpToRel(<, Nat))
    BY <1>1, <1>2, NatLessThanWellFounded, WFMin, Zenon
  <1>4. \A y \in T : ~ (y < x)
    BY <1>2, <1>3 DEF OpToRel
  <1>5. x \in 1..n /\ x - 1 \in 0..n /\ x - 1 < x
    <2>1. x \in 0..n /\ x \notin S
      BY <1>3
    <2>2. x # 0
      BY <2>1
    <2> QED BY <2>1, <2>2
  <1>6. x - 1 \in S
    BY <1>4, <1>5
  <1> QED BY <1>3, <1>5, <1>6

(* A non-empty set of numbers has a least one.                               *)
LEMMA Least ==
    ASSUME NEW T \in SUBSET Nat, T # {}
    PROVE  \E x \in T : \A y \in T : x <= y
PROOF
  <1>1. PICK x \in T : \A y \in T : ~ (<<y, x>> \in OpToRel(<, Nat))
    BY NatLessThanWellFounded, WFMin, Zenon
  <1>2. \A y \in T : ~ (y < x)
    BY <1>1 DEF OpToRel
  <1> QED BY <1>2

(* A loop of n steps over states V: g[i] is the state after i of them.        *)
LoopSteps(V, n) == [V \X (1..n) -> V]

IsLoop(V, n, base, step, g) ==
    /\ g \in [0..n -> V]
    /\ g[0] = base
    /\ \A i \in 1..n : g[i] = step[<<g[i - 1], i>>]

(* Every such loop has its states.                                           *)
LEMMA LoopRuns ==
    ASSUME NEW X, NEW n \in Nat, NEW base \in X, NEW step \in LoopSteps(X, n)
    PROVE  \E g : IsLoop(X, n, base, step, g)
PROOF
  <1> DEFINE Is(m, g) == /\ g \in [0..m -> X] /\ g[0] = base
                         /\ \A i \in 1..m : g[i] = step[<<g[i - 1], i>>]
             S == {m \in 0..n : \E g : Is(m, g)}
  <1> USE DEF LoopSteps
  <1>1. 0 \in S
    <2>1. Is(0, [i \in 0..0 |-> base])
      OBVIOUS
    <2> HIDE DEF Is
    <2> QED BY <2>1
  <1>2. ASSUME NEW m \in 1..n, m - 1 \in S PROVE m \in S
    <2>1. PICK g : Is(m - 1, g)
      <3>1. \A x \in S : \E g : Is(x, g)
        OBVIOUS
      <3> HIDE DEF Is, S
      <3> QED BY <1>2, <3>1
    <2> DEFINE h == [i \in 0..m |-> IF i = m THEN step[<<g[m - 1], m>>] ELSE g[i]]
    <2>2. g[m - 1] \in X
      BY <2>1
    <2>3. step[<<g[m - 1], m>>] \in X
      BY <2>2
    <2>4. h \in [0..m -> X]
      <3> SUFFICES ASSUME NEW i \in 0..m PROVE h[i] \in X
        OBVIOUS
      <3>1. CASE i = m
        BY <2>3, <3>1
      <3>2. CASE i # m
        <4>1. i \in 0..(m - 1)
          BY <3>2
        <4> QED BY <2>1, <3>2, <4>1
      <3> QED BY <3>1, <3>2
    <2>5. h[0] = base
      BY <2>1
    <2>6. ASSUME NEW i \in 1..m PROVE h[i] = step[<<h[i - 1], i>>]
      <3>1. i - 1 \in 0..m /\ i - 1 # m /\ i \in 0..m
        OBVIOUS
      <3>2. h[i - 1] = g[i - 1]
        BY <3>1
      <3>3. CASE i = m
        BY <3>1, <3>2, <3>3
      <3>4. CASE i # m
        <4>1. i \in 1..(m - 1) /\ h[i] = g[i]
          BY <3>1, <3>4
        <4> QED BY <2>1, <3>2, <4>1
      <3> QED BY <3>3, <3>4
    <2>7. Is(m, h)
      <3> HIDE DEF h
      <3> QED BY <2>4, <2>5, <2>6
    <2> HIDE DEF Is, h
    <2> QED BY <2>7
  <1>3. n \in S
    <2> HIDE DEF S
    <2>1. \A i \in 0..n : i \in S
      BY <1>1, <1>2, UpTo
    <2> QED BY <2>1
  <1>4. \E g : Is(n, g)
    <2>1. \A x \in S : \E g : Is(x, g)
      OBVIOUS
    <2> HIDE DEF Is, S
    <2> QED BY <1>3, <2>1
  <1> QED BY <1>4 DEF IsLoop

(* Functions from 1 on are sequences.                                        *)
LEMMA FunctionIsSeq ==
    ASSUME NEW S, NEW n \in Nat, NEW f \in [1..n -> S]
    PROVE  f \in Seq(S)
  BY SeqDef


-----------------------------------------------------------------------------
(* kept has those of the first n of list that are in S, in their order       *)
IsRetained(list, S, n, kept) ==
    \E at \in [1..Len(kept) -> 1..n] :
        /\ \A k \in 1..Len(kept) : kept[k] = list[at[k]] /\ list[at[k]] \in S
        /\ \A j, k \in 1..Len(kept) : j < k => at[j] < at[k]
        /\ \A i \in 1..n : list[i] \in S => \E k \in 1..Len(kept) : at[k] = i

(* retain goes on by one.                                                    *)
LEMMA RetainedOn ==
    ASSUME NEW T, NEW list \in Seq(T), NEW S, NEW i \in 1..Len(list), NEW kept \in Seq(T),
           IsRetained(list, S, i - 1, kept), NEW new,
           new = IF list[i] \in S THEN Append(kept, list[i]) ELSE kept
    PROVE  new \in Seq(T) /\ IsRetained(list, S, i, new)
PROOF
  <1>1. list[i] \in T /\ Len(list) \in Nat /\ i \in Nat /\ i - 1 \in Nat
    BY LenProperties, ElementOfSeq
  <1>2. PICK m \in Nat : m = Len(kept)
    BY LenProperties
  <1>3. PICK at \in [1..m -> 1..(i - 1)] :
           /\ \A k \in 1..m : kept[k] = list[at[k]] /\ list[at[k]] \in S
           /\ \A j, k \in 1..m : j < k => at[j] < at[k]
           /\ \A j \in 1..(i - 1) : list[j] \in S => \E k \in 1..m : at[k] = j
    BY <1>2 DEF IsRetained
  <1>4. \A k \in 1..m : at[k] \in 1..(i - 1) /\ at[k] \in 1..i /\ at[k] < i
    BY <1>1, <1>3
  <1>5. CASE list[i] \notin S
    <2>1. new = kept /\ Len(new) = m
      BY <1>2, <1>5
    <2>2. at \in [1..m -> 1..i]
      BY <1>3, <1>4
    <2>3. \A j \in 1..i : list[j] \in S => \E k \in 1..m : at[k] = j
      <3> SUFFICES ASSUME NEW j \in 1..i, list[j] \in S PROVE \E k \in 1..m : at[k] = j
        OBVIOUS
      <3>1. j # i
        BY <1>5
      <3>2. j \in 1..(i - 1)
        BY <1>1, <3>1
      <3> QED BY <1>3, <3>2
    <2>4. \E f \in [1..Len(new) -> 1..i] :
              /\ \A k \in 1..Len(new) : new[k] = list[f[k]] /\ list[f[k]] \in S
              /\ \A j, k \in 1..Len(new) : j < k => f[j] < f[k]
              /\ \A j \in 1..i : list[j] \in S => \E k \in 1..Len(new) : f[k] = j
      <3>1. \A k \in 1..m : new[k] = list[at[k]] /\ list[at[k]] \in S
        BY <1>3, <2>1
      <3>2. \A j, k \in 1..m : j < k => at[j] < at[k]
        BY <1>3
      <3> QED BY <2>1, <2>2, <2>3, <3>1, <3>2, Zenon
    <2> QED BY <2>1, <2>4 DEF IsRetained
  <1>6. CASE list[i] \in S
    <2>0. PICK l \in Nat : l = m + 1
      BY <1>2
    <2> DEFINE ext == [k \in 1..l |-> IF k = l THEN i ELSE at[k]]
    <2>1. new = Append(kept, list[i]) /\ new \in Seq(T) /\ Len(new) = l
      BY <1>1, <1>2, <1>6, <2>0, AppendProperties
    <2>2. new[l] = list[i] /\ \A k \in 1..m : new[k] = kept[k]
      BY <1>1, <1>2, <2>0, <2>1, AppendProperties
    <2>3. \A k \in 1..l : k = l \/ k \in 1..m
      BY <1>2, <2>0
    <2>4. ext[l] = i /\ \A k \in 1..m : ext[k] = at[k]
      BY <1>2, <2>0
    <2>5. ext \in [1..l -> 1..i]
      <3>1. ASSUME NEW k \in 1..l PROVE (IF k = l THEN i ELSE at[k]) \in 1..i
        <4>1. k = l \/ at[k] \in 1..i
          BY <1>4, <2>3
        <4> QED BY <1>1, <4>1
      <3> QED BY <3>1
    <2> HIDE DEF ext
    <2>6. \A k \in 1..l : new[k] = list[ext[k]] /\ list[ext[k]] \in S
      BY <1>3, <1>6, <2>2, <2>3, <2>4
    <2>7. \A j, k \in 1..l : j < k => ext[j] < ext[k]
      <3> SUFFICES ASSUME NEW j \in 1..l, NEW k \in 1..l, j < k PROVE ext[j] < ext[k]
        OBVIOUS
      <3>1. j \in 1..m
        BY <1>2, <2>0, <2>3
      <3>2. CASE k = l
        BY <1>4, <2>4, <3>1, <3>2
      <3>3. CASE k \in 1..m
        BY <1>3, <2>4, <3>1, <3>3
      <3> QED BY <2>3, <3>2, <3>3
    <2>8. \A j \in 1..i : list[j] \in S => \E k \in 1..l : ext[k] = j
      <3> SUFFICES ASSUME NEW j \in 1..i, list[j] \in S PROVE \E k \in 1..l : ext[k] = j
        OBVIOUS
      <3>1. CASE j = i
        <4>1. l \in 1..l
          BY <1>2, <2>0
        <4> QED BY <2>4, <3>1, <4>1
      <3>2. CASE j # i
        <4>1. j \in 1..(i - 1)
          BY <1>1, <3>2
        <4>2. PICK k \in 1..m : at[k] = j
          BY <1>3, <4>1
        <4>3. k \in 1..l
          BY <1>2, <2>0
        <4> QED BY <2>4, <4>2, <4>3
      <3> QED BY <3>1, <3>2
    <2>9. \E f \in [1..Len(new) -> 1..i] :
              /\ \A k \in 1..Len(new) : new[k] = list[f[k]] /\ list[f[k]] \in S
              /\ \A j, k \in 1..Len(new) : j < k => f[j] < f[k]
              /\ \A j \in 1..i : list[j] \in S => \E k \in 1..Len(new) : f[k] = j
      BY <2>1, <2>5, <2>6, <2>7, <2>8, Zenon
    <2> QED BY <2>1, <2>9 DEF IsRetained
  <1> QED BY <1>5, <1>6

(* retain keeps those that are in the set, in their order.                   *)
LEMMA Retains ==
    ASSUME NEW T, NEW list \in Seq(T), NEW S
    PROVE  Retain(list, S) \in Seq(T) /\ IsRetained(list, S, Len(list), Retain(list, S))
PROOF
  <1> DEFINE X == Seq(T)
             N == Len(list)
             next == [w \in X \X (1..N) |-> IF list[w[2]] \in S THEN Append(w[1], list[w[2]]) ELSE w[1]]
             Loop(f) == f = [i \in 0..N |-> IF i = 0 THEN << >>
                                            ELSE IF list[i] \in S THEN Append(f[i - 1], list[i])
                                            ELSE f[i - 1]]
             kept == CHOOSE f : Loop(f)
  <1>1. N \in Nat /\ \A i \in 1..N : list[i] \in T
    BY LenProperties, ElementOfSeq
  <1>2. << >> \in X
    OBVIOUS
  <1>3. next \in LoopSteps(X, N)
    <2> SUFFICES ASSUME NEW w \in X \X (1..N)
                 PROVE  (IF list[w[2]] \in S THEN Append(w[1], list[w[2]]) ELSE w[1]) \in X
      BY DEF LoopSteps
    <2>1. w[1] \in Seq(T) /\ list[w[2]] \in T
      BY <1>1
    <2> QED BY <2>1, AppendProperties
  <1>4. PICK f : IsLoop(X, N, << >>, next, f)
    <2> HIDE DEF X, N, next
    <2> QED BY <1>1, <1>2, <1>3, LoopRuns
  <1>5. Loop(f)
    <2>1. f \in [0..N -> X] /\ f[0] = << >> /\ \A i \in 1..N : f[i] = next[<<f[i - 1], i>>]
      BY <1>4 DEF IsLoop
    <2>2. ASSUME NEW i \in 1..N
          PROVE  f[i] = IF list[i] \in S THEN Append(f[i - 1], list[i]) ELSE f[i - 1]
      <3>1. i - 1 \in 0..N
        BY <1>1
      <3>2. <<f[i - 1], i>> \in X \X (1..N)
        BY <2>1, <3>1
      <3> QED BY <2>1, <3>2
    <2>3. \A i \in 0..N : f[i] = IF i = 0 THEN << >> ELSE IF list[i] \in S THEN Append(f[i - 1], list[i])
                                                     ELSE f[i - 1]
      <3>1. \A i \in 0..N : i = 0 \/ (i # 0 /\ i \in 1..N)
        BY <1>1
      <3> HIDE DEF N, X, next
      <3> QED BY <2>1, <2>2, <3>1
    <2> HIDE DEF N, X, next
    <2> QED BY <2>1, <2>3
  <1>6. kept = [i \in 0..N |-> IF i = 0 THEN << >>
                               ELSE IF list[i] \in S THEN Append(kept[i - 1], list[i]) ELSE kept[i - 1]]
    <2>1. Loop(kept)
      <3> HIDE DEF Loop
      <3> QED BY <1>5
    <2> HIDE DEF kept
    <2> QED BY <2>1
  <1>7. Retain(list, S) = kept[N]
    BY Zenon DEF Retain
  <1> HIDE DEF kept, next, Loop
  <1> DEFINE Good == {i \in 0..N : kept[i] \in Seq(T) /\ IsRetained(list, S, i, kept[i])}
  <1>8. 0 \in Good
    <2>1. kept[0] = << >> /\ 0 \in 0..N
      BY <1>1, <1>6
    <2>2. IsRetained(list, S, 0, << >>)
      <3>1. 1..Len(<< >>) = {} /\ 1..0 = {}
        OBVIOUS
      <3>2. << >> \in [1..Len(<< >>) -> 1..0]
        BY <3>1
      <3> QED BY <3>1, <3>2 DEF IsRetained
    <2> QED BY <1>2, <2>1, <2>2
  <1>9. ASSUME NEW i \in 1..N, i - 1 \in Good PROVE i \in Good
    <2>1. PICK old, new : old = kept[i - 1] /\ new = kept[i]
      OBVIOUS
    <2>2. new = IF list[i] \in S THEN Append(old, list[i]) ELSE old
      <3>1. i \in 0..N /\ i # 0
        BY <1>1
      <3>2. kept[i] = IF list[i] \in S THEN Append(kept[i - 1], list[i]) ELSE kept[i - 1]
        <4> HIDE DEF N
        <4> QED BY <1>6, <3>1
      <3> QED BY <2>1, <3>2
    <2>3. old \in Seq(T) /\ IsRetained(list, S, i - 1, old)
      BY <1>9, <2>1
    <2>4. new \in Seq(T) /\ IsRetained(list, S, i, new)
      BY <2>2, <2>3, RetainedOn
    <2> QED BY <1>1, <2>1, <2>4
  <1>10. N \in Good
    <2>1. \A i \in 0..N : i \in Good
      <3> HIDE DEF Good, N
      <3> QED BY <1>1, <1>8, <1>9, UpTo
    <2> HIDE DEF Good
    <2> QED BY <1>1, <2>1
  <1> QED BY <1>7, <1>10

(* A bounded set of numbers that is not empty has a last and a first.        *)
LEMMA LastAndFirst ==
    ASSUME NEW n \in Nat, NEW S \in SUBSET (0..n), S # {}
    PROVE  /\ Max(S) \in S /\ \A y \in S : y <= Max(S)
           /\ Min(S) \in S /\ \A y \in S : Min(S) <= y
PROOF
  <1>1. S \in SUBSET Nat
    OBVIOUS
  <1>2. \E x \in S : \A y \in S : x =< y
    BY <1>1, Least
  <1>3. \E x \in S : \A y \in S : x >= y
    <2> DEFINE T == {i \in 0..n : n - i \in S}
    <2>1. T \in SUBSET Nat
      OBVIOUS
    <2>2. \A x \in S : n - x \in T
      OBVIOUS
    <2>3. T # {}
      BY <2>2
    <2>4. PICK t \in T : \A y \in T : t <= y
      <3> HIDE DEF T
      <3> QED BY <2>1, <2>3, Least
    <2>5. n - t \in S /\ t \in 0..n
      BY <2>4
    <2>6. ASSUME NEW y \in S PROVE n - t >= y
      <3>1. t <= n - y
        <4> HIDE DEF T
        <4> QED BY <2>2, <2>4
      <3>2. y \in 0..n
        OBVIOUS
      <3> QED BY <2>5, <3>1, <3>2
    <2> QED BY <2>5, <2>6
  <1>4. Min(S) \in S /\ \A y \in S : Min(S) =< y
    BY <1>2 DEF Min
  <1>5. Max(S) \in S /\ \A y \in S : Max(S) >= y
    BY <1>3 DEF Max
  <1> QED BY <1>1, <1>4, <1>5

(* A list of N times, and the places of its entries by time, those of one    *)
(* time as they come                                                         *)
Sooner(time, i, j) == time[i] < time[j] \/ (time[i] = time[j] /\ i < j)

InTime(N, time, p) ==
    /\ p \in [1..N -> 1..N] /\ \A i \in 1..N : \E k \in 1..N : p[k] = i
    /\ \A j, k \in 1..N : j < k => Sooner(time, p[j], p[k])

(* Every list can be put in the order of its times.                          *)
LEMMA Sorts ==
    ASSUME NEW N \in Nat, NEW time \in [1..N -> Nat]
    PROVE  \E p : InTime(N, time, p)
PROOF
  <1> DEFINE D == 1..N
             upto(x) == {y \in D : y = x \/ Sooner(time, y, x)}
             place == [x \in D |-> Cardinality(upto(x))]
             p == [k \in D |-> CHOOSE x \in D : place[x] = k]
  <1>1. IsFiniteSet(D) /\ Cardinality(D) = N /\ \A x \in D : time[x] \in Nat /\ x \in Nat
    <2>1. IsFiniteSet(1..N) /\ Cardinality(1..N) = N
      BY FS_Interval
    <2>2. \A x \in D : time[x] \in Nat /\ x \in Nat
      OBVIOUS
    <2> QED BY <2>1, <2>2
  <1>2. ASSUME NEW x \in D
        PROVE  IsFiniteSet(upto(x)) /\ Cardinality(upto(x)) \in D
    <2>1. upto(x) \in SUBSET D /\ x \in upto(x)
      OBVIOUS
    <2> HIDE DEF upto, D
    <2>2. IsFiniteSet(upto(x)) /\ Cardinality(upto(x)) <= N
      BY <1>1, <2>1, FS_Subset
    <2>3. Cardinality(upto(x)) # 0 /\ Cardinality(upto(x)) \in Nat
      BY <2>1, <2>2, FS_EmptySet, FS_CardinalityType
    <2> QED BY <2>2, <2>3 DEF D
  <1>3. ASSUME NEW x \in D, NEW y \in D, Sooner(time, x, y)
        PROVE  place[x] < place[y]
    <2>1. upto(x) \subseteq upto(y)
      <3> SUFFICES ASSUME NEW z \in D, z = x \/ Sooner(time, z, x) PROVE Sooner(time, z, y)
        OBVIOUS
      <3>1. CASE z = x
        BY <1>3, <3>1
      <3>2. CASE Sooner(time, z, x)
        BY <1>1, <1>3, <3>2 DEF Sooner
      <3> QED BY <3>1, <3>2
    <2>2. y \in upto(y) /\ y \notin upto(x)
      <3>1. y # x /\ ~ Sooner(time, y, x)
        BY <1>1, <1>3 DEF Sooner
      <3> QED BY <3>1
    <2>3. place[x] = Cardinality(upto(x)) /\ place[y] = Cardinality(upto(y))
      OBVIOUS
    <2>4. upto(x) \in SUBSET upto(y) /\ upto(x) # upto(y)
      BY <2>1, <2>2
    <2> HIDE DEF upto, place
    <2>5. Cardinality(upto(x)) <= Cardinality(upto(y)) /\ Cardinality(upto(x)) # Cardinality(upto(y))
      BY <1>2, <2>4, FS_Subset
    <2>6. Cardinality(upto(x)) \in Nat /\ Cardinality(upto(y)) \in Nat
      BY <1>2
    <2> QED BY <2>3, <2>5, <2>6
  <1>4. ASSUME NEW x \in D, NEW y \in D, x # y PROVE Sooner(time, x, y) \/ Sooner(time, y, x)
    BY <1>1, <1>4 DEF Sooner
  <1>5. place \in [D -> D]
    BY <1>2
  <1>6. place \in Injection(D, D)
    <2>1. ASSUME NEW x \in D, NEW y \in D, place[x] = place[y] PROVE x = y
      <3>1. place[x] \in Nat /\ place[y] \in Nat
        BY <1>5
      <3>2. ~ Sooner(time, x, y) /\ ~ Sooner(time, y, x)
        <4> HIDE DEF place
        <4> QED BY <1>3, <2>1, <3>1
      <3> QED BY <1>4, <3>2
    <2> HIDE DEF place, D
    <2> QED BY <1>5, <2>1 DEF Injection, IsInjective
  <1>7. place \in Surjection(D, D)
    <2> HIDE DEF place, D
    <2> QED BY <1>1, <1>6, FS_Injection
  <1>8. \A k \in D : p[k] \in D /\ place[p[k]] = k
    <2> HIDE DEF place
    <2> QED BY <1>7 DEF Surjection
  <1>9. ASSUME NEW x \in D PROVE \E k \in D : p[k] = x
    <2>1. place[x] \in D
      BY <1>5
    <2>2. p[place[x]] \in D /\ place[p[place[x]]] = place[x]
      <3> HIDE DEF p, place
      <3> QED BY <1>8, <2>1
    <2>3. p[place[x]] = x
      <3> HIDE DEF p, place
      <3> QED BY <1>6, <2>2 DEF Injection, IsInjective
    <2> QED BY <2>1, <2>3
  <1>10. ASSUME NEW j \in D, NEW k \in D, j < k PROVE Sooner(time, p[j], p[k])
    <2> HIDE DEF p, place
    <2>1. p[j] \in D /\ p[k] \in D /\ p[j] # p[k]
      BY <1>8, <1>10
    <2>2. ~ Sooner(time, p[k], p[j])
      BY <1>3, <1>8, <1>10, <2>1
    <2> QED BY <1>4, <2>1, <2>2
  <1>11. p \in [D -> D]
    BY <1>8
  <1> HIDE DEF p
  <1> QED BY <1>9, <1>10, <1>11 DEF InTime

-----------------------------------------------------------------------------
(* The time index                                                            *)
Entries(now, n) == [time : 0..now, id : 1..n]

(* Entries of the first n checkpoints, by time                               *)
IsIndex(index, now, n) ==
    /\ index \in Seq(Entries(now, n))
    /\ \A i, j \in DOMAIN index : i < j => index[i].time <= index[j].time

(* A checkpoint made now is the last entry.                                  *)
LEMMA EntryAdded ==
    ASSUME NEW now \in Nat, NEW n \in Nat, NEW index, IsIndex(index, now, n), NEW id \in 1..n
    PROVE  IsIndex(Indexed(index, now, id), now, n)
PROOF
  <1> DEFINE E == Entries(now, n)
             new == Append(index, [time |-> now, id |-> id])
  <1>1. [time |-> now, id |-> id] \in E
    BY DEF Entries
  <1>2. PICK m \in Nat : m = Len(index) /\ DOMAIN index = 1..m
    BY LenProperties DEF IsIndex
  <1>3. /\ new \in Seq(E) /\ DOMAIN new = 1..(m + 1) /\ new[m + 1] = [time |-> now, id |-> id]
        /\ \A i \in 1..m : new[i] = index[i]
    <2>1. index \in Seq(E)
      BY DEF IsIndex
    <2> HIDE DEF E
    <2> QED BY <1>1, <1>2, <2>1, AppendProperties, LenProperties
  <1>4. \A i \in 1..m : index[i].time \in 0..now
    <2> SUFFICES ASSUME NEW i \in 1..m PROVE index[i].time \in 0..now
      OBVIOUS
    <2>1. index[i] \in Entries(now, n)
      BY <1>2, ElementOfSeq DEF IsIndex
    <2> QED BY <2>1 DEF Entries
  <1> HIDE DEF new
  <1>5. ASSUME NEW i \in 1..(m + 1), NEW j \in 1..(m + 1), i < j
        PROVE  new[i].time <= new[j].time
    <2>1. i \in 1..m /\ new[i] = index[i] /\ index[i].time \in 0..now
      BY <1>2, <1>3, <1>4, <1>5
    <2>2. CASE j = m + 1
      BY <1>3, <2>1, <2>2
    <2>3. CASE j # m + 1
      <3>1. j \in 1..m
        BY <1>2, <2>3
      <3> QED BY <1>2, <1>3, <1>5, <2>1, <3>1 DEF IsIndex
    <2> QED BY <2>2, <2>3
  <1>6. IsIndex(new, now, n)
    BY <1>3, <1>5 DEF IsIndex
  <1> QED BY <1>6 DEF Indexed, new

(* Entries taken out leave the others in their order.                        *)
LEMMA EntriesRetained ==
    ASSUME NEW now \in Nat, NEW n \in Nat, NEW index, IsIndex(index, now, n), NEW S
    PROVE  IsIndex(Retain(index, S), now, n)
PROOF
  <1>1. PICK kept : kept = Retain(index, S)
    OBVIOUS
  <1>2. index \in Seq(Entries(now, n)) /\ DOMAIN index = 1..Len(index)
    BY LenProperties DEF IsIndex
  <1>3. kept \in Seq(Entries(now, n)) /\ IsRetained(index, S, Len(index), kept)
    BY <1>1, <1>2, Retains
  <1>4. DOMAIN kept = 1..Len(kept)
    BY <1>3, LenProperties
  <1>5. PICK at \in [1..Len(kept) -> 1..Len(index)] :
            /\ \A k \in 1..Len(kept) : kept[k] = index[at[k]]
            /\ \A j, k \in 1..Len(kept) : j < k => at[j] < at[k]
    BY <1>3 DEF IsRetained
  <1>6. ASSUME NEW i \in 1..Len(kept), NEW j \in 1..Len(kept), i < j PROVE kept[i].time <= kept[j].time
    BY <1>2, <1>5, <1>6 DEF IsIndex
  <1> QED BY <1>1, <1>3, <1>4, <1>6 DEF IsIndex

(* Later, with more checkpoints, it is still one.                            *)
LEMMA IndexStays ==
    ASSUME NEW now \in Nat, NEW n \in Nat, NEW index, IsIndex(index, now, n),
           NEW later \in Nat, now <= later, NEW m \in Nat, n <= m
    PROVE  IsIndex(index, later, m)
PROOF
  <1>1. Entries(now, n) \subseteq Entries(later, m)
    BY DEF Entries
  <1>2. PICK few, many : few = Entries(now, n) /\ many = Entries(later, m) /\ few \subseteq many
    BY <1>1
  <1>3. index \in Seq(few)
    BY <1>2 DEF IsIndex
  <1>4. index \in Seq(many)
    BY <1>2, <1>3
  <1> QED BY <1>2, <1>4 DEF IsIndex

(* from_checkpoints has every entry in the order of time, in whatever order  *)
(* it gets the checkpoints.                                                  *)
LEMMA IndexBuilt ==
    ASSUME NEW now \in Nat, NEW n \in Nat, NEW held, DOMAIN held \subseteq 1..n,
           \A c \in DOMAIN held : held[c] \in 0..now, NEW order \in Orders(DOMAIN held)
    PROVE  IsIndex(FromCheckpoints(held, order), now, n)
PROOF
  <1> DEFINE S == DOMAIN held
             time == [i \in DOMAIN order |-> held[order[i]]]
             Ascends(p) == \A i, j \in DOMAIN p : i < j =>
                        (held[order[p[i]]] < held[order[p[j]]]
                         \/ (held[order[p[i]]] = held[order[p[j]]] /\ p[i] < p[j]))
             place == CHOOSE p \in Orders(DOMAIN order) : Ascends(p)
  <1>1. PICK N \in Nat : order \in [1..N -> S]
    <2>1. IsFiniteSet(S)
      <3>1. IsFiniteSet(1..n)
        BY FS_Interval
      <3> QED BY <3>1, FS_Subset
    <2>2. Cardinality(S) \in Nat
      BY <2>1, FS_CardinalityType
    <2> QED BY <2>2 DEF Orders
  <1>2. DOMAIN order = 1..N /\ \A i \in 1..N : order[i] \in S /\ held[order[i]] \in 0..now /\ order[i] \in 1..n
    BY <1>1
  <1>3. Cardinality(1..N) = N
    BY FS_Interval
  <1>4. time \in [1..N -> Nat] /\ \A i \in 1..N : time[i] = held[order[i]]
    BY <1>2
  <1>5. PICK p : InTime(N, time, p)
    <2> HIDE DEF time
    <2> QED BY <1>4, Sorts
  <1>6. p \in Orders(DOMAIN order) /\ Ascends(p)
    <2>1. p \in [1..N -> 1..N] /\ DOMAIN p = 1..N
      BY <1>5 DEF InTime
    <2>2. p \in Orders(DOMAIN order)
      BY <1>2, <1>3, <1>5, <2>1 DEF InTime, Orders
    <2>3. ASSUME NEW i \in 1..N, NEW j \in 1..N, i < j
          PROVE  held[order[p[i]]] < held[order[p[j]]]
                         \/ (held[order[p[i]]] = held[order[p[j]]] /\ p[i] < p[j])
      <3>1. Sooner(time, p[i], p[j]) /\ p[i] \in 1..N /\ p[j] \in 1..N
        BY <1>5, <2>1, <2>3 DEF InTime
      <3> HIDE DEF time
      <3> QED BY <1>4, <3>1 DEF Sooner
    <2> QED BY <2>1, <2>2, <2>3
  <1>7. place \in Orders(DOMAIN order) /\ Ascends(place)
    <2> HIDE DEF time, Ascends
    <2> QED BY <1>6
  <1>8. /\ place \in [1..N -> 1..N]
        /\ \A i, j \in 1..N : i < j => held[order[place[i]]] <= held[order[place[j]]]
    <2> HIDE DEF place
    <2>1. place \in [1..N -> 1..N]
      BY <1>2, <1>3, <1>7 DEF Orders
    <2>2. ASSUME NEW i \in 1..N, NEW j \in 1..N, i < j PROVE held[order[place[i]]] <= held[order[place[j]]]
      <3>1. held[order[place[i]]] \in 0..now /\ held[order[place[j]]] \in 0..now
        BY <1>2, <2>1
      <3>2. \/ held[order[place[i]]] < held[order[place[j]]]
            \/ held[order[place[i]]] = held[order[place[j]]]
        BY <1>7, <2>1, <2>2
      <3> QED BY <3>1, <3>2
    <2> QED BY <2>1, <2>2
  <1>9. PICK index : index = FromCheckpoints(held, order)
    OBVIOUS
  <1>10. index = [i \in DOMAIN place |-> [time |-> held[order[place[i]]], id |-> order[place[i]]]]
    BY <1>9, Zenon DEF FromCheckpoints
  <1> HIDE DEF place, time, Ascends
  <1>11. \A i \in 1..N : index[i] = [time |-> held[order[place[i]]], id |-> order[place[i]]]
    BY <1>8, <1>10
  <1>12. index \in [1..N -> Entries(now, n)]
    <2>1. ASSUME NEW i \in 1..N PROVE [time |-> held[order[place[i]]], id |-> order[place[i]]] \in Entries(now, n)
      <3>1. place[i] \in 1..N
        BY <1>8
      <3> QED BY <1>2, <3>1 DEF Entries
    <2>2. DOMAIN place = 1..N
      BY <1>8
    <2> QED BY <1>10, <2>1, <2>2
  <1>13. index \in Seq(Entries(now, n)) /\ DOMAIN index = 1..N
    BY <1>12, FunctionIsSeq
  <1>14. \A i, j \in 1..N : i < j => index[i].time <= index[j].time
    <2> SUFFICES ASSUME NEW i \in 1..N, NEW j \in 1..N, i < j PROVE index[i].time <= index[j].time
      OBVIOUS
    <2>1. \A k \in 1..N : index[k].time = held[order[place[k]]]
      <3> SUFFICES ASSUME NEW k \in 1..N PROVE index[k].time = held[order[place[k]]]
        OBVIOUS
      <3>1. PICK a, b : a = held[order[place[k]]] /\ b = order[place[k]]
        OBVIOUS
      <3>2. index[k] = [time |-> a, id |-> b]
        BY <1>11, <3>1
      <3> QED BY <3>1, <3>2
    <2> QED BY <1>8, <2>1
  <1> QED BY <1>9, <1>13, <1>14 DEF IsIndex

-----------------------------------------------------------------------------
(* The tables and the repository are records.                                *)
IsRows(r) ==
    r \in [checkpoints : {r.checkpoints}, branches : {r.branches}, current : {r.current},
           edges : {r.edges}, gens : {r.gens}, snapshots : {r.snapshots}]

IsRepo(rep) ==
    /\ rep \in [held : {rep.held}, branches : {rep.branches}, current : {rep.current}, dag : {rep.dag},
                index : {rep.index}, cached : {rep.cached}, dirty : {rep.dirty},
                deletedCheckpoints : {rep.deletedCheckpoints}, deletedBranches : {rep.deletedBranches},
                stored : {rep.stored}]
    /\ rep.stored \in BOOLEAN

(* Some of the first n checkpoints, with a time that has been                *)
Dated(f, now, n) == DOMAIN f \subseteq 1..n /\ f \in [DOMAIN f -> 0..now]

LEMMA OverDated ==
    ASSUME NEW f, NEW g, NEW now, NEW n, Dated(f, now, n), Dated(g, now, n)
    PROVE  Dated(Over(f, g), now, n) /\ DOMAIN Over(f, g) = DOMAIN f \cup DOMAIN g
BY DEF Dated, Over

LEMMA OneDated ==
    ASSUME NEW now \in Nat, NEW n, NEW id \in 1..n
    PROVE  Dated([m \in {id} |-> now], now, n) /\ DOMAIN [m \in {id} |-> now] = {id}
BY DEF Dated

(* What the storage calls leave alone                                        *)
CheckpointWritten(q, r, id, now, n) ==
    /\ IsRows(q) /\ q.branches = r.branches /\ q.snapshots = r.snapshots
    /\ DOMAIN q.checkpoints = DOMAIN r.checkpoints \cup {id}
    /\ Dated(q.checkpoints, now, n)

LEMMA StoreCheckpointWrites ==
    ASSUME NEW r, IsRows(r), NEW id, NEW now \in Nat, NEW n, id \in 1..n, Dated(r.checkpoints, now, n),
           NEW q, q = StoreCheckpoint(r, id, now)
    PROVE  CheckpointWritten(q, r, id, now, n)
PROOF
  <1>1. CASE id \in DOMAIN r.checkpoints
    <2>1. q = r
      BY <1>1 DEF StoreCheckpoint
    <2>2. DOMAIN q.checkpoints = DOMAIN r.checkpoints \cup {id}
      BY <1>1, <2>1
    <2> QED BY <2>1, <2>2 DEF CheckpointWritten
  <1>2. CASE id \notin DOMAIN r.checkpoints
    <2>1. PICK f : f = Over(r.checkpoints, [m \in {id} |-> now])
      OBVIOUS
    <2>2. q = [r EXCEPT !.checkpoints = f]
      BY <1>2, <2>1 DEF StoreCheckpoint
    <2>3. PICK g : g = [m \in {id} |-> now]
      OBVIOUS
    <2>4. Dated(g, now, n) /\ DOMAIN g = {id}
      BY <2>3, OneDated
    <2>5. Dated(f, now, n) /\ DOMAIN f = DOMAIN r.checkpoints \cup {id}
      BY <2>1, <2>3, <2>4, OverDated
    <2>6. q.checkpoints = f /\ q.branches = r.branches /\ q.snapshots = r.snapshots /\ IsRows(q)
      BY <2>2 DEF IsRows
    <2> QED BY <2>5, <2>6 DEF CheckpointWritten
  <1> QED BY <1>1, <1>2 DEF CheckpointWritten

LEMMA StoreDagEdgesWrites ==
    ASSUME NEW r, IsRows(r), NEW edges, NEW gens,
           NEW q, q = StoreDagEdges(r, edges, gens)
    PROVE  /\ IsRows(q) /\ q.branches = r.branches /\ q.snapshots = r.snapshots
           /\ q.checkpoints = r.checkpoints
PROOF
  <1>1. PICK es, gs : StoreDagEdges(r, edges, gens) = [r EXCEPT !.edges = es, !.gens = gs]
    BY Zenon DEF StoreDagEdges
  <1> QED BY <1>1 DEF IsRows

LEMMA UpdateBranchHeadWrites ==
    ASSUME NEW r, IsRows(r), NEW n, NEW id,
           NEW q, q = UpdateBranchHead(r, n, id)
    PROVE  /\ IsRows(q) /\ q.snapshots = r.snapshots /\ q.checkpoints = r.checkpoints
           /\ q.branches = IF n \in DOMAIN r.branches THEN [r.branches EXCEPT ![n] = id] ELSE r.branches
PROOF
  <1>1. CASE n \in DOMAIN r.branches
    BY <1>1 DEF UpdateBranchHead, IsRows
  <1>2. CASE n \notin DOMAIN r.branches
    BY <1>2 DEF UpdateBranchHead
  <1> QED BY <1>1, <1>2

LEMMA StoreBranchesWrites ==
    ASSUME NEW r, IsRows(r), NEW branches,
           NEW q, q = StoreBranches(r, branches)
    PROVE  /\ IsRows(q) /\ q.snapshots = r.snapshots /\ q.checkpoints = r.checkpoints
           /\ q.branches = Over(HeadsByName(branches), r.branches)
PROOF
  <1>1. PICK f : f = Over(HeadsByName(branches), r.branches)
    OBVIOUS
  <1>2. StoreBranches(r, branches) = [r EXCEPT !.branches = f]
    BY <1>1, Zenon DEF StoreBranches
  <1> QED BY <1>1, <1>2 DEF IsRows

BranchesDeleted(q, r, names) ==
    /\ IsRows(q) /\ q.snapshots = r.snapshots /\ q.checkpoints = r.checkpoints
    /\ q.branches = [n \in DOMAIN r.branches \ names |-> r.branches[n]]

LEMMA DeleteBranchesWrites ==
    ASSUME NEW r, IsRows(r), NEW names,
           NEW q, q = DeleteBranches(r, names)
    PROVE  BranchesDeleted(q, r, names)
PROOF
  <1>1. PICK f : f = [n \in DOMAIN r.branches \ names |-> r.branches[n]]
    OBVIOUS
  <1>2. DeleteBranches(r, names) = [r EXCEPT !.branches = f]
    BY <1>1, Zenon DEF DeleteBranches
  <1> QED BY <1>1, <1>2 DEF IsRows, BranchesDeleted

RowsDeleted(q, r, ids, now, n) ==
    /\ IsRows(q) /\ q.snapshots = r.snapshots /\ q.branches = r.branches
    /\ DOMAIN q.checkpoints = DOMAIN r.checkpoints \ ids
    /\ Dated(q.checkpoints, now, n)

LEMMA DeleteRowsWrites ==
    ASSUME NEW r, IsRows(r), NEW ids, NEW now, NEW n, Dated(r.checkpoints, now, n),
           NEW q, q = DeleteRows(r, ids)
    PROVE  RowsDeleted(q, r, ids, now, n)
PROOF
  <1>1. PICK f : f = [m \in DOMAIN r.checkpoints \ ids |-> r.checkpoints[m]]
    OBVIOUS
  <1>2. PICK es, gs : DeleteRows(r, ids) = [r EXCEPT !.checkpoints = f, !.edges = es, !.gens = gs]
    BY <1>1, Zenon DEF DeleteRows
  <1>3. Dated(f, now, n) /\ DOMAIN f = DOMAIN r.checkpoints \ ids
    BY <1>1 DEF Dated
  <1>4. q.checkpoints = f /\ q.branches = r.branches /\ q.snapshots = r.snapshots /\ IsRows(q)
    BY <1>2 DEF IsRows
  <1> QED BY <1>3, <1>4 DEF RowsDeleted

-----------------------------------------------------------------------------
(* Branches                                                                  *)
BranchNames == Names \cup {Main}
NamesOf(b) == {b[i].name : i \in DOMAIN b}

IsBranches(b, n) ==
    /\ b \in Seq([name : BranchNames, head : 1..n])
    /\ \A i, j \in DOMAIN b : b[i].name = b[j].name => i = j

(* The table of branches                                                     *)
IsRefs(f, n) ==
    /\ f \in [DOMAIN f -> 1..n]
    /\ DOMAIN f \subseteq BranchNames
    /\ IsFiniteSet(DOMAIN f)

LEMMA BranchesTyped ==
    ASSUME NEW n, NEW b, IsBranches(b, n)
    PROVE  /\ Len(b) \in Nat /\ DOMAIN b = 1..Len(b)
           /\ \A i \in DOMAIN b : /\ b[i] = [name |-> b[i].name, head |-> b[i].head]
                                  /\ b[i].name \in BranchNames /\ b[i].head \in 1..n
PROOF
  <1>1. b \in Seq([name : BranchNames, head : 1..n])
    BY DEF IsBranches
  <1>2. PICK R : R = [name : BranchNames, head : 1..n]
    OBVIOUS
  <1>3. Len(b) \in Nat /\ DOMAIN b = 1..Len(b) /\ \A i \in DOMAIN b : b[i] \in R
    BY <1>1, <1>2, LenProperties, ElementOfSeq
  <1>4. \A x \in R : x = [name |-> x.name, head |-> x.head] /\ x.name \in BranchNames /\ x.head \in 1..n
    BY <1>2
  <1> QED BY <1>3, <1>4

(* HeadsByName is the one function that gives every branch its head.         *)
LEMMA HeadOfEach ==
    ASSUME NEW n, NEW b, IsBranches(b, n)
    PROVE  /\ DOMAIN HeadsByName(b) = NamesOf(b)
           /\ \A i \in DOMAIN b : HeadsByName(b)[b[i].name] = b[i].head
           /\ HeadsByName(b) \in [NamesOf(b) -> 1..n]
PROOF
  <1>1. PICK f : f = HeadsByName(b)
    OBVIOUS
  <1>2. \A m : m \in NamesOf(b) <=> \E i \in DOMAIN b : b[i].name = m
    BY Zenon DEF NamesOf
  <1>3. f = [m \in NamesOf(b) |-> b[CHOOSE i \in DOMAIN b : b[i].name = m].head]
    BY <1>1, Zenon DEF HeadsByName, NamesOf
  <1>4. ASSUME NEW i \in DOMAIN b PROVE f[b[i].name] = b[i].head
    <2>1. PICK m : m = b[i].name
      OBVIOUS
    <2>2. PICK k : k = CHOOSE j \in DOMAIN b : b[j].name = m
      OBVIOUS
    <2>3. k \in DOMAIN b /\ b[k].name = m
      BY <2>1, <2>2, Zenon
    <2>4. k = i
      BY <2>1, <2>3 DEF IsBranches
    <2>5. m \in NamesOf(b)
      BY <1>2, <2>1
    <2>6. f[m] = b[k].head
      BY <1>3, <2>2, <2>5, Zenon
    <2> QED BY <2>1, <2>4, <2>6
  <1>5. DOMAIN f = NamesOf(b)
    BY <1>3
  <1>6. \A m \in NamesOf(b) : f[m] \in 1..n
    <2> SUFFICES ASSUME NEW m \in NamesOf(b) PROVE f[m] \in 1..n
      OBVIOUS
    <2>1. PICK i \in DOMAIN b : b[i].name = m
      BY <1>2
    <2> QED BY <1>4, <2>1, BranchesTyped
  <1>7. f \in [NamesOf(b) -> 1..n]
    BY <1>3, <1>6
  <1> QED BY <1>1, <1>4, <1>5, <1>7

LEMMA HeadsUnique ==
    ASSUME NEW n, NEW b, IsBranches(b, n), NEW X, NEW f \in [NamesOf(b) -> X],
           \A i \in DOMAIN b : f[b[i].name] = b[i].head
    PROVE  f = HeadsByName(b)
PROOF
  <1>1. PICK g : g = HeadsByName(b)
    OBVIOUS
  <1>2. g \in [NamesOf(b) -> 1..n] /\ \A i \in DOMAIN b : g[b[i].name] = b[i].head
    BY <1>1, HeadOfEach
  <1>3. \A m \in NamesOf(b) : \E i \in DOMAIN b : b[i].name = m
    BY Zenon DEF NamesOf
  <1>4. \A m \in NamesOf(b) : f[m] = g[m]
    BY <1>2, <1>3
  <1> QED BY <1>1, <1>2, <1>4

(* A head moves.                                                             *)
LEMMA HeadMoves ==
    ASSUME NEW n \in Nat, NEW b, IsBranches(b, n), NEW c \in DOMAIN b, NEW m \in Nat, n <= m,
           NEW id \in 1..m, NEW d, d = [b EXCEPT ![c].head = id]
    PROVE  /\ IsBranches(d, m) /\ NamesOf(d) = NamesOf(b)
           /\ HeadsByName(d) = [HeadsByName(b) EXCEPT ![b[c].name] = id]
PROOF
  <1>1. PICK N \in Nat : N = Len(b) /\ DOMAIN b = 1..N
    BY BranchesTyped
  <1>2. \A i \in 1..N : /\ b[i] = [name |-> b[i].name, head |-> b[i].head]
                        /\ b[i].name \in BranchNames /\ b[i].head \in 1..n
    BY <1>1, BranchesTyped
  <1>3. PICK R : R = [name : BranchNames, head : 1..m]
    OBVIOUS
  <1>4. DOMAIN d = 1..N /\ \A i \in 1..N : i # c => d[i] = b[i]
    BY <1>1
  <1>5. d[c] = [b[c] EXCEPT !.head = id]
    BY <1>1
  <1>6. d[c] = [name |-> b[c].name, head |-> id]
    <2>1. PICK x, y : b[c] = [name |-> x, head |-> y]
      BY <1>1, <1>2
    <2> QED BY <1>5, <2>1
  <1>7. \A i \in 1..N : d[i] \in R
    <2>1. ASSUME NEW i \in 1..N, i # c PROVE d[i] \in R
      <3>1. b[i] \in R
        <4>1. PICK x, y : x = b[i].name /\ y = b[i].head
          OBVIOUS
        <4>2. b[i] = [name |-> x, head |-> y] /\ x \in BranchNames /\ y \in 1..m
          BY <1>2, <4>1
        <4> QED BY <1>3, <4>2
      <3> QED BY <1>4, <2>1, <3>1
    <2>2. d[c] \in R
      BY <1>1, <1>2, <1>3, <1>6
    <2> QED BY <2>1, <2>2
  <1>8. d \in Seq(R)
    <2>1. d \in [1..N -> R]
      BY <1>1, <1>7
    <2> QED BY <2>1, FunctionIsSeq
  <1>9. \A i \in 1..N : d[i].name = b[i].name /\ d[i].head = IF i = c THEN id ELSE b[i].head
    BY <1>1, <1>4, <1>6
  <1>10. IsBranches(d, m)
    BY <1>1, <1>3, <1>4, <1>8, <1>9 DEF IsBranches
  <1>11. NamesOf(d) = NamesOf(b)
    BY <1>1, <1>4, <1>9 DEF NamesOf
  <1>12. PICK f, g : f = HeadsByName(b) /\ g = [f EXCEPT ![b[c].name] = id]
    OBVIOUS
  <1>13. f \in [NamesOf(b) -> 1..n] /\ \A i \in 1..N : f[b[i].name] = b[i].head
    BY <1>1, <1>12, HeadOfEach
  <1>14. g \in [NamesOf(d) -> 1..m]
    <2>1. 1..n \subseteq 1..m
      OBVIOUS
    <2>2. f \in [NamesOf(b) -> 1..m]
      BY <1>13, <2>1
    <2>3. g \in [NamesOf(b) -> 1..m]
      BY <1>12, <2>2
    <2> QED BY <1>11, <2>3
  <1>15. \A i \in 1..N : b[i].name \in NamesOf(b)
    BY <1>1 DEF NamesOf
  <1>16. ASSUME NEW i \in 1..N PROVE g[d[i].name] = d[i].head
    <2>1. b[i].name = b[c].name => i = c
      BY <1>1 DEF IsBranches
    <2> QED BY <1>9, <1>12, <1>13, <1>15, <2>1
  <1>17. g = HeadsByName(d)
    <2>1. \A i \in DOMAIN d : g[d[i].name] = d[i].head
      BY <1>4, <1>16
    <2>2. PICK e, X : e = d /\ X = 1..m
      OBVIOUS
    <2>3. g \in [NamesOf(e) -> X] /\ IsBranches(e, m) /\ \A i \in DOMAIN e : g[e[i].name] = e[i].head
      BY <1>10, <1>14, <2>1, <2>2
    <2>4. g = HeadsByName(e)
      BY <2>3, HeadsUnique
    <2> QED BY <2>2, <2>4
  <1> QED BY <1>10, <1>11, <1>12, <1>17

(* A branch of a new name is added.                                          *)
Longer(d, b, m, one) ==
    NamesOf(d) = NamesOf(b) \cup {m} /\ HeadsByName(d) = Over(HeadsByName(one), HeadsByName(b))

LEMMA BranchAdded ==
    ASSUME NEW n \in Nat, NEW b, IsBranches(b, n), NEW m \in BranchNames, m \notin NamesOf(b),
           NEW id \in 1..n, NEW d, d = Append(b, [name |-> m, head |-> id])
    PROVE  IsBranches(d, n) /\ Longer(d, b, m, <<[name |-> m, head |-> id]>>)
PROOF
  <1>1. PICK N \in Nat : N = Len(b) /\ DOMAIN b = 1..N
    BY BranchesTyped
  <1>2. PICK R : R = [name : BranchNames, head : 1..n]
    OBVIOUS
  <1>3. PICK x : x = [name |-> m, head |-> id]
    OBVIOUS
  <1>4. x \in R /\ x.name = m /\ x.head = id /\ b \in Seq(R)
    BY <1>2, <1>3 DEF IsBranches
  <1>5. /\ d \in Seq(R) /\ DOMAIN d = 1..(N + 1) /\ d[N + 1] = x
        /\ \A i \in 1..N : d[i] = b[i]
    BY <1>1, <1>3, <1>4, AppendProperties, LenProperties
  <1>6. \A i \in 1..N : b[i].name # m
    BY <1>1 DEF NamesOf
  <1>7. IsBranches(d, n)
    <2>1. ASSUME NEW i \in 1..(N + 1), NEW j \in 1..(N + 1), d[i].name = d[j].name PROVE i = j
      <3>1. CASE i = N + 1 /\ j \in 1..N
        BY <1>4, <1>5, <1>6, <2>1, <3>1
      <3>2. CASE j = N + 1 /\ i \in 1..N
        BY <1>4, <1>5, <1>6, <2>1, <3>2
      <3>3. CASE i \in 1..N /\ j \in 1..N
        BY <1>1, <1>5, <2>1, <3>3 DEF IsBranches
      <3>4. CASE i = N + 1 /\ j = N + 1
        BY <3>4
      <3> QED BY <3>1, <3>2, <3>3, <3>4
    <2> QED BY <1>2, <1>5, <2>1 DEF IsBranches
  <1>8. NamesOf(d) = NamesOf(b) \cup {m}
    <2>1. \A i \in 1..(N + 1) : d[i].name = IF i = N + 1 THEN m ELSE b[i].name
      BY <1>4, <1>5
    <2>2. N + 1 \in 1..(N + 1) /\ 1..N \subseteq 1..(N + 1) /\ \A i \in 1..(N + 1) : i # N + 1 => i \in 1..N
      OBVIOUS
    <2>3. \A y \in NamesOf(d) : y \in NamesOf(b) \cup {m}
      BY <1>1, <1>5, <2>1, <2>2 DEF NamesOf
    <2>4. \A y \in NamesOf(b) : y \in NamesOf(d)
      BY <1>1, <1>5, <2>1, <2>2 DEF NamesOf
    <2>5. m \in NamesOf(d)
      BY <1>4, <1>5, <2>2 DEF NamesOf
    <2> QED BY <2>3, <2>4, <2>5
  <1>9. PICK one : one = <<x>>
    OBVIOUS
  <1>10. IsBranches(one, n) /\ NamesOf(one) = {m} /\ DOMAIN one = {1} /\ one[1] = x
    <2>1. one \in Seq(R) /\ DOMAIN one = {1} /\ one[1] = x
      BY <1>4, <1>9
    <2>2. IsBranches(one, n)
      BY <1>2, <2>1 DEF IsBranches
    <2> QED BY <1>4, <2>1, <2>2 DEF NamesOf
  <1>11. PICK h, f, g : h = HeadsByName(one) /\ f = HeadsByName(b) /\ g = Over(h, f)
    OBVIOUS
  <1>12. h \in [{m} -> 1..n] /\ h[m] = id
    BY <1>4, <1>10, <1>11, HeadOfEach
  <1>13. f \in [NamesOf(b) -> 1..n] /\ \A i \in 1..N : f[b[i].name] = b[i].head
    BY <1>1, <1>11, HeadOfEach
  <1>14. g \in [NamesOf(d) -> 1..n]
    BY <1>8, <1>11, <1>12, <1>13 DEF Over
  <1>15. g[m] = id /\ \A y \in NamesOf(b) : g[y] = f[y]
    BY <1>11, <1>12, <1>13 DEF Over
  <1>16. ASSUME NEW i \in DOMAIN d PROVE g[d[i].name] = d[i].head
    <2>1. CASE i = N + 1
      BY <1>4, <1>5, <1>15, <2>1
    <2>2. CASE i # N + 1
      <3>1. i \in 1..N /\ d[i] = b[i] /\ b[i].name \in NamesOf(b)
        BY <1>1, <1>5, <2>2 DEF NamesOf
      <3> QED BY <1>13, <1>15, <3>1
    <2> QED BY <2>1, <2>2
  <1>17. g = HeadsByName(d)
    BY <1>7, <1>14, <1>16, HeadsUnique
  <1> QED BY <1>3, <1>7, <1>8, <1>9, <1>11, <1>17 DEF Longer

(* A branch is taken out of the list.                                        *)
LEMMA BranchTaken ==
    ASSUME NEW n \in Nat, NEW b, IsBranches(b, n), NEW k \in DOMAIN b, NEW d, d = Without(b, k)
    PROVE  /\ IsBranches(d, n) /\ NamesOf(d) = NamesOf(b) \ {b[k].name}
           /\ HeadsByName(d) = [m \in NamesOf(d) |-> HeadsByName(b)[m]]
PROOF
  <1>1. PICK N \in Nat : N = Len(b) /\ DOMAIN b = 1..N
    BY BranchesTyped
  <1>2. PICK R : R = [name : BranchNames, head : 1..n]
    OBVIOUS
  <1>3. \A i \in 1..N : b[i] \in R
    <2>1. b \in Seq(R)
      BY <1>2 DEF IsBranches
    <2> QED BY <1>1, <2>1, ElementOfSeq
  <1> DEFINE from(i) == IF i < k THEN i ELSE i + 1
  <1>4. k \in 1..N /\ N - 1 \in Nat
    BY <1>1
  <1>5. /\ d = [i \in 1..(N - 1) |-> b[from(i)]]
        /\ \A i \in 1..(N - 1) : from(i) \in 1..N /\ from(i) # k
        /\ \A i, j \in 1..(N - 1) : from(i) = from(j) => i = j
        /\ \A i \in 1..N : i # k => \E j \in 1..(N - 1) : from(j) = i
    <2>1. d = [i \in 1..(N - 1) |-> b[from(i)]]
      BY <1>1 DEF Without
    <2>2. \A i \in 1..(N - 1) : from(i) \in 1..N /\ from(i) # k
      BY <1>4
    <2>3. \A i, j \in 1..(N - 1) : from(i) = from(j) => i = j
      BY <1>4
    <2>4. ASSUME NEW i \in 1..N, i # k PROVE \E j \in 1..(N - 1) : from(j) = i
      <3>1. CASE i < k
        <4>1. i \in 1..(N - 1) /\ from(i) = i
          BY <1>4, <3>1
        <4> QED BY <4>1
      <3>2. CASE i > k
        <4>1. i - 1 \in 1..(N - 1) /\ from(i - 1) = i
          BY <1>4, <3>2
        <4> QED BY <4>1
      <3> QED BY <1>4, <2>4, <3>1, <3>2
    <2> QED BY <2>1, <2>2, <2>3, <2>4
  <1> HIDE DEF from
  <1>6. DOMAIN d = 1..(N - 1) /\ \A i \in 1..(N - 1) : d[i] = b[from(i)]
    BY <1>5
  <1>7. d \in Seq(R)
    <2>1. \A i \in 1..(N - 1) : b[from(i)] \in R
      BY <1>3, <1>5
    <2>2. d \in [1..(N - 1) -> R]
      BY <1>5, <2>1
    <2> QED BY <1>4, <2>2, FunctionIsSeq
  <1>8. IsBranches(d, n)
    <2>1. ASSUME NEW i \in 1..(N - 1), NEW j \in 1..(N - 1), d[i].name = d[j].name PROVE i = j
      <3>1. PICK x, y : x = from(i) /\ y = from(j)
        OBVIOUS
      <3>2. x \in 1..N /\ y \in 1..N /\ b[x].name = b[y].name
        BY <1>5, <1>6, <2>1, <3>1
      <3>3. x = y
        BY <1>1, <3>2 DEF IsBranches
      <3> QED BY <1>5, <3>1, <3>3
    <2> QED BY <1>2, <1>6, <1>7, <2>1 DEF IsBranches
  <1>9. NamesOf(d) = NamesOf(b) \ {b[k].name}
    <2>1. ASSUME NEW y \in NamesOf(d) PROVE y \in NamesOf(b) \ {b[k].name}
      <3>1. PICK i \in 1..(N - 1) : d[i].name = y
        BY <1>6 DEF NamesOf
      <3>2. b[from(i)].name = y /\ from(i) \in 1..N /\ from(i) # k
        BY <1>5, <1>6, <3>1
      <3>3. y # b[k].name
        BY <1>1, <1>4, <3>2 DEF IsBranches
      <3> QED BY <1>1, <3>2, <3>3 DEF NamesOf
    <2>2. ASSUME NEW y \in NamesOf(b), y # b[k].name PROVE y \in NamesOf(d)
      <3>1. PICK i \in 1..N : b[i].name = y
        BY <1>1 DEF NamesOf
      <3>2. PICK j \in 1..(N - 1) : from(j) = i
        BY <1>5, <2>2, <3>1
      <3>3. d[j].name = y
        BY <1>6, <3>1, <3>2
      <3> QED BY <1>6, <3>3 DEF NamesOf
    <2> QED BY <2>1, <2>2
  <1>10. PICK f, g : f = HeadsByName(b) /\ g = [m \in NamesOf(d) |-> f[m]]
    OBVIOUS
  <1>11. f \in [NamesOf(b) -> 1..n] /\ \A i \in 1..N : f[b[i].name] = b[i].head
    BY <1>1, <1>10, HeadOfEach
  <1>12. g \in [NamesOf(d) -> 1..n]
    BY <1>9, <1>10, <1>11
  <1>13. ASSUME NEW i \in DOMAIN d PROVE g[d[i].name] = d[i].head
    <2>1. d[i] = b[from(i)] /\ from(i) \in 1..N /\ d[i].name \in NamesOf(d)
      BY <1>5, <1>6 DEF NamesOf
    <2> QED BY <1>10, <1>11, <2>1
  <1>14. g = HeadsByName(d)
    BY <1>8, <1>12, <1>13, HeadsUnique
  <1> QED BY <1>8, <1>9, <1>10, <1>14

(* Storing every branch writes the heads of all.                             *)
LEMMA AllStored ==
    ASSUME NEW n, NEW b, IsBranches(b, n), NEW f, DOMAIN f \subseteq NamesOf(b)
    PROVE  Over(HeadsByName(b), f) = HeadsByName(b)
PROOF
  <1>1. PICK g : g = HeadsByName(b)
    OBVIOUS
  <1>2. g \in [NamesOf(b) -> 1..n]
    BY <1>1, HeadOfEach
  <1>3. Over(g, f) = g
    BY <1>2 DEF Over
  <1> QED BY <1>1, <1>3

(* A finite set as a sequence has every element at one place.                *)
LEMMA Listed ==
    ASSUME NEW S, IsFiniteSet(S)
    PROVE  \E N \in Nat : /\ SetToSeq(S) \in [1..N -> S]
                          /\ \A i, j \in 1..N : SetToSeq(S)[i] = SetToSeq(S)[j] => i = j
                          /\ \A x \in S : \E i \in 1..N : SetToSeq(S)[i] = x
PROOF
  <1>1. PICK N \in Nat : N = Cardinality(S) /\ ExistsBijection(1..N, S)
    BY FS_CardinalityType
  <1>2. PICK f : f \in [1..N -> S] /\ IsInjective(f)
    BY <1>1 DEF ExistsBijection, Bijection, Injection
  <1> DEFINE list == CHOOSE g : g \in [1..N -> S] /\ IsInjective(g)
  <1>3. list \in [1..N -> S] /\ IsInjective(list)
    BY <1>2
  <1>4. list = SetToSeq(S)
    BY <1>1 DEF SetToSeq
  <1> HIDE DEF list
  <1>5. list \in Injection(1..N, S)
    BY <1>3, Zenon DEF Injection
  <1>6. list \in Surjection(1..N, S)
    <2>1. IsFiniteSet(1..N) /\ Cardinality(1..N) = N
      BY FS_Interval
    <2> QED BY <1>1, <1>5, <2>1, FS_Injection
  <1>7. \A i, j \in 1..N : list[i] = list[j] => i = j
    BY <1>3 DEF IsInjective
  <1>8. \A x \in S : \E i \in 1..N : list[i] = x
    BY <1>6 DEF Surjection
  <1> QED BY <1>3, <1>4, <1>7, <1>8

(* The branches that load makes of the table have its heads.                 *)
LEMMA BranchesSorted ==
    ASSUME NEW n \in Nat, NEW r, IsRefs(r.branches, n)
    PROVE  /\ IsBranches(SortedBranches(r), n)
           /\ NamesOf(SortedBranches(r)) = DOMAIN r.branches
           /\ HeadsByName(SortedBranches(r)) = r.branches
PROOF
  <1>1. PICK S, f, list, b : S = DOMAIN r.branches /\ f = r.branches /\ list = SetToSeq(S) /\ b = SortedBranches(r)
    OBVIOUS
  <1>2. f \in [S -> 1..n] /\ S \subseteq BranchNames /\ IsFiniteSet(S)
    BY <1>1 DEF IsRefs
  <1>3. PICK N \in Nat : /\ list \in [1..N -> S]
                         /\ \A i, j \in 1..N : list[i] = list[j] => i = j
                         /\ \A x \in S : \E i \in 1..N : list[i] = x
    <2>1. PICK M \in Nat : /\ SetToSeq(S) \in [1..M -> S]
                           /\ \A i, j \in 1..M : SetToSeq(S)[i] = SetToSeq(S)[j] => i = j
                           /\ \A x \in S : \E i \in 1..M : SetToSeq(S)[i] = x
      BY <1>2, Listed, Zenon
    <2> QED BY <1>1, <2>1
  <1>4. b = [i \in 1..N |-> [name |-> list[i], head |-> f[list[i]]]]
    <2>1. DOMAIN list = 1..N
      BY <1>3
    <2>2. b = [i \in DOMAIN list |-> [name |-> list[i], head |-> f[list[i]]]]
      BY <1>1, Zenon DEF SortedBranches
    <2> QED BY <2>1, <2>2
  <1>5. PICK R : R = [name : BranchNames, head : 1..n]
    OBVIOUS
  <1>6. ASSUME NEW i \in 1..N
        PROVE  b[i] \in R /\ b[i].name = list[i] /\ b[i].head = f[list[i]]
    <2>1. PICK x, y : x = list[i] /\ y = f[list[i]]
      OBVIOUS
    <2>2. b[i] = [name |-> x, head |-> y] /\ x \in BranchNames /\ y \in 1..n
      BY <1>2, <1>3, <1>4, <2>1
    <2> QED BY <1>5, <2>1, <2>2
  <1>7. b \in Seq(R) /\ DOMAIN b = 1..N
    <2>1. b \in [1..N -> R]
      BY <1>4, <1>6
    <2> QED BY <2>1, FunctionIsSeq
  <1>8. IsBranches(b, n)
    BY <1>3, <1>5, <1>6, <1>7 DEF IsBranches
  <1>9. NamesOf(b) = S
    <2>1. \A x \in S : x \in NamesOf(b)
      BY <1>3, <1>6, <1>7 DEF NamesOf
    <2>2. \A x \in NamesOf(b) : x \in S
      BY <1>3, <1>6, <1>7 DEF NamesOf
    <2> QED BY <2>1, <2>2
  <1>10. \A i \in DOMAIN b : f[b[i].name] = b[i].head
    BY <1>6, <1>7
  <1>11. f \in [NamesOf(b) -> 1..n]
    BY <1>2, <1>9
  <1>12. f = HeadsByName(b)
    BY <1>8, <1>10, <1>11, HeadsUnique
  <1> QED BY <1>1, <1>8, <1>9, <1>12

-----------------------------------------------------------------------------
(* Later, with more checkpoints                                              *)
LEMMA BranchesStay ==
    ASSUME NEW n \in Nat, NEW b, IsBranches(b, n), NEW m \in Nat, n <= m
    PROVE  IsBranches(b, m)
PROOF
  <1>1. PICK few, many : few = [name : BranchNames, head : 1..n] /\ many = [name : BranchNames, head : 1..m]
    OBVIOUS
  <1>2. few \subseteq many
    BY <1>1
  <1>3. b \in Seq(few)
    BY <1>1 DEF IsBranches
  <1>4. b \in Seq(many)
    BY <1>2, <1>3
  <1> QED BY <1>1, <1>4 DEF IsBranches

LEMMA RefsStay ==
    ASSUME NEW n \in Nat, NEW f, IsRefs(f, n), NEW m \in Nat, n <= m
    PROVE  IsRefs(f, m)
PROOF
  <1>1. 1..n \subseteq 1..m
    OBVIOUS
  <1> QED BY <1>1 DEF IsRefs

LEMMA DatedStays ==
    ASSUME NEW now \in Nat, NEW n \in Nat, NEW f, Dated(f, now, n),
           NEW later \in Nat, now <= later, NEW m \in Nat, n <= m
    PROVE  Dated(f, later, m)
PROOF
  <1>1. 1..n \subseteq 1..m /\ 0..now \subseteq 0..later
    OBVIOUS
  <1> QED BY <1>1 DEF Dated

(* The table of branches, when a head moves, branches come or go             *)
LEMMA RefMoves ==
    ASSUME NEW n \in Nat, NEW f, IsRefs(f, n), NEW x, NEW id \in 1..n,
           NEW g, g = IF x \in DOMAIN f THEN [f EXCEPT ![x] = id] ELSE f
    PROVE  IsRefs(g, n) /\ DOMAIN g = DOMAIN f
BY DEF IsRefs

LEMMA RefsOver ==
    ASSUME NEW n \in Nat, NEW f, IsRefs(f, n), NEW g, IsRefs(g, n)
    PROVE  IsRefs(Over(g, f), n) /\ DOMAIN Over(g, f) = DOMAIN f \cup DOMAIN g
PROOF
  <1>1. PICK h : h = Over(g, f)
    OBVIOUS
  <1>2. IsFiniteSet(DOMAIN f \cup DOMAIN g)
    BY FS_Union DEF IsRefs
  <1>3. DOMAIN h = DOMAIN f \cup DOMAIN g /\ h \in [DOMAIN h -> 1..n] /\ DOMAIN h \subseteq BranchNames
    BY <1>1 DEF Over, IsRefs
  <1> QED BY <1>1, <1>2, <1>3 DEF IsRefs

LEMMA RefsDeleted ==
    ASSUME NEW n \in Nat, NEW f, IsRefs(f, n), NEW names, NEW g, g = [x \in DOMAIN f \ names |-> f[x]]
    PROVE  IsRefs(g, n) /\ DOMAIN g = DOMAIN f \ names
PROOF
  <1>1. IsFiniteSet(DOMAIN f \ names)
    BY FS_Difference DEF IsRefs
  <1> QED BY <1>1 DEF IsRefs

LEMMA HeadsAreRefs ==
    ASSUME NEW n \in Nat, NEW b, IsBranches(b, n)
    PROVE  IsRefs(HeadsByName(b), n) /\ DOMAIN HeadsByName(b) = NamesOf(b)
PROOF
  <1>1. PICK f, N : f = HeadsByName(b) /\ N = Len(b)
    OBVIOUS
  <1>2. f \in [NamesOf(b) -> 1..n]
    BY <1>1, HeadOfEach
  <1>3. N \in Nat /\ DOMAIN b = 1..N /\ \A i \in 1..N : b[i].name \in BranchNames
    BY <1>1, BranchesTyped
  <1>4. NamesOf(b) \subseteq BranchNames
    BY <1>3 DEF NamesOf
  <1>5. IsFiniteSet(NamesOf(b))
    <2> DEFINE g == [i \in 1..N |-> b[i].name]
    <2>1. g \in Surjection(1..N, NamesOf(b))
      BY <1>3 DEF Surjection, NamesOf
    <2>2. IsFiniteSet(1..N)
      BY <1>3, FS_Interval
    <2> HIDE DEF g
    <2> QED BY <2>1, <2>2, FS_Surjection
  <1> QED BY <1>1, <1>2, <1>4, <1>5 DEF IsRefs

(* Tables and a repository of the first n checkpoints, and times so far      *)
RowsTyped(r, now, n) ==
    /\ IsRows(r)
    /\ Dated(r.checkpoints, now, n)
    /\ IsRefs(r.branches, n)

RepoTyped(rep, now, n) ==
    /\ IsRepo(rep)
    /\ Dated(rep.held, now, n)
    /\ IsIndex(rep.index, now, n)
    /\ IsBranches(rep.branches, n)

(* Some snapshots are stored with, once k reaches first, a checkpoint and,    *)
(* once it reaches last, a head.                                             *)
Written(q, r, new, name, id, k, first, last) ==
    /\ q.snapshots = r.snapshots \cup new
    /\ DOMAIN q.checkpoints = DOMAIN r.checkpoints \cup (IF k >= first THEN {id} ELSE {})
    /\ DOMAIN q.branches = DOMAIN r.branches
    /\ k >= last => q.branches = IF name \in DOMAIN r.branches THEN [r.branches EXCEPT ![name] = id]
                                 ELSE r.branches

(* Every dirty checkpoint and every branch is stored, what was deleted gone.  *)
AllWritten(q, r, rep) ==
    /\ q.snapshots = r.snapshots
    /\ DOMAIN q.checkpoints =
          (DOMAIN r.checkpoints \cup (rep.dirty \cap Held(rep))) \ rep.deletedCheckpoints
    /\ q.branches = Over(HeadsByName(rep.branches),
                         [x \in DOMAIN r.branches \ rep.deletedBranches |-> r.branches[x]])

(* The storage calls of a commit or merge                                    *)
LEMMA PersistedWrites ==
    ASSUME NEW n \in Nat, clock \in Nat, NEW r, RowsTyped(r, clock, n), NEW rep, NEW id \in 1..n,
           NEW ps, NEW k, NEW q, q = Persisted(r, rep, id, ps, k)
    PROVE  RowsTyped(q, clock, n) /\ Written(q, r, {}, CurrentName(rep), id, k, 1, Len(ps) + 2)
PROOF
  <1>1. PICK s : s = IF k >= 1 THEN StoreCheckpoint(r, id, clock) ELSE r
    OBVIOUS
  <1>2. /\ IsRows(s) /\ s.branches = r.branches /\ s.snapshots = r.snapshots
        /\ Dated(s.checkpoints, clock, n)
        /\ DOMAIN s.checkpoints = DOMAIN r.checkpoints \cup (IF k >= 1 THEN {id} ELSE {})
    <2>1. CASE k >= 1
      <3>1. s = StoreCheckpoint(r, id, clock)
        BY <1>1, <2>1
      <3>2. IsRows(r) /\ Dated(r.checkpoints, clock, n)
        BY DEF RowsTyped
      <3>3. /\ IsRows(s) /\ s.branches = r.branches /\ s.snapshots = r.snapshots
            /\ Dated(s.checkpoints, clock, n) /\ DOMAIN s.checkpoints = DOMAIN r.checkpoints \cup {id}
        <4>1. PICK now \in Nat : now = clock
          OBVIOUS
        <4>2. s = StoreCheckpoint(r, id, now) /\ Dated(r.checkpoints, now, n) /\ IsRows(r)
          BY <3>1, <3>2, <4>1
        <4>3. CheckpointWritten(s, r, id, now, n)
          BY <4>2, StoreCheckpointWrites
        <4> QED BY <4>1, <4>3 DEF CheckpointWritten
      <3> QED BY <2>1, <3>3
    <2>2. CASE ~(k >= 1)
      <3>1. s = r
        BY <1>1, <2>2
      <3> QED BY <2>2, <3>1 DEF RowsTyped
    <2> QED BY <2>1, <2>2
  <1>3. PICK edges, t : /\ edges = {<<ps[i], id>> : i \in {j \in DOMAIN ps : j < k}}
                        /\ t = StoreDagEdges(s, edges, rep.dag.gens)
    OBVIOUS
  <1>4. IsRows(t) /\ t.branches = s.branches /\ t.snapshots = s.snapshots /\ t.checkpoints = s.checkpoints
    BY <1>2, <1>3, StoreDagEdgesWrites
  <1>5. q = IF k >= Len(ps) + 2 THEN UpdateBranchHead(t, CurrentName(rep), id) ELSE t
    BY <1>1, <1>3, Zenon DEF Persisted
  <1>6. IsRefs(t.branches, n)
    BY <1>2, <1>4 DEF RowsTyped
  <1>7. CASE k >= Len(ps) + 2
    <2>1. PICK x, f : x = CurrentName(rep) /\ f = t.branches
      OBVIOUS
    <2>2. q = UpdateBranchHead(t, x, id)
      BY <1>5, <1>7, <2>1
    <2>3. /\ IsRows(q) /\ q.snapshots = t.snapshots /\ q.checkpoints = t.checkpoints
          /\ q.branches = IF x \in DOMAIN f THEN [f EXCEPT ![x] = id] ELSE f
      BY <1>4, <2>1, <2>2, UpdateBranchHeadWrites
    <2>4. IsRefs(q.branches, n) /\ DOMAIN q.branches = DOMAIN f
      BY <1>6, <2>1, <2>3, RefMoves
    <2> QED BY <1>2, <1>4, <2>1, <2>3, <2>4 DEF RowsTyped, Written
  <1>8. CASE ~(k >= Len(ps) + 2)
    <2>1. q = t
      BY <1>5, <1>8
    <2> QED BY <1>2, <1>4, <1>6, <1>8, <2>1 DEF RowsTyped, Written
  <1> QED BY <1>7, <1>8

(* The storage calls of a transaction's commit                               *)
LEMMA TransactionWrites ==
    ASSUME NEW n \in Nat, clock \in Nat, NEW r, RowsTyped(r, clock, n), NEW id \in 1..n,
           NEW tx, Len(tx.snaps) \in Nat, NEW k \in Nat, NEW q, q = TransactionRows(r, tx, id, k)
    PROVE  /\ RowsTyped(q, clock, n)
           /\ Written(q, r, {tx.snaps[i] : i \in {j \in 1..Len(tx.snaps) : j <= k}}, CurrentName(repo), id, k,
                      Len(tx.snaps) + 1, Len(tx.snaps) + 2)
PROOF
  <1>1. PICK N, new, snaps, x : /\ N = Len(tx.snaps) /\ new = {tx.snaps[i] : i \in {j \in 1..N : j <= k}}
                                /\ snaps = [r EXCEPT !.snapshots = @ \cup new]
                                /\ x = CurrentName(repo)
    OBVIOUS
  <1>2. /\ IsRows(snaps) /\ snaps.branches = r.branches /\ snaps.checkpoints = r.checkpoints
        /\ snaps.snapshots = r.snapshots \cup new /\ Dated(snaps.checkpoints, clock, n)
    BY <1>1 DEF RowsTyped, IsRows
  <1>3. PICK s : s = IF k > N THEN StoreCheckpoint(snaps, id, clock) ELSE snaps
    OBVIOUS
  <1>4. /\ IsRows(s) /\ s.branches = r.branches /\ s.snapshots = r.snapshots \cup new
        /\ Dated(s.checkpoints, clock, n)
        /\ DOMAIN s.checkpoints = DOMAIN r.checkpoints \cup (IF k > N THEN {id} ELSE {})
    <2>1. CASE k > N
      <3>1. s = StoreCheckpoint(snaps, id, clock)
        BY <1>3, <2>1
      <3>2. /\ IsRows(s) /\ s.branches = snaps.branches /\ s.snapshots = snaps.snapshots
            /\ Dated(s.checkpoints, clock, n) /\ DOMAIN s.checkpoints = DOMAIN snaps.checkpoints \cup {id}
        <4>1. PICK now \in Nat : now = clock
          OBVIOUS
        <4>2. s = StoreCheckpoint(snaps, id, now) /\ Dated(snaps.checkpoints, now, n) /\ IsRows(snaps)
          BY <1>2, <3>1, <4>1
        <4>3. CheckpointWritten(s, snaps, id, now, n)
          BY <4>2, StoreCheckpointWrites
        <4> QED BY <4>1, <4>3 DEF CheckpointWritten
      <3> QED BY <1>2, <2>1, <3>2
    <2>2. CASE ~(k > N)
      <3>1. s = snaps
        BY <1>3, <2>2
      <3> QED BY <1>2, <2>2, <3>1
    <2> QED BY <2>1, <2>2
  <1>5. q = IF k > N + 1 THEN UpdateBranchHead(s, x, id) ELSE s
    BY <1>1, <1>3, Zenon DEF TransactionRows
  <1>6. IsRefs(s.branches, n)
    BY <1>4 DEF RowsTyped
  <1>7. CASE k > N + 1
    <2>1. PICK f : f = s.branches
      OBVIOUS
    <2>2. q = UpdateBranchHead(s, x, id)
      BY <1>5, <1>7
    <2>3. /\ IsRows(q) /\ q.snapshots = s.snapshots /\ q.checkpoints = s.checkpoints
          /\ q.branches = IF x \in DOMAIN f THEN [f EXCEPT ![x] = id] ELSE f
      <3>1. IsRows(s)
        BY <1>4
      <3>2. /\ IsRows(q) /\ q.snapshots = s.snapshots /\ q.checkpoints = s.checkpoints
            /\ q.branches = IF x \in DOMAIN s.branches THEN [s.branches EXCEPT ![x] = id] ELSE s.branches
        <4>1. PICK z, g : z = q /\ g = [s.branches EXCEPT ![x] = id]
          OBVIOUS
        <4>2. z = UpdateBranchHead(s, x, id)
          BY <2>2, <4>1
        <4>3. /\ IsRows(z) /\ z.snapshots = s.snapshots /\ z.checkpoints = s.checkpoints
              /\ z.branches = IF x \in DOMAIN s.branches THEN [s.branches EXCEPT ![x] = id] ELSE s.branches
          <5>1. CASE x \in DOMAIN s.branches
            BY <3>1, <4>2, <5>1 DEF UpdateBranchHead, IsRows
          <5>2. CASE x \notin DOMAIN s.branches
            BY <3>1, <4>2, <5>2 DEF UpdateBranchHead
          <5> QED BY <5>1, <5>2
        <4> QED BY <4>1, <4>3
      <3> QED BY <2>1, <3>2
    <2>4. IsRefs(q.branches, n) /\ DOMAIN q.branches = DOMAIN f
      BY <1>6, <2>1, <2>3, RefMoves
    <2> QED BY <1>1, <1>4, <2>1, <2>3, <2>4 DEF RowsTyped, Written
  <1>8. CASE ~(k > N + 1)
    <2>1. q = s
      BY <1>5, <1>8
    <2> QED BY <1>1, <1>4, <1>6, <1>8, <2>1 DEF RowsTyped, Written
  <1> QED BY <1>7, <1>8

(* The storage calls of sync_all                                             *)
LEMMA SyncedWrites ==
    ASSUME NEW n \in Nat, NEW now \in Nat, NEW r, RowsTyped(r, now, n), NEW rep, RepoTyped(rep, now, n),
           NEW q, q = Synced(r, rep)
    PROVE  RowsTyped(q, now, n) /\ AllWritten(q, r, rep)
PROOF
  <1>1. PICK dirty, new, f : /\ dirty = rep.dirty \cap Held(rep) /\ new = [m \in dirty |-> rep.held[m]]
                             /\ f = Over(r.checkpoints, new)
    OBVIOUS
  <1>2. Dated(new, now, n) /\ DOMAIN new = dirty
    BY <1>1 DEF Dated, RepoTyped, Held
  <1>3. Dated(f, now, n) /\ DOMAIN f = DOMAIN r.checkpoints \cup dirty
    BY <1>1, <1>2, OverDated DEF RowsTyped
  <1>4. PICK a : a = [r EXCEPT !.checkpoints = f]
    OBVIOUS
  <1>5. IsRows(a) /\ a.branches = r.branches /\ a.snapshots = r.snapshots /\ a.checkpoints = f
    BY <1>4 DEF RowsTyped, IsRows
  <1>6. PICK edges : DirtyStored(r, rep) = StoreDagEdges(a, edges, rep.dag.gens)
    BY <1>1, <1>4, Zenon DEF DirtyStored
  <1>7. PICK b : b = DirtyStored(r, rep)
    OBVIOUS
  <1>8. IsRows(b) /\ b.branches = r.branches /\ b.snapshots = r.snapshots /\ b.checkpoints = f
    BY <1>5, <1>6, <1>7, StoreDagEdgesWrites
  <1>9. PICK c : c = DeleteRows(b, rep.deletedCheckpoints)
    OBVIOUS
  <1>10. /\ IsRows(c) /\ c.branches = r.branches /\ c.snapshots = r.snapshots
         /\ DOMAIN c.checkpoints = DOMAIN f \ rep.deletedCheckpoints /\ Dated(c.checkpoints, now, n)
    <2>1. Dated(b.checkpoints, now, n)
      BY <1>3, <1>8
    <2>2. /\ IsRows(c) /\ c.branches = b.branches /\ c.snapshots = b.snapshots
          /\ DOMAIN c.checkpoints = DOMAIN b.checkpoints \ rep.deletedCheckpoints
          /\ Dated(c.checkpoints, now, n)
      <3>1. PICK ids : ids = rep.deletedCheckpoints
        OBVIOUS
      <3>2. c = DeleteRows(b, ids) /\ IsRows(b)
        BY <1>8, <1>9, <3>1
      <3>3. /\ IsRows(c) /\ c.branches = b.branches /\ c.snapshots = b.snapshots
            /\ DOMAIN c.checkpoints = DOMAIN b.checkpoints \ ids
            /\ Dated(c.checkpoints, now, n)
        BY <2>1, <3>2, DeleteRowsWrites DEF RowsDeleted
      <3> QED BY <3>1, <3>3
    <2> QED BY <1>8, <2>2
  <1>11. PICK left : left = [x \in DOMAIN r.branches \ rep.deletedBranches |-> r.branches[x]]
    OBVIOUS
  <1>12. PICK d : d = DeleteBranches(c, rep.deletedBranches)
    OBVIOUS
  <1>13. /\ IsRows(d) /\ d.snapshots = r.snapshots /\ d.checkpoints = c.checkpoints
         /\ d.branches = left
    <2>1. /\ IsRows(d) /\ d.snapshots = c.snapshots /\ d.checkpoints = c.checkpoints
          /\ d.branches = [x \in DOMAIN c.branches \ rep.deletedBranches |-> c.branches[x]]
      BY <1>10, <1>12, DeleteBranchesWrites DEF BranchesDeleted
    <2> QED BY <1>10, <1>11, <2>1
  <1>14. PICK e : e = StoreBranches(d, rep.branches)
    OBVIOUS
  <1>15. /\ IsRows(e) /\ e.snapshots = d.snapshots /\ e.checkpoints = d.checkpoints
         /\ e.branches = Over(HeadsByName(rep.branches), d.branches)
    BY <1>13, <1>14, StoreBranchesWrites
  <1>16. q = [e EXCEPT !.current = CurrentName(rep)]
    BY <1>7, <1>9, <1>12, <1>14, Zenon DEF Synced
  <1>17. /\ IsRows(q) /\ q.snapshots = e.snapshots /\ q.checkpoints = e.checkpoints
         /\ q.branches = e.branches
    BY <1>15, <1>16 DEF IsRows
  <1>18. IsRefs(left, n)
    BY <1>11, RefsDeleted DEF RowsTyped
  <1>19. IsRefs(HeadsByName(rep.branches), n)
    BY HeadsAreRefs DEF RepoTyped
  <1>20. q.branches = Over(HeadsByName(rep.branches), left)
    BY <1>13, <1>15, <1>17
  <1>21. IsRefs(q.branches, n)
    BY <1>18, <1>19, <1>20, RefsOver
  <1>22. Dated(q.checkpoints, now, n) /\ q.snapshots = r.snapshots
    BY <1>10, <1>13, <1>15, <1>17
  <1>23. DOMAIN q.checkpoints = (DOMAIN r.checkpoints \cup dirty) \ rep.deletedCheckpoints
    BY <1>3, <1>10, <1>13, <1>15, <1>17
  <1> QED BY <1>1, <1>11, <1>17, <1>20, <1>21, <1>22, <1>23 DEF RowsTyped, AllWritten

-----------------------------------------------------------------------------
(* Checkpoints                                                               *)
Txs(n) == [parents : Seq(1..n), snaps : Seq(Snaps)]

MadeTyped ==
    /\ made \in Seq(Txs(Len(made)))
    /\ 1 <= Len(made)

LEMMA TxsGrow ==
    ASSUME NEW n \in Nat, NEW m \in Nat, n <= m
    PROVE  Txs(n) \subseteq Txs(m)
PROOF
  <1>1. PICK few, many : few = 1..n /\ many = 1..m
    OBVIOUS
  <1>2. few \subseteq many
    BY <1>1
  <1>3. \A s \in Seq(few) : s \in Seq(many)
    BY <1>2
  <1>4. PICK A, B : A = Seq(few) /\ B = Seq(many)
    OBVIOUS
  <1>5. \A s \in A : s \in B
    BY <1>3, <1>4
  <1>6. PICK C : C = Seq(Snaps)
    OBVIOUS
  <1>7. [parents : A, snaps : C] \subseteq [parents : B, snaps : C]
    BY <1>5
  <1> QED BY <1>1, <1>4, <1>6, <1>7 DEF Txs

(* A checkpoint that is made has its id, and no other changes.               *)
LEMMA Makes ==
    ASSUME MadeTyped, NEW cp \in Txs(Len(made)), Make(cp)
    PROVE  /\ MadeTyped'
           /\ Len(made) \in Nat /\ Len(made') \in Nat /\ Len(made) <= Len(made')
           /\ IdOf(cp) \in 1..Len(made')
           /\ \A i \in 1..Len(made) : made'[i] = made[i]
           /\ made'[IdOf(cp)] = cp
PROOF
  <1>1. PICK N, id : N = Len(made) /\ id = IdOf(cp)
    OBVIOUS
  <1>2. N \in Nat /\ 1 <= N /\ made \in Seq(Txs(N)) /\ Ids = 1..N
    BY <1>1, LenProperties DEF MadeTyped, Ids
  <1>3. CASE \E i \in Ids : made[i] = cp
    <2>1. id = CHOOSE i \in Ids : made[i] = cp
      BY <1>1, <1>3 DEF IdOf
    <2>2. id \in Ids /\ made[id] = cp
      BY <1>3, <2>1
    <2>3. made' = made
      BY <1>1, <2>2 DEF Make
    <2> QED BY <1>1, <1>2, <2>2, <2>3 DEF MadeTyped
  <1>4. CASE ~ \E i \in Ids : made[i] = cp
    <2>1. id = N + 1
      BY <1>1, <1>4 DEF IdOf
    <2>2. made' = Append(made, cp)
      BY <1>1, <1>2, <2>1 DEF Make
    <2>3. PICK few, many : few = Txs(N) /\ many = Txs(N + 1)
      OBVIOUS
    <2>4. few \subseteq many
      BY <1>2, <2>3, TxsGrow
    <2>5. made \in Seq(many)
      BY <1>2, <2>3, <2>4
    <2>6. cp \in many
      BY <1>1, <2>3, <2>4
    <2>7. /\ made' \in Seq(many) /\ Len(made') = N + 1 /\ made'[N + 1] = cp
          /\ \A i \in 1..N : made'[i] = made[i]
      BY <1>1, <2>2, <2>5, <2>6, AppendProperties
    <2> QED BY <1>1, <1>2, <2>1, <2>3, <2>7 DEF MadeTyped
  <1> QED BY <1>3, <1>4

-----------------------------------------------------------------------------
(* The types of the library's state                                          *)
LibraryTyped ==
    /\ MadeTyped
    /\ clock \in Nat
    /\ failures \in Nat
    /\ open \subseteq Txs(Len(made))
    /\ RepoTyped(repo, clock, Len(made))
    /\ RowsTyped(rows, clock, Len(made))

LEMMA RepoStays ==
    ASSUME NEW now \in Nat, NEW n \in Nat, NEW rep, RepoTyped(rep, now, n),
           NEW later \in Nat, now <= later, NEW m \in Nat, n <= m
    PROVE  RepoTyped(rep, later, m)
PROOF
  <1>1. Dated(rep.held, later, m)
    BY DatedStays DEF RepoTyped
  <1>2. IsIndex(rep.index, later, m)
    BY IndexStays DEF RepoTyped
  <1>3. IsBranches(rep.branches, m)
    BY BranchesStay DEF RepoTyped
  <1> QED BY <1>1, <1>2, <1>3 DEF RepoTyped

LEMMA RowsStay ==
    ASSUME NEW now \in Nat, NEW n \in Nat, NEW r, RowsTyped(r, now, n),
           NEW later \in Nat, now <= later, NEW m \in Nat, n <= m
    PROVE  RowsTyped(r, later, m)
PROOF
  <1>1. Dated(r.checkpoints, later, m)
    BY DatedStays DEF RowsTyped
  <1>2. IsRefs(r.branches, m)
    BY RefsStay DEF RowsTyped
  <1> QED BY <1>1, <1>2 DEF RowsTyped

LEMMA FirstReading == Min(Readings) \in Nat
PROOF
  <1>1. PICK x \in Readings : \A y \in Readings : x <= y
    BY ReadingsAssumption, Least
  <1>2. Min(Readings) \in Readings
    BY <1>1 DEF Min
  <1> QED BY <1>2, ReadingsAssumption

LEMMA LibraryStartsTyped == Init => LibraryTyped
PROOF
  <1> SUFFICES ASSUME Init PROVE LibraryTyped
    OBVIOUS
  <1>1. PICK first \in Nat : first = Min(Readings)
    BY FirstReading
  <1>2. PICK cp : cp = [parents |-> << >>, snaps |-> << >>]
    OBVIOUS
  <1>3. made = <<cp>> /\ Len(made) = 1 /\ clock = first /\ open = {} /\ failures = 0
    BY <1>1, <1>2 DEF Init
  <1>4. MadeTyped
    <2>1. cp \in Txs(1)
      <3>1. PICK A, B : A = Seq(1..1) /\ B = Seq(Snaps)
        OBVIOUS
      <3>2. << >> \in A /\ << >> \in B
        BY <3>1
      <3>3. cp \in [parents : A, snaps : B]
        BY <1>2, <3>2
      <3> QED BY <3>1, <3>3 DEF Txs
    <2>2. PICK T : T = Txs(1)
      OBVIOUS
    <2>3. made \in Seq(T)
      BY <1>3, <2>1, <2>2
    <2> QED BY <1>3, <2>2, <2>3 DEF MadeTyped
  <1>5. PICK held, b, index, x : /\ held = [n \in {Root} |-> first] /\ b = <<[name |-> Main, head |-> Root]>>
                                 /\ index = Indexed(<< >>, first, Root) /\ x = [n \in {Main} |-> Root]
    OBVIOUS
  <1>6. Dated(held, first, 1)
    BY <1>5 DEF Dated, Root
  <1>7. IsIndex(index, first, 1)
    <2>1. IsIndex(<< >>, first, 1)
      BY DEF IsIndex
    <2> QED BY <1>5, <2>1, EntryAdded DEF Root
  <1>8. IsBranches(b, 1)
    <2>1. PICK R, y : R = [name : BranchNames, head : 1..1] /\ y = [name |-> Main, head |-> 1]
      OBVIOUS
    <2>2. y \in R
      BY <2>1 DEF BranchNames
    <2>3. b = <<y>>
      BY <1>5, <2>1 DEF Root
    <2>4. b \in Seq(R) /\ DOMAIN b = {1}
      BY <2>2, <2>3
    <2> QED BY <2>1, <2>4 DEF IsBranches
  <1>9. IsRefs(x, 1)
    <2>1. IsFiniteSet({Main})
      BY FS_Singleton
    <2> QED BY <1>5, <2>1 DEF IsRefs, BranchNames, Root
  <1>10. RepoTyped(NewRepo, first, 1)
    BY <1>1, <1>5, <1>6, <1>7, <1>8 DEF RepoTyped, NewRepo, IsRepo
  <1>11. RepoTyped([NewRepo EXCEPT !.stored = TRUE], first, 1)
    BY <1>1, <1>5, <1>6, <1>7, <1>8 DEF RepoTyped, NewRepo, IsRepo
  <1>12. Dated(<< >>, first, 1) /\ IsRefs(<< >>, 1)
    <2>1. DOMAIN << >> = {} /\ << >> \in [{} -> 0..first] /\ << >> \in [{} -> 1..1]
      OBVIOUS
    <2>2. IsFiniteSet(DOMAIN << >>)
      BY <2>1, FS_EmptySet
    <2> QED BY <2>1, <2>2 DEF Dated, IsRefs
  <1>13. RowsTyped(NoRows, first, 1)
    <2>1. PICK none : none = << >>
      OBVIOUS
    <2>2. Dated(none, first, 1) /\ IsRefs(none, 1)
      BY <1>12, <2>1
    <2>3. NoRows = [checkpoints |-> none, branches |-> none, current |-> "", edges |-> {},
                    gens |-> << >>, snapshots |-> {}]
      BY <2>1 DEF NoRows
    <2> QED BY <2>2, <2>3 DEF RowsTyped, IsRows
  <1>14. RowsTyped(RootRows, first, 1)
    <2>1. RootRows = [checkpoints |-> held, branches |-> x, current |-> Main, edges |-> {},
                      gens |-> << >>, snapshots |-> {}]
      <3>1. PICK none : none = << >>
        OBVIOUS
      <3>2. NoRows = [checkpoints |-> none, branches |-> none, current |-> "", edges |-> {},
                      gens |-> none, snapshots |-> {}]
        BY <3>1 DEF NoRows
      <3>3. RootRows = [NoRows EXCEPT !.checkpoints = held, !.branches = x, !.current = Main]
        BY <1>1, <1>5 DEF RootRows
      <3> QED BY <3>1, <3>2, <3>3
    <2> QED BY <1>6, <1>9, <2>1 DEF RowsTyped, IsRows
  <1>15. RepoTyped(repo, first, 1) /\ RowsTyped(rows, first, 1)
    BY <1>10, <1>11, <1>13, <1>14 DEF Init
  <1> QED BY <1>3, <1>4, <1>15 DEF LibraryTyped

-----------------------------------------------------------------------------
(* What calls do to a typed state                                            *)

(* Nothing made, cached or stored as a snapshot is lost.                     *)
Keeps ==
    /\ LibraryTyped'
    /\ Len(made) <= Len(made') /\ \A i \in 1..Len(made) : made'[i] = made[i]
    /\ repo.stored => repo'.stored
    /\ rows.snapshots \subseteq rows'.snapshots

Caches ==
    /\ repo'.stored = repo.stored
    /\ repo.cached \subseteq repo'.cached
    /\ repo.stored => repo'.cached \subseteq repo.cached \cup rows'.snapshots

(* A commit, a merge or a transaction puts the head of the current branch on *)
(* a checkpoint ...                                                          *)
Commits(id) ==
    /\ failures' = failures /\ tracked' = tracked
    /\ NamesOf(repo'.branches) = NamesOf(repo.branches)
    /\ HeadsByName(repo'.branches) = [HeadsByName(repo.branches) EXCEPT ![CurrentName(repo)] = id]
    /\ Held(repo') = Held(repo) \cup {id}
    /\ repo'.dirty = repo.dirty \cup {id}
    /\ ~repo.stored => rows' = rows
    /\ repo.stored => /\ DOMAIN rows'.checkpoints = DOMAIN rows.checkpoints \cup {id}
                      /\ DOMAIN rows'.branches = DOMAIN rows.branches
                      /\ rows'.branches = IF CurrentName(repo) \in DOMAIN rows.branches
                                          THEN [rows.branches EXCEPT ![CurrentName(repo)] = id]
                                          ELSE rows.branches

(* ... or one of its storage calls fails.                                    *)
Fails ==
    /\ repo.stored /\ failures' = failures + 1 /\ ~tracked'
    /\ NamesOf(repo'.branches) = NamesOf(repo.branches)
    /\ Held(repo) \subseteq Held(repo') /\ Held(repo') \subseteq Held(repo) \cup repo'.dirty
    /\ repo.dirty \subseteq repo'.dirty
    /\ DOMAIN rows.checkpoints \subseteq DOMAIN rows'.checkpoints
    /\ DOMAIN rows'.branches = DOMAIN rows.branches

LEMMA MovedTyped ==
    ASSUME LibraryTyped, HasCurrent(repo), NEW m \in Nat, Len(made) <= m, NEW id \in 1..m, NEW ps,
           NEW q, q = Moved(repo, id, ps)
    PROVE  /\ RepoTyped(q, clock, m)
           /\ q.held = repo.held /\ q.cached = repo.cached /\ q.dirty = repo.dirty /\ q.stored = repo.stored
           /\ NamesOf(q.branches) = NamesOf(repo.branches)
           /\ HeadsByName(q.branches) = [HeadsByName(repo.branches) EXCEPT ![CurrentName(repo)] = id]
           /\ CurrentName(q) = CurrentName(repo)
PROOF
  <1>1. PICK n \in Nat, now \in Nat : n = Len(made) /\ now = clock
    BY LenProperties DEF LibraryTyped, MadeTyped
  <1>2. RepoTyped(repo, now, m) /\ RepoTyped(repo, now, n)
    <2>1. RepoTyped(repo, now, n)
      BY <1>1 DEF LibraryTyped
    <2>2. PICK rep : rep = repo
      OBVIOUS
    <2>3. RepoTyped(rep, now, n) /\ now <= now /\ n <= m
      BY <1>1, <2>1, <2>2
    <2>4. RepoTyped(rep, now, m)
      BY <2>3, RepoStays
    <2> QED BY <2>1, <2>2, <2>4
  <1>3. PICK rep, b, c, d, index, graph :
           /\ rep = repo /\ b = rep.branches /\ c = rep.current /\ d = [b EXCEPT ![c].head = id]
           /\ index = Indexed(rep.index, now, id) /\ graph = Linked(rep.dag, id, ps)
    OBVIOUS
  <1>4. c \in DOMAIN b
    BY <1>3 DEF HasCurrent
  <1>5. q = [rep EXCEPT !.index = index, !.dag = graph, !.branches = d]
    BY <1>1, <1>3 DEF Moved
  <1>6. IsRepo(rep) /\ Dated(rep.held, now, m) /\ IsIndex(rep.index, now, m) /\ IsBranches(b, n)
    BY <1>2, <1>3 DEF RepoTyped
  <1>7. /\ q.held = rep.held /\ q.cached = rep.cached /\ q.dirty = rep.dirty /\ q.stored = rep.stored
        /\ q.index = index /\ q.branches = d /\ q.current = c
    BY <1>3, <1>5, <1>6 DEF IsRepo
  <1>8. IsRepo(q)
    BY <1>5, <1>6, <1>7 DEF IsRepo
  <1>9. IsIndex(index, now, m)
    BY <1>3, <1>6, EntryAdded
  <1>10. /\ IsBranches(d, m) /\ NamesOf(d) = NamesOf(b)
         /\ HeadsByName(d) = [HeadsByName(b) EXCEPT ![b[c].name] = id]
    BY <1>1, <1>3, <1>4, <1>6, HeadMoves
  <1>11. d[c].name = b[c].name
    <2>1. b[c] = [name |-> b[c].name, head |-> b[c].head]
      BY <1>4, <1>6, BranchesTyped
    <2>2. d[c] = [b[c] EXCEPT !.head = id]
      BY <1>3, <1>4
    <2> QED BY <2>1, <2>2
  <1>12. RepoTyped(q, now, m)
    BY <1>6, <1>7, <1>8, <1>9, <1>10 DEF RepoTyped
  <1>13. CurrentName(repo) = b[c].name /\ CurrentName(q) = d[c].name
    BY <1>3, <1>7 DEF CurrentName
  <1> QED BY <1>1, <1>3, <1>7, <1>10, <1>11, <1>12, <1>13

LEMMA NotedTyped ==
    ASSUME NEW rep, NEW m \in Nat, clock \in Nat, RepoTyped(rep, clock, m), NEW id \in 1..m,
           NEW q, q = Noted(rep, id)
    PROVE  /\ RepoTyped(q, clock, m)
           /\ Held(q) = Held(rep) \cup {id} /\ q.cached = rep.cached /\ q.dirty = rep.dirty \cup {id}
           /\ q.stored = rep.stored /\ q.branches = rep.branches
PROOF
  <1>1. PICK now, one, held, dirty :
           /\ now \in Nat /\ now = clock /\ one = [n \in {id} |-> now] /\ held = Over(one, rep.held)
           /\ dirty = rep.dirty \cup {id}
    OBVIOUS
  <1>2. q = [rep EXCEPT !.held = held, !.dirty = dirty]
    BY <1>1 DEF Noted
  <1>3. IsRepo(rep) /\ Dated(rep.held, now, m) /\ IsIndex(rep.index, now, m) /\ IsBranches(rep.branches, m)
    BY <1>1 DEF RepoTyped
  <1>4. /\ q.held = held /\ q.cached = rep.cached /\ q.dirty = dirty /\ q.stored = rep.stored
        /\ q.index = rep.index /\ q.branches = rep.branches
    BY <1>2, <1>3 DEF IsRepo
  <1>5. IsRepo(q)
    BY <1>2, <1>3, <1>4 DEF IsRepo
  <1>6. Dated(one, now, m) /\ DOMAIN one = {id}
    BY <1>1, OneDated
  <1>7. Dated(held, now, m) /\ DOMAIN held = DOMAIN rep.held \cup {id}
    <2>1. PICK old : old = rep.held
      OBVIOUS
    <2>2. Dated(old, now, m) /\ held = Over(one, old)
      BY <1>1, <1>3, <2>1
    <2>3. Dated(Over(one, old), now, m) /\ DOMAIN Over(one, old) = DOMAIN one \cup DOMAIN old
      BY <1>6, <2>2, OverDated
    <2> QED BY <1>6, <2>1, <2>2, <2>3
  <1> QED BY <1>1, <1>3, <1>4, <1>5, <1>7 DEF RepoTyped, Held

(* A checkpoint made leaves the state typed, when the repository and its     *)
(* tables are.                                                               *)
LEMMA MadeTypes ==
    ASSUME LibraryTyped, MadeTyped', Len(made) \in Nat, Len(made') \in Nat, Len(made) <= Len(made'),
           clock' = clock, failures' \in Nat, open' \subseteq open,
           RepoTyped(repo', clock, Len(made')), RowsTyped(rows', clock, Len(made'))
    PROVE  LibraryTyped'
PROOF
  <1>1. open' \subseteq Txs(Len(made'))
    <2>1. PICK n, m : n = Len(made) /\ m = Len(made')
      OBVIOUS
    <2>2. Txs(n) \subseteq Txs(m)
      BY <2>1, TxsGrow
    <2> QED BY <2>1, <2>2 DEF LibraryTyped
  <1>2. clock' \in Nat
    BY DEF LibraryTyped
  <1>3. RepoTyped(repo', clock', Len(made')) /\ RowsTyped(rows', clock', Len(made'))
    OBVIOUS
  <1> QED BY <1>1, <1>2, <1>3 DEF LibraryTyped

LEMMA MakeCheckpointDoes ==
    ASSUME LibraryTyped, HasCurrent(repo), NEW cp \in Txs(Len(made)), MakeCheckpoint(cp)
    PROVE  Keeps /\ Caches /\ (Fails \/ \E id \in 1..Len(made') : Commits(id))
PROOF
  <1>1. PICK n \in Nat, m \in Nat : n = Len(made) /\ m = Len(made') /\ n <= m
    BY Makes DEF LibraryTyped, MakeCheckpoint
  <1>2. MadeTyped' /\ \A i \in 1..n : made'[i] = made[i]
    BY <1>1, Makes DEF LibraryTyped, MakeCheckpoint
  <1>3. PICK id \in 1..m : id = IdOf(cp)
    BY <1>1, Makes DEF LibraryTyped, MakeCheckpoint
  <1>4. PICK ps, moved : ps = cp.parents /\ moved = Moved(repo, id, ps)
    OBVIOUS
  <1>5. PICK calls \in Nat : calls = Len(ps) + 2
    <2>1. \A t \in Txs(n) : t.parents \in Seq(1..n)
      BY DEF Txs
    <2>2. Len(ps) \in Nat
      BY <1>1, <1>4, <2>1, LenProperties
    <2> QED BY <2>2
  <1>6. /\ open' = open /\ clock' = clock
        /\ \/ /\ repo' = Noted(moved, id)
              /\ rows' = IF repo.stored THEN Persisted(rows, moved, id, ps, calls) ELSE rows
              /\ failures' = failures /\ tracked' = tracked
           \/ /\ repo.stored
              /\ \E k \in 0..(calls - 1) : rows' = Persisted(rows, moved, id, ps, k)
              /\ repo' = moved
              /\ failures' = failures + 1
              /\ tracked' = FALSE
    BY <1>3, <1>4, <1>5, Zenon DEF MakeCheckpoint
  <1>7. clock \in Nat /\ failures \in Nat
    BY DEF LibraryTyped
  <1>8. /\ RepoTyped(moved, clock, m)
        /\ moved.held = repo.held /\ moved.cached = repo.cached /\ moved.dirty = repo.dirty
        /\ moved.stored = repo.stored /\ NamesOf(moved.branches) = NamesOf(repo.branches)
        /\ HeadsByName(moved.branches) = [HeadsByName(repo.branches) EXCEPT ![CurrentName(repo)] = id]
        /\ CurrentName(moved) = CurrentName(repo)
    BY <1>1, <1>4, MovedTyped
  <1>9. RowsTyped(rows, clock, m)
    <2>1. PICK r, now : r = rows /\ now = clock
      OBVIOUS
    <2>2. now \in Nat /\ RowsTyped(r, now, n)
      BY <1>1, <2>1 DEF LibraryTyped
    <2>3. RowsTyped(r, now, m)
      BY <1>1, <2>2, RowsStay
    <2> QED BY <2>1, <2>3
  <1>10. ASSUME NEW k \in Nat, rows' = Persisted(rows, moved, id, ps, k)
         PROVE  /\ RowsTyped(rows', clock, m) /\ rows'.snapshots = rows.snapshots
                /\ DOMAIN rows'.checkpoints = DOMAIN rows.checkpoints \cup (IF k >= 1 THEN {id} ELSE {})
                /\ DOMAIN rows'.branches = DOMAIN rows.branches
                /\ k >= calls => rows'.branches = IF CurrentName(repo) \in DOMAIN rows.branches
                                                  THEN [rows.branches EXCEPT ![CurrentName(repo)] = id]
                                                  ELSE rows.branches
    <2>1. PICK r, q, x : r = rows /\ q = Persisted(r, moved, id, ps, k) /\ x = CurrentName(moved)
      OBVIOUS
    <2>2. RowsTyped(r, clock, m)
      BY <1>9, <2>1
    <2>3. RowsTyped(q, clock, m) /\ Written(q, r, {}, x, id, k, 1, calls)
      <3>1. RowsTyped(q, clock, m) /\ Written(q, r, {}, CurrentName(moved), id, k, 1, Len(ps) + 2)
        BY <1>7, <2>1, <2>2, PersistedWrites
      <3> QED BY <1>5, <2>1, <3>1
    <2> QED BY <1>8, <1>10, <2>1, <2>3 DEF Written
  <1>11. CASE /\ repo' = Noted(moved, id)
              /\ rows' = IF repo.stored THEN Persisted(rows, moved, id, ps, calls) ELSE rows
              /\ failures' = failures /\ tracked' = tracked
    <2>1. /\ RepoTyped(repo', clock, m)
          /\ Held(repo') = Held(moved) \cup {id} /\ repo'.cached = moved.cached
          /\ repo'.dirty = moved.dirty \cup {id}
          /\ repo'.stored = moved.stored /\ repo'.branches = moved.branches
      <3>1. PICK q : q = Noted(moved, id)
        OBVIOUS
      <3>2. /\ RepoTyped(q, clock, m)
            /\ Held(q) = Held(moved) \cup {id} /\ q.cached = moved.cached /\ q.dirty = moved.dirty \cup {id}
            /\ q.stored = moved.stored /\ q.branches = moved.branches
        BY <1>7, <1>8, <3>1, NotedTyped
      <3> QED BY <1>11, <3>1, <3>2
    <2>2. /\ RowsTyped(rows', clock, m) /\ rows'.snapshots = rows.snapshots
          /\ ~repo.stored => rows' = rows
          /\ repo.stored => /\ DOMAIN rows'.checkpoints = DOMAIN rows.checkpoints \cup {id}
                            /\ DOMAIN rows'.branches = DOMAIN rows.branches
                            /\ rows'.branches = IF CurrentName(repo) \in DOMAIN rows.branches
                                                THEN [rows.branches EXCEPT ![CurrentName(repo)] = id]
                                                ELSE rows.branches
      <3>1. CASE repo.stored
        <4>1. rows' = Persisted(rows, moved, id, ps, calls) /\ calls >= 1
          BY <1>5, <1>11, <3>1
        <4> QED BY <1>10, <3>1, <4>1
      <3>2. CASE ~repo.stored
        BY <1>9, <1>11, <3>2
      <3> QED BY <3>1, <3>2
    <2>3. LibraryTyped'
      BY <1>1, <1>2, <1>6, <1>7, <1>11, <2>1, <2>2, MadeTypes
    <2>4. Keeps /\ Caches
      BY <1>1, <1>2, <1>8, <2>1, <2>2, <2>3 DEF Keeps, Caches
    <2>5. Held(repo') = Held(repo) \cup {id}
      BY <1>8, <2>1 DEF Held
    <2>6. Commits(id)
      BY <1>8, <1>11, <2>1, <2>2, <2>5 DEF Commits
    <2> QED BY <1>1, <2>4, <2>6
  <1>12. CASE /\ repo.stored
              /\ \E k \in 0..(calls - 1) : rows' = Persisted(rows, moved, id, ps, k)
              /\ repo' = moved
              /\ failures' = failures + 1
              /\ tracked' = FALSE
    <2>1. PICK k \in Nat : rows' = Persisted(rows, moved, id, ps, k)
      BY <1>12
    <2>2. /\ RowsTyped(rows', clock, m) /\ rows'.snapshots = rows.snapshots
          /\ DOMAIN rows.checkpoints \subseteq DOMAIN rows'.checkpoints
          /\ DOMAIN rows'.branches = DOMAIN rows.branches
      BY <1>10, <2>1
    <2>3. RepoTyped(repo', clock, m)
      BY <1>8, <1>12
    <2>4. failures' \in Nat
      BY <1>7, <1>12
    <2>5. LibraryTyped'
      BY <1>1, <1>2, <1>6, <2>2, <2>3, <2>4, MadeTypes
    <2>6. Keeps /\ Caches
      BY <1>1, <1>2, <1>8, <1>12, <2>2, <2>5 DEF Keeps, Caches
    <2>7. Fails
      BY <1>8, <1>12, <2>2 DEF Fails, Held
    <2> QED BY <2>6, <2>7
  <1> QED BY <1>6, <1>11, <1>12

(* The repository with a transaction's checkpoint                            *)
Holding(q, id, new) ==
    /\ Held(q) = Held(repo) \cup {id} /\ q.cached = repo.cached \cup new
    /\ q.dirty = repo.dirty \cup {id} /\ q.stored = repo.stored
    /\ NamesOf(q.branches) = NamesOf(repo.branches)
    /\ HeadsByName(q.branches) = [HeadsByName(repo.branches) EXCEPT ![CurrentName(repo)] = id]

LEMMA TransactionMovedTyped ==
    ASSUME LibraryTyped, HasCurrent(repo), NEW m \in Nat, Len(made) <= m, NEW id \in 1..m,
           NEW tx, NEW q, q = TransactionMoved(tx, id)
    PROVE  RepoTyped(q, clock, m) /\ Holding(q, id, ToSet(tx.snaps))
PROOF
  <1>1. PICK n \in Nat, now \in Nat : n = Len(made) /\ now = clock
    BY LenProperties DEF LibraryTyped, MadeTyped
  <1>2. PICK rep : rep = repo
    OBVIOUS
  <1>3. RepoTyped(rep, now, m) /\ IsBranches(rep.branches, n)
    <2>1. RepoTyped(rep, now, n) /\ now <= now /\ n <= m
      BY <1>1, <1>2 DEF LibraryTyped
    <2> QED BY <2>1, RepoStays DEF RepoTyped
  <1>4. PICK p : p = Noted(rep, id)
    OBVIOUS
  <1>5. /\ RepoTyped(p, now, m)
        /\ Held(p) = Held(rep) \cup {id} /\ p.cached = rep.cached /\ p.dirty = rep.dirty \cup {id}
        /\ p.stored = rep.stored /\ p.branches = rep.branches
    <2>1. RepoTyped(rep, clock, m) /\ clock \in Nat
      BY <1>1, <1>3
    <2>2. RepoTyped(p, clock, m)
      BY <1>4, <2>1, NotedTyped
    <2>3. /\ Held(p) = Held(rep) \cup {id} /\ p.cached = rep.cached /\ p.dirty = rep.dirty \cup {id}
          /\ p.stored = rep.stored /\ p.branches = rep.branches
      BY <1>4, <2>1, NotedTyped
    <2> QED BY <1>1, <2>2, <2>3
  <1>6. PICK b, c, d, graph, cached : /\ b = p.branches /\ c = rep.current /\ d = [b EXCEPT ![c].head = id]
                                    /\ cached = p.cached \cup ToSet(tx.snaps)
                                    /\ graph = Linked(p.dag, id, tx.parents)
    OBVIOUS
  <1>7. q = [p EXCEPT !.cached = cached, !.dag = graph, !.branches = d]
    BY <1>2, <1>4, <1>6 DEF TransactionMoved
  <1>8. IsRepo(p) /\ Dated(p.held, now, m) /\ IsIndex(p.index, now, m)
    BY <1>5 DEF RepoTyped
  <1>9. /\ q.held = p.held /\ q.cached = cached /\ q.dirty = p.dirty /\ q.stored = p.stored
        /\ q.index = p.index /\ q.branches = d
    BY <1>7, <1>8 DEF IsRepo
  <1>10. IsRepo(q)
    BY <1>7, <1>8, <1>9 DEF IsRepo
  <1>11. c \in DOMAIN b /\ IsBranches(b, n)
    BY <1>2, <1>3, <1>5, <1>6 DEF HasCurrent
  <1>12. /\ IsBranches(d, m) /\ NamesOf(d) = NamesOf(b)
         /\ HeadsByName(d) = [HeadsByName(b) EXCEPT ![b[c].name] = id]
    BY <1>1, <1>6, <1>11, HeadMoves
  <1>13. RepoTyped(q, now, m)
    BY <1>8, <1>9, <1>10, <1>12 DEF RepoTyped
  <1>14. CurrentName(repo) = b[c].name
    BY <1>2, <1>5, <1>6 DEF CurrentName
  <1>15. Held(q) = Held(p)
    BY <1>9 DEF Held
  <1>16. Holding(q, id, ToSet(tx.snaps))
    BY <1>2, <1>5, <1>6, <1>9, <1>12, <1>14, <1>15 DEF Holding
  <1> QED BY <1>1, <1>13, <1>16

(* A transaction's commit that fails early caches what it has stored.        *)
LEMMA CachedTyped ==
    ASSUME LibraryTyped, NEW m \in Nat, Len(made) <= m, NEW new,
           NEW q, q = [repo EXCEPT !.cached = @ \cup new]
    PROVE  /\ RepoTyped(q, clock, m)
           /\ q.held = repo.held /\ q.cached = repo.cached \cup new /\ q.dirty = repo.dirty
           /\ q.stored = repo.stored /\ q.branches = repo.branches
PROOF
  <1>1. PICK n \in Nat, now \in Nat : n = Len(made) /\ now = clock
    BY LenProperties DEF LibraryTyped, MadeTyped
  <1>2. PICK rep, cached : rep = repo /\ cached = rep.cached \cup new
    OBVIOUS
  <1>3. RepoTyped(rep, now, m)
    <2>1. RepoTyped(rep, now, n) /\ now <= now /\ n <= m
      BY <1>1, <1>2 DEF LibraryTyped
    <2> QED BY <2>1, RepoStays
  <1>4. IsRepo(rep)
    BY <1>3 DEF RepoTyped
  <1>5. q = [rep EXCEPT !.cached = cached]
    BY <1>2
  <1>6. /\ q.held = rep.held /\ q.cached = cached /\ q.dirty = rep.dirty
        /\ q.stored = rep.stored /\ q.index = rep.index /\ q.branches = rep.branches
    BY <1>4, <1>5 DEF IsRepo
  <1>7. IsRepo(q)
    BY <1>4, <1>5, <1>6 DEF IsRepo
  <1>8. RepoTyped(q, now, m)
    BY <1>3, <1>6, <1>7 DEF RepoTyped
  <1> QED BY <1>1, <1>2, <1>6, <1>8

LEMMA CommitTransactionDoes ==
    ASSUME LibraryTyped, NEW tx \in open, CommitTransaction(tx)
    PROVE  Keeps /\ Caches /\ (Fails \/ \E id \in 1..Len(made') : Commits(id))
PROOF
  <1>1. tx \in Txs(Len(made))
    BY DEF LibraryTyped
  <1>2. HasCurrent(repo) /\ Make(tx)
    BY Zenon DEF CommitTransaction
  <1>3. PICK n \in Nat, m \in Nat : n = Len(made) /\ m = Len(made') /\ n <= m
    BY <1>1, <1>2, Makes DEF LibraryTyped
  <1>4. MadeTyped' /\ \A i \in 1..n : made'[i] = made[i]
    BY <1>1, <1>2, <1>3, Makes DEF LibraryTyped
  <1>5. PICK id \in 1..m : id = IdOf(tx)
    BY <1>1, <1>2, <1>3, Makes DEF LibraryTyped
  <1>6. PICK N, new : N \in Nat /\ N = Len(tx.snaps) /\ new = ToSet(tx.snaps)
    <2>1. \A t \in Txs(n) : t.snaps \in Seq(Snaps)
      BY DEF Txs
    <2> QED BY <1>1, <1>3, <2>1, LenProperties
  <1>7. new = {tx.snaps[i] : i \in 1..N} /\ tx.snaps \in Seq(Snaps)
    <2>1. \A t \in Txs(n) : t.snaps \in Seq(Snaps)
      BY DEF Txs
    <2>2. tx.snaps \in Seq(Snaps) /\ DOMAIN tx.snaps = 1..N
      BY <1>1, <1>3, <1>6, <2>1, LenProperties
    <2> QED BY <1>6, <2>2 DEF ToSet
  <1>8. /\ open' = open \ {tx} /\ clock' = clock
        /\ \/ /\ repo' = TransactionMoved(tx, id)
              /\ rows' = IF repo.stored THEN TransactionRows(rows, tx, id, N + 2) ELSE rows
              /\ failures' = failures /\ tracked' = tracked
           \/ /\ repo.stored
              /\ \E k \in 0..(N + 1) :
                    /\ rows' = TransactionRows(rows, tx, id, k)
                    /\ repo' = IF k >= N THEN TransactionMoved(tx, id)
                               ELSE [repo EXCEPT !.cached = @ \cup {tx.snaps[i] : i \in 1..k}]
              /\ failures' = failures + 1
              /\ tracked' = FALSE
    BY <1>5, <1>6, Zenon DEF CommitTransaction
  <1>9. clock \in Nat /\ failures \in Nat
    BY DEF LibraryTyped
  <1>10. PICK q : q = TransactionMoved(tx, id)
    OBVIOUS
  <1>11. RepoTyped(q, clock, m) /\ Holding(q, id, new)
    BY <1>2, <1>3, <1>6, <1>10, TransactionMovedTyped
  <1>12. RowsTyped(rows, clock, m)
    <2>1. PICK r, now : r = rows /\ now = clock
      OBVIOUS
    <2>2. now \in Nat /\ RowsTyped(r, now, n)
      BY <1>3, <2>1 DEF LibraryTyped
    <2>3. RowsTyped(r, now, m)
      BY <1>3, <2>2, RowsStay
    <2> QED BY <2>1, <2>3
  <1> DEFINE upto(k) == {tx.snaps[i] : i \in {j \in 1..N : j <= k}}
  <1>13. ASSUME NEW k \in Nat, rows' = TransactionRows(rows, tx, id, k)
         PROVE  /\ RowsTyped(rows', clock, m)
                /\ Written(rows', rows, upto(k), CurrentName(repo), id, k, N + 1, N + 2)
    <2>1. PICK r, s : r = rows /\ s = TransactionRows(r, tx, id, k)
      OBVIOUS
    <2>2. RowsTyped(r, clock, m)
      BY <1>12, <2>1
    <2>3. /\ RowsTyped(s, clock, m)
          /\ Written(s, r, upto(k), CurrentName(repo), id, k, N + 1, N + 2)
      <3>1. Len(tx.snaps) \in Nat
        BY <1>6
      <3>2. /\ RowsTyped(s, clock, m)
            /\ Written(s, r, {tx.snaps[i] : i \in {j \in 1..Len(tx.snaps) : j <= k}}, CurrentName(repo), id, k,
                       Len(tx.snaps) + 1, Len(tx.snaps) + 2)
        BY <1>9, <2>1, <2>2, <3>1, TransactionWrites, Zenon
      <3> QED BY <1>6, <3>2
    <2> QED BY <1>13, <2>1, <2>3
  <1>14. CASE /\ repo' = TransactionMoved(tx, id)
              /\ rows' = IF repo.stored THEN TransactionRows(rows, tx, id, N + 2) ELSE rows
              /\ failures' = failures /\ tracked' = tracked
    <2>1. RepoTyped(repo', clock, m) /\ Holding(repo', id, new)
      BY <1>10, <1>11, <1>14
    <2>2. upto(N + 2) = new
      <3>1. {j \in 1..N : j <= N + 2} = 1..N
        BY <1>6
      <3> QED BY <1>7, <3>1
    <2> HIDE DEF upto
    <2>3. /\ RowsTyped(rows', clock, m)
          /\ ~repo.stored => rows' = rows
          /\ repo.stored => Written(rows', rows, new, CurrentName(repo), id, N + 2, N + 1, N + 2)
      <3>1. CASE repo.stored
        <4>1. rows' = TransactionRows(rows, tx, id, N + 2) /\ N + 2 \in Nat
          BY <1>6, <1>14, <3>1
        <4>2. PICK k \in Nat : k = N + 2
          BY <4>1
        <4>3. rows' = TransactionRows(rows, tx, id, k)
          BY <4>1, <4>2
        <4> QED BY <1>13, <2>2, <3>1, <4>2, <4>3
      <3>2. CASE ~repo.stored
        BY <1>12, <1>14, <3>2
      <3> QED BY <3>1, <3>2
    <2>4. LibraryTyped'
      BY <1>3, <1>4, <1>8, <1>9, <1>14, <2>1, <2>3, MadeTypes
    <2>5. Keeps /\ Caches
      BY <1>3, <1>4, <2>1, <2>3, <2>4 DEF Keeps, Caches, Written, Holding
    <2>6. Commits(id)
      <3>1. /\ Held(repo') = Held(repo) \cup {id} /\ repo'.dirty = repo.dirty \cup {id}
            /\ NamesOf(repo'.branches) = NamesOf(repo.branches)
            /\ HeadsByName(repo'.branches) = [HeadsByName(repo.branches) EXCEPT ![CurrentName(repo)] = id]
        BY <2>1 DEF Holding
      <3>2. N + 2 >= N + 1 /\ N + 2 >= N + 2
        BY <1>6
      <3>3. repo.stored =>
                /\ DOMAIN rows'.checkpoints = DOMAIN rows.checkpoints \cup {id}
                /\ DOMAIN rows'.branches = DOMAIN rows.branches
                /\ rows'.branches = IF CurrentName(repo) \in DOMAIN rows.branches
                                    THEN [rows.branches EXCEPT ![CurrentName(repo)] = id]
                                    ELSE rows.branches
        BY <2>3, <3>2 DEF Written
      <3> QED BY <1>14, <2>3, <3>1, <3>3 DEF Commits
    <2> QED BY <1>3, <2>5, <2>6
  <1>15. CASE /\ repo.stored
              /\ \E k \in 0..(N + 1) :
                    /\ rows' = TransactionRows(rows, tx, id, k)
                    /\ repo' = IF k >= N THEN TransactionMoved(tx, id)
                               ELSE [repo EXCEPT !.cached = @ \cup {tx.snaps[i] : i \in 1..k}]
              /\ failures' = failures + 1
              /\ tracked' = FALSE
    <2>1. PICK k \in 0..(N + 1) :
                    /\ rows' = TransactionRows(rows, tx, id, k)
                    /\ repo' = IF k >= N THEN TransactionMoved(tx, id)
                               ELSE [repo EXCEPT !.cached = @ \cup {tx.snaps[i] : i \in 1..k}]
      BY <1>15
    <2>2. /\ RowsTyped(rows', clock, m)
          /\ Written(rows', rows, upto(k), CurrentName(repo), id, k, N + 1, N + 2)
      <3> HIDE DEF upto
      <3>1. k \in Nat
        OBVIOUS
      <3> QED BY <1>13, <2>1, <3>1
    <2>3. CASE k >= N
      <3>1. RepoTyped(repo', clock, m) /\ Holding(repo', id, new)
        BY <1>10, <1>11, <2>1, <2>3
      <3>2. upto(k) = new
        <4>1. {j \in 1..N : j <= k} = 1..N
          BY <1>6, <2>3
        <4> QED BY <1>7, <4>1
      <3> HIDE DEF upto
      <3>3. LibraryTyped'
        BY <1>3, <1>4, <1>8, <1>9, <1>15, <2>2, <3>1, MadeTypes
      <3>4. Keeps /\ Caches
        BY <1>3, <1>4, <2>2, <3>1, <3>2, <3>3 DEF Keeps, Caches, Written, Holding
      <3>5. Fails
        BY <1>15, <2>2, <3>1 DEF Fails, Written, Holding
      <3> QED BY <3>4, <3>5
    <2>4. CASE ~(k >= N)
      <3>1. PICK few : few = {tx.snaps[i] : i \in 1..k}
        OBVIOUS
      <3>2. repo' = [repo EXCEPT !.cached = @ \cup few]
        BY <2>1, <2>4, <3>1
      <3>3. /\ RepoTyped(repo', clock, m)
            /\ repo'.held = repo.held /\ repo'.cached = repo.cached \cup few /\ repo'.dirty = repo.dirty
            /\ repo'.stored = repo.stored /\ repo'.branches = repo.branches
        <4>1. PICK p : p = [repo EXCEPT !.cached = @ \cup few]
          OBVIOUS
        <4>2. /\ RepoTyped(p, clock, m)
              /\ p.held = repo.held /\ p.cached = repo.cached \cup few /\ p.dirty = repo.dirty
              /\ p.stored = repo.stored /\ p.branches = repo.branches
          BY <1>3, <4>1, CachedTyped
        <4> QED BY <3>2, <4>1, <4>2
      <3>4. upto(k) = few
        <4>1. {j \in 1..N : j <= k} = 1..k
          BY <1>6, <2>4
        <4> QED BY <3>1, <4>1
      <3> HIDE DEF upto
      <3>5. LibraryTyped'
        BY <1>3, <1>4, <1>8, <1>9, <1>15, <2>2, <3>3, MadeTypes
      <3>6. Keeps /\ Caches
        BY <1>3, <1>4, <2>2, <3>3, <3>4, <3>5 DEF Keeps, Caches, Written
      <3>7. Fails
        BY <1>15, <2>2, <3>3 DEF Fails, Written, Held
      <3> QED BY <3>6, <3>7
    <2> QED BY <2>3, <2>4
  <1> QED BY <1>8, <1>14, <1>15

-----------------------------------------------------------------------------
(* Calls that make no checkpoint                                             *)
BranchesAlone == repo'.branches = repo.branches /\ rows'.branches = rows.branches

CheckpointsAlone ==
    /\ Held(repo') = Held(repo) /\ repo'.dirty = repo.dirty
    /\ DOMAIN rows'.checkpoints = DOMAIN rows.checkpoints

Quiet == repo'.stored = repo.stored /\ failures' = failures /\ tracked' = tracked

LEMMA StateTypes ==
    ASSUME LibraryTyped, made' = made, clock' = clock, failures' \in Nat, open' \subseteq Txs(Len(made)),
           RepoTyped(repo', clock, Len(made)), RowsTyped(rows', clock, Len(made)),
           repo.stored => repo'.stored, rows.snapshots \subseteq rows'.snapshots
    PROVE  Keeps
PROOF
  <1>1. Len(made) \in Nat
    BY LenProperties DEF LibraryTyped, MadeTyped
  <1>2. PICK n, t : n \in Nat /\ n = Len(made) /\ t = clock
    BY <1>1
  <1>3. MadeTyped'
    BY DEF LibraryTyped, MadeTyped
  <1>4. Len(made') = n /\ clock' = t /\ t \in Nat
    BY <1>2 DEF LibraryTyped
  <1>5. RepoTyped(repo', t, n) /\ RowsTyped(rows', t, n) /\ open' \subseteq Txs(n)
    BY <1>2
  <1>6. LibraryTyped'
    BY <1>3, <1>4, <1>5 DEF LibraryTyped
  <1> QED BY <1>1, <1>6 DEF Keeps

LEMMA SameRepo ==
    ASSUME NEW rep, NEW now, NEW n, RepoTyped(rep, now, n), NEW q, IsRepo(q),
           q.held = rep.held, q.index = rep.index, q.branches = rep.branches
    PROVE  RepoTyped(q, now, n)
BY DEF RepoTyped

LEMMA SameRows ==
    ASSUME NEW r, NEW now, NEW n, RowsTyped(r, now, n), NEW q, IsRows(q),
           q.checkpoints = r.checkpoints, q.branches = r.branches
    PROVE  RowsTyped(q, now, n)
BY DEF RowsTyped

LEMMA TypedParts ==
    ASSUME LibraryTyped
    PROVE  /\ Len(made) \in Nat /\ clock \in Nat /\ failures \in Nat /\ Ids = 1..Len(made)
           /\ open \subseteq Txs(Len(made))
           /\ RepoTyped(repo, clock, Len(made)) /\ RowsTyped(rows, clock, Len(made))
           /\ IsRepo(repo) /\ IsRows(rows)
PROOF
  <1>1. Len(made) \in Nat
    BY LenProperties DEF LibraryTyped, MadeTyped
  <1> QED BY <1>1 DEF LibraryTyped, RepoTyped, RowsTyped, Ids

LEMMA SameTables ==
    ASSUME repo' = repo, rows' = rows
    PROVE  /\ BranchesAlone /\ CheckpointsAlone /\ Caches
           /\ repo.stored => repo'.stored
           /\ rows.snapshots \subseteq rows'.snapshots
BY DEF BranchesAlone, CheckpointsAlone, Caches

LEMMA TickDoes ==
    ASSUME LibraryTyped, Tick
    PROVE  Keeps /\ Caches /\ BranchesAlone /\ CheckpointsAlone /\ Quiet
PROOF
  <1>1. PICK n \in Nat, now \in Nat : n = Len(made) /\ now = clock
    BY TypedParts
  <1>2. PICK later \in Nat : later = clock' /\ now <= later
    <2>1. clock' \in {t \in Readings : t > now}
      BY <1>1 DEF Tick
    <2> QED BY <1>1, <2>1, ReadingsAssumption
  <1>3. made' = made /\ repo' = repo /\ rows' = rows /\ open' = open /\ failures' = failures /\ tracked' = tracked
    BY DEF Tick
  <1>4. PICK rep, r : rep = repo /\ r = rows
    OBVIOUS
  <1>5. RepoTyped(rep, now, n) /\ RowsTyped(r, now, n)
    BY <1>1, <1>4, TypedParts
  <1>6. RepoTyped(rep, later, n) /\ RowsTyped(r, later, n)
    BY <1>2, <1>5, RepoStays, RowsStay
  <1>7. MadeTyped'
    BY <1>3 DEF LibraryTyped, MadeTyped
  <1>8. open' \subseteq Txs(Len(made'))
    BY <1>3, TypedParts
  <1>9. LibraryTyped'
    BY <1>1, <1>2, <1>3, <1>4, <1>6, <1>7, <1>8, TypedParts DEF LibraryTyped
  <1>10. Keeps
    BY <1>1, <1>3, <1>9 DEF Keeps
  <1> QED BY <1>3, <1>10, SameTables DEF Quiet

LEMMA TransactionsDo ==
    ASSUME LibraryTyped,
           \/ \E c \in Contents : BeginTransaction(c)
           \/ \E tx \in open : EndTransaction(tx)
    PROVE  Keeps /\ Caches /\ BranchesAlone /\ CheckpointsAlone /\ Quiet
PROOF
  <1>1. /\ made' = made /\ repo' = repo /\ rows' = rows /\ clock' = clock
        /\ failures' = failures /\ tracked' = tracked
    BY DEF BeginTransaction, EndTransaction
  <1>2. open' \subseteq Txs(Len(made))
    <2>1. CASE \E c \in Contents : BeginTransaction(c)
      <3>1. PICK c \in Contents : BeginTransaction(c)
        BY <2>1
      <3>2. PICK n, head, tx : n \in Nat /\ n = Len(made) /\ head = HeadOf(repo)
                                       /\ tx = [parents |-> <<head>>, snaps |-> c]
        BY TypedParts
      <3>3. HasCurrent(repo) /\ open' = open \cup {tx}
        BY <3>1, <3>2 DEF BeginTransaction
      <3>4. head \in 1..n
        <4>1. IsBranches(repo.branches, n)
          BY <3>2, TypedParts DEF RepoTyped
        <4> QED BY <3>2, <3>3, <4>1, BranchesTyped DEF HasCurrent, HeadOf
      <3>5. PICK A, B : A = Seq(1..n) /\ B = Seq(Snaps)
        OBVIOUS
      <3>6. <<head>> \in A
        BY <3>4, <3>5
      <3>7. c \in B
        BY <3>5, ContentsAssumption DEF Snaps
      <3>8. tx \in [parents : A, snaps : B]
        BY <3>2, <3>6, <3>7
      <3>9. tx \in Txs(n)
        BY <3>5, <3>8 DEF Txs
      <3> QED BY <3>2, <3>3, <3>9, TypedParts
    <2>2. CASE \E tx \in open : EndTransaction(tx)
      BY <2>2, TypedParts DEF EndTransaction
    <2> QED BY <2>1, <2>2
  <1>3. failures' \in Nat /\ RepoTyped(repo', clock, Len(made)) /\ RowsTyped(rows', clock, Len(made))
    BY <1>1, TypedParts
  <1>4. Keeps
    BY <1>1, <1>2, <1>3, StateTypes, SameTables
  <1> QED BY <1>1, <1>4, SameTables DEF Quiet

LEMMA StoreSnapshotDoes ==
    ASSUME LibraryTyped, NEW s, StoreSnapshot(s)
    PROVE  Keeps /\ Caches /\ BranchesAlone /\ CheckpointsAlone /\ Quiet
PROOF
  <1>1. PICK rep, r, n, now : /\ rep = repo /\ r = rows /\ n = Len(made) /\ now = clock
                              /\ RepoTyped(rep, now, n) /\ RowsTyped(r, now, n) /\ IsRepo(rep) /\ IsRows(r)
    BY TypedParts
  <1>2. /\ repo' = [rep EXCEPT !.cached = @ \cup {s}]
        /\ rows' = IF rep.stored THEN [r EXCEPT !.snapshots = @ \cup {s}] ELSE r
        /\ made' = made /\ open' = open /\ clock' = clock /\ failures' = failures /\ tracked' = tracked
    BY <1>1 DEF StoreSnapshot
  <1>3. PICK q, t : q = repo' /\ t = rows'
    OBVIOUS
  <1>4. /\ q.held = rep.held /\ q.index = rep.index /\ q.branches = rep.branches /\ q.dirty = rep.dirty
        /\ q.stored = rep.stored /\ q.cached = rep.cached \cup {s} /\ IsRepo(q)
    BY <1>1, <1>2, <1>3 DEF IsRepo
  <1>5. /\ t.checkpoints = r.checkpoints /\ t.branches = r.branches /\ IsRows(t)
        /\ r.snapshots \subseteq t.snapshots /\ rep.stored => s \in t.snapshots
    BY <1>1, <1>2, <1>3 DEF IsRows
  <1>6. RepoTyped(q, now, n) /\ RowsTyped(t, now, n)
    BY <1>1, <1>4, <1>5, SameRepo, SameRows
  <1>7. RepoTyped(repo', clock, Len(made)) /\ RowsTyped(rows', clock, Len(made))
    BY <1>1, <1>3, <1>6
  <1>8. /\ failures' \in Nat /\ open' \subseteq Txs(Len(made)) /\ (repo.stored => repo'.stored)
        /\ rows.snapshots \subseteq rows'.snapshots
    BY <1>1, <1>2, <1>3, <1>4, <1>5, TypedParts
  <1>9. Keeps
    BY <1>2, <1>7, <1>8, StateTypes
  <1>10. Caches /\ BranchesAlone /\ CheckpointsAlone /\ Quiet
    BY <1>1, <1>2, <1>3, <1>4, <1>5 DEF Caches, BranchesAlone, CheckpointsAlone, Quiet, Held
  <1> QED BY <1>9, <1>10

LEMMA SwitchBranchDoes ==
    ASSUME LibraryTyped, NEW m, SwitchBranch(m)
    PROVE  Keeps /\ Caches /\ BranchesAlone /\ CheckpointsAlone /\ Quiet
PROOF
  <1>1. PICK rep, r, n, now : /\ rep = repo /\ r = rows /\ n = Len(made) /\ now = clock
                              /\ RepoTyped(rep, now, n) /\ RowsTyped(r, now, n) /\ IsRepo(rep) /\ IsRows(r)
    BY TypedParts
  <1>2. /\ \E i : repo' = [rep EXCEPT !.current = i]
        /\ rows' = IF rep.stored THEN [r EXCEPT !.current = m] ELSE r
        /\ made' = made /\ open' = open /\ clock' = clock /\ failures' = failures /\ tracked' = tracked
    BY <1>1 DEF SwitchBranch
  <1>3. PICK q, t : q = repo' /\ t = rows'
    OBVIOUS
  <1>4. /\ q.held = rep.held /\ q.index = rep.index /\ q.branches = rep.branches /\ q.dirty = rep.dirty
        /\ q.stored = rep.stored /\ q.cached = rep.cached /\ IsRepo(q)
    BY <1>1, <1>2, <1>3 DEF IsRepo
  <1>5. /\ t.checkpoints = r.checkpoints /\ t.branches = r.branches /\ IsRows(t)
        /\ t.snapshots = r.snapshots
    BY <1>1, <1>2, <1>3 DEF IsRows
  <1>6. RepoTyped(q, now, n) /\ RowsTyped(t, now, n)
    BY <1>1, <1>4, <1>5, SameRepo, SameRows
  <1>7. RepoTyped(repo', clock, Len(made)) /\ RowsTyped(rows', clock, Len(made))
    BY <1>1, <1>3, <1>6
  <1>8. /\ failures' \in Nat /\ open' \subseteq Txs(Len(made)) /\ (repo.stored => repo'.stored)
        /\ rows.snapshots \subseteq rows'.snapshots
    BY <1>1, <1>2, <1>3, <1>4, <1>5, TypedParts
  <1>9. Keeps
    BY <1>2, <1>7, <1>8, StateTypes
  <1>10. Caches /\ BranchesAlone /\ CheckpointsAlone /\ Quiet
    BY <1>1, <1>2, <1>3, <1>4, <1>5 DEF Caches, BranchesAlone, CheckpointsAlone, Quiet, Held
  <1> QED BY <1>9, <1>10

(* A branch comes ...                                                        *)
BranchComes(m) ==
    /\ m \notin NamesOf(repo.branches) /\ NamesOf(repo'.branches) = NamesOf(repo.branches) \cup {m}
    /\ \E one : /\ DOMAIN one = {m}
                /\ HeadsByName(repo'.branches) = Over(one, HeadsByName(repo.branches))
                /\ rows'.branches = IF repo.stored THEN Over(one, rows.branches) ELSE rows.branches

LEMMA NewBranchDoes ==
    ASSUME LibraryTyped, NEW m \in BranchNames, NEW head \in 1..Len(made), NewBranch(m, head)
    PROVE  Keeps /\ Caches /\ CheckpointsAlone /\ Quiet /\ BranchComes(m)
PROOF
  <1>1. PICK rep, r, n, now : /\ rep = repo /\ r = rows /\ n = Len(made) /\ now = clock /\ n \in Nat
                              /\ RepoTyped(rep, now, n) /\ RowsTyped(r, now, n) /\ IsRepo(rep) /\ IsRows(r)
    BY TypedParts
  <1>2. PICK b, x, d, one, h : /\ b = rep.branches /\ x = [name |-> m, head |-> head] /\ d = Append(b, x)
                               /\ one = <<x>> /\ h = HeadsByName(one)
    OBVIOUS
  <1>3. /\ repo' = [rep EXCEPT !.branches = d]
        /\ rows' = IF rep.stored THEN StoreBranches(r, one) ELSE r
        /\ made' = made /\ open' = open /\ clock' = clock /\ failures' = failures /\ tracked' = tracked
    BY <1>1, <1>2 DEF NewBranch
  <1>4. IsBranches(b, n) /\ head \in 1..n
    BY <1>1, <1>2 DEF RepoTyped
  <1>5. m \notin NamesOf(b)
    BY <1>1, <1>2 DEF NewBranch, FindBranch, NamesOf
  <1>6. /\ IsBranches(d, n) /\ NamesOf(d) = NamesOf(b) \cup {m}
        /\ HeadsByName(d) = Over(h, HeadsByName(b))
    <2>1. IsBranches(d, n) /\ Longer(d, b, m, <<[name |-> m, head |-> head]>>)
      BY <1>1, <1>2, <1>4, <1>5, BranchAdded
    <2> QED BY <1>2, <2>1 DEF Longer
  <1>7. IsBranches(one, n) /\ NamesOf(one) = {m}
    <2>1. PICK R : R = [name : BranchNames, head : 1..n]
      OBVIOUS
    <2>2. x \in R /\ x.name = m
      BY <1>2, <1>4, <2>1
    <2>3. one \in Seq(R) /\ DOMAIN one = {1} /\ one[1] = x
      BY <1>2, <2>2
    <2>4. IsBranches(one, n)
      BY <2>1, <2>3 DEF IsBranches
    <2> QED BY <2>2, <2>3, <2>4 DEF NamesOf
  <1>8. IsRefs(h, n) /\ DOMAIN h = {m}
    BY <1>1, <1>2, <1>7, HeadsAreRefs
  <1>9. PICK q, t : q = repo' /\ t = rows'
    OBVIOUS
  <1>10. /\ q.held = rep.held /\ q.index = rep.index /\ q.branches = d /\ q.dirty = rep.dirty
         /\ q.stored = rep.stored /\ q.cached = rep.cached /\ IsRepo(q)
    BY <1>1, <1>3, <1>9 DEF IsRepo
  <1>11. RepoTyped(q, now, n)
    BY <1>1, <1>6, <1>10 DEF RepoTyped
  <1>12. /\ IsRows(t) /\ t.checkpoints = r.checkpoints /\ t.snapshots = r.snapshots
         /\ t.branches = (IF rep.stored THEN Over(h, r.branches) ELSE r.branches)
         /\ IsRefs(t.branches, n)
    <2>1. CASE rep.stored
      <3>1. t = StoreBranches(r, one)
        BY <1>3, <1>9, <2>1
      <3>2. /\ IsRows(t) /\ t.snapshots = r.snapshots /\ t.checkpoints = r.checkpoints
            /\ t.branches = Over(HeadsByName(one), r.branches)
        BY <1>1, <3>1, StoreBranchesWrites
      <3>3. IsRefs(Over(h, r.branches), n)
        BY <1>1, <1>8, RefsOver DEF RowsTyped
      <3> QED BY <1>2, <2>1, <3>2, <3>3
    <2>2. CASE ~rep.stored
      BY <1>1, <1>3, <1>9, <2>2 DEF RowsTyped
    <2> QED BY <2>1, <2>2
  <1>13. RowsTyped(t, now, n)
    BY <1>1, <1>12 DEF RowsTyped
  <1>14. RepoTyped(repo', clock, Len(made)) /\ RowsTyped(rows', clock, Len(made))
    BY <1>1, <1>9, <1>11, <1>13
  <1>15. /\ failures' \in Nat /\ open' \subseteq Txs(Len(made)) /\ (repo.stored => repo'.stored)
         /\ rows.snapshots \subseteq rows'.snapshots
    BY <1>1, <1>3, <1>9, <1>10, <1>12, TypedParts
  <1>16. Keeps
    BY <1>3, <1>14, <1>15, StateTypes
  <1>17. Caches /\ CheckpointsAlone /\ Quiet
    BY <1>1, <1>3, <1>9, <1>10, <1>12 DEF Caches, CheckpointsAlone, Quiet, Held
  <1>18. BranchComes(m)
    <2>1. m \notin NamesOf(repo.branches) /\ NamesOf(repo'.branches) = NamesOf(repo.branches) \cup {m}
      BY <1>1, <1>2, <1>5, <1>6, <1>9, <1>10
    <2>2. /\ DOMAIN h = {m} /\ HeadsByName(repo'.branches) = Over(h, HeadsByName(repo.branches))
          /\ rows'.branches = IF repo.stored THEN Over(h, rows.branches) ELSE rows.branches
      BY <1>1, <1>2, <1>6, <1>8, <1>9, <1>10, <1>12
    <2> QED BY <2>1, <2>2 DEF BranchComes
  <1> QED BY <1>16, <1>17, <1>18

(* ... and goes.                                                             *)
BranchGoes(m) ==
    /\ NamesOf(repo'.branches) = NamesOf(repo.branches) \ {m}
    /\ HeadsByName(repo'.branches) = [x \in NamesOf(repo'.branches) |-> HeadsByName(repo.branches)[x]]
    /\ rows'.branches = IF repo.stored THEN [x \in DOMAIN rows.branches \ {m} |-> rows.branches[x]]
                        ELSE rows.branches

LEMMA RemoveBranchDoes ==
    ASSUME LibraryTyped, NEW m, RemoveBranch(m)
    PROVE  Keeps /\ Caches /\ CheckpointsAlone /\ Quiet /\ BranchGoes(m)
PROOF
  <1>1. PICK rep, r, n, now : /\ rep = repo /\ r = rows /\ n = Len(made) /\ now = clock /\ n \in Nat
                              /\ RepoTyped(rep, now, n) /\ RowsTyped(r, now, n) /\ IsRepo(rep) /\ IsRows(r)
    BY TypedParts
  <1>2. PICK b : b = rep.branches
    OBVIOUS
  <1>3. PICK k, gone : k \in DOMAIN b /\ b[k].name = m /\ repo' = [rep EXCEPT !.branches = Without(b, k),
                                                                        !.deletedBranches = gone]
    <2>1. PICK k \in FindBranch(rep, m) :
             repo' = [rep EXCEPT !.branches = Without(@, k),
                                 !.deletedBranches = IF rep.stored THEN @ ELSE @ \cup {m}]
      BY <1>1 DEF RemoveBranch
    <2>2. PICK gone : gone = IF rep.stored THEN rep.deletedBranches ELSE rep.deletedBranches \cup {m}
      OBVIOUS
    <2>3. k \in DOMAIN b /\ b[k].name = m
      BY <1>2, <2>1 DEF FindBranch
    <2>4. repo' = [rep EXCEPT !.branches = Without(b, k), !.deletedBranches = gone]
      BY <1>2, <2>1, <2>2
    <2> QED BY <2>3, <2>4
  <1>4. PICK d : d = Without(b, k)
    OBVIOUS
  <1>5. /\ rows' = IF rep.stored THEN DeleteBranches(r, {m}) ELSE r
        /\ made' = made /\ open' = open /\ clock' = clock /\ failures' = failures /\ tracked' = tracked
    BY <1>1 DEF RemoveBranch
  <1>6. IsBranches(b, n)
    BY <1>1, <1>2 DEF RepoTyped
  <1>7. /\ IsBranches(d, n) /\ NamesOf(d) = NamesOf(b) \ {m}
        /\ HeadsByName(d) = [x \in NamesOf(d) |-> HeadsByName(b)[x]]
    BY <1>1, <1>3, <1>4, <1>6, BranchTaken
  <1>8. PICK q, t : q = repo' /\ t = rows'
    OBVIOUS
  <1>9. /\ q.held = rep.held /\ q.index = rep.index /\ q.branches = d /\ q.dirty = rep.dirty
        /\ q.stored = rep.stored /\ q.cached = rep.cached /\ IsRepo(q)
    BY <1>1, <1>3, <1>4, <1>8 DEF IsRepo
  <1>10. RepoTyped(q, now, n)
    BY <1>1, <1>7, <1>9 DEF RepoTyped
  <1>11. /\ IsRows(t) /\ t.checkpoints = r.checkpoints /\ t.snapshots = r.snapshots
         /\ t.branches = (IF rep.stored THEN [x \in DOMAIN r.branches \ {m} |-> r.branches[x]]
                          ELSE r.branches)
         /\ IsRefs(t.branches, n)
    <2>1. CASE rep.stored
      <3>1. t = DeleteBranches(r, {m})
        BY <1>5, <1>8, <2>1
      <3>2. PICK gone2 : gone2 = {m}
        OBVIOUS
      <3>3. /\ IsRows(t) /\ t.snapshots = r.snapshots /\ t.checkpoints = r.checkpoints
            /\ t.branches = [x \in DOMAIN r.branches \ gone2 |-> r.branches[x]]
        BY <1>1, <3>1, <3>2, DeleteBranchesWrites DEF BranchesDeleted
      <3>4. IsRefs(t.branches, n)
        <4>1. PICK f, g : f = r.branches /\ g = t.branches
          OBVIOUS
        <4>2. IsRefs(f, n) /\ g = [x \in DOMAIN f \ gone2 |-> f[x]]
          BY <1>1, <3>3, <4>1 DEF RowsTyped
        <4>3. IsRefs(g, n)
          BY <1>1, <4>2, RefsDeleted
        <4> QED BY <4>1, <4>3
      <3> QED BY <2>1, <3>2, <3>3, <3>4
    <2>2. CASE ~rep.stored
      BY <1>1, <1>5, <1>8, <2>2 DEF RowsTyped
    <2> QED BY <2>1, <2>2
  <1>12. RowsTyped(t, now, n)
    BY <1>1, <1>11 DEF RowsTyped
  <1>13. RepoTyped(repo', clock, Len(made)) /\ RowsTyped(rows', clock, Len(made))
    BY <1>1, <1>8, <1>10, <1>12
  <1>14. /\ failures' \in Nat /\ open' \subseteq Txs(Len(made)) /\ (repo.stored => repo'.stored)
         /\ rows.snapshots \subseteq rows'.snapshots
    BY <1>1, <1>5, <1>8, <1>9, <1>11, TypedParts
  <1>15. Keeps
    BY <1>5, <1>13, <1>14, StateTypes
  <1>16. Caches /\ CheckpointsAlone /\ Quiet
    BY <1>1, <1>5, <1>8, <1>9, <1>11 DEF Caches, CheckpointsAlone, Quiet, Held
  <1>17. BranchGoes(m)
    BY <1>1, <1>2, <1>7, <1>8, <1>9, <1>11 DEF BranchGoes
  <1> QED BY <1>15, <1>16, <1>17

(* A checkpoint goes.                                                        *)
CheckpointGoes(id) ==
    /\ Held(repo') = Held(repo) \ {id} /\ repo'.dirty = repo.dirty
    /\ DOMAIN rows'.checkpoints = IF repo.stored THEN DOMAIN rows.checkpoints \ {id}
                                  ELSE DOMAIN rows.checkpoints

LEMMA RemoveCheckpointDoes ==
    ASSUME LibraryTyped, NEW id, RemoveCheckpoint(id)
    PROVE  Keeps /\ Caches /\ BranchesAlone /\ Quiet /\ CheckpointGoes(id)
PROOF
  <1>1. PICK rep, r, n, now : /\ rep = repo /\ r = rows /\ n = Len(made) /\ now = clock
                              /\ n \in Nat /\ now \in Nat
                              /\ RepoTyped(rep, now, n) /\ RowsTyped(r, now, n) /\ IsRepo(rep) /\ IsRows(r)
    BY TypedParts
  <1>2. PICK held, index, gone, graph :
           /\ held = [x \in DOMAIN rep.held \ {id} |-> rep.held[x]] /\ index = Unindexed(rep, id)
           /\ gone = (IF rep.stored THEN rep.deletedCheckpoints ELSE rep.deletedCheckpoints \cup {id})
           /\ graph = RemoveNode(rep.dag, id)
    OBVIOUS
  <1>3. /\ repo' = [rep EXCEPT !.held = held, !.index = index, !.deletedCheckpoints = gone, !.dag = graph]
        /\ rows' = IF rep.stored /\ id \in DOMAIN r.checkpoints THEN DeleteRows(r, {id}) ELSE r
        /\ made' = made /\ open' = open /\ clock' = clock /\ failures' = failures /\ tracked' = tracked
    BY <1>1, <1>2 DEF RemoveCheckpoint
  <1>4. Dated(held, now, n) /\ DOMAIN held = DOMAIN rep.held \ {id}
    BY <1>1, <1>2 DEF Dated, RepoTyped
  <1>5. IsIndex(index, now, n)
    <2>1. PICK old, S : old = rep.index /\ S = ToSet(rep.index) \ {[time |-> rep.held[id], id |-> id]}
      OBVIOUS
    <2>2. IsIndex(old, now, n)
      BY <1>1, <2>1 DEF RepoTyped
    <2>3. index = Retain(old, S)
      BY <1>2, <2>1, Zenon DEF Unindexed
    <2> QED BY <1>1, <2>2, <2>3, EntriesRetained
  <1>6. PICK q, t : q = repo' /\ t = rows'
    OBVIOUS
  <1>7. /\ q.held = held /\ q.index = index /\ q.branches = rep.branches /\ q.dirty = rep.dirty
        /\ q.stored = rep.stored /\ q.cached = rep.cached /\ IsRepo(q)
    BY <1>1, <1>3, <1>6 DEF IsRepo
  <1>8. RepoTyped(q, now, n)
    BY <1>1, <1>4, <1>5, <1>7 DEF RepoTyped
  <1>9. /\ IsRows(t) /\ t.branches = r.branches /\ t.snapshots = r.snapshots
        /\ DOMAIN t.checkpoints = (IF rep.stored THEN DOMAIN r.checkpoints \ {id} ELSE DOMAIN r.checkpoints)
        /\ Dated(t.checkpoints, now, n)
    <2>1. CASE rep.stored /\ id \in DOMAIN r.checkpoints
      <3>1. PICK ids : ids = {id}
        OBVIOUS
      <3>2. t = DeleteRows(r, ids)
        BY <1>3, <1>6, <2>1, <3>1
      <3>3. Dated(r.checkpoints, now, n)
        BY <1>1 DEF RowsTyped
      <3>4. /\ IsRows(t) /\ t.snapshots = r.snapshots /\ t.branches = r.branches
            /\ DOMAIN t.checkpoints = DOMAIN r.checkpoints \ ids
            /\ Dated(t.checkpoints, now, n)
        <4>1. RowsDeleted(t, r, ids, now, n)
          BY <1>1, <3>2, <3>3, DeleteRowsWrites
        <4> QED BY <4>1 DEF RowsDeleted
      <3> QED BY <2>1, <3>1, <3>4
    <2>2. CASE ~(rep.stored /\ id \in DOMAIN r.checkpoints)
      <3>1. t = r
        BY <1>3, <1>6, <2>2
      <3>2. DOMAIN r.checkpoints = (IF rep.stored THEN DOMAIN r.checkpoints \ {id} ELSE DOMAIN r.checkpoints)
        BY <2>2
      <3> QED BY <1>1, <3>1, <3>2 DEF RowsTyped
    <2> QED BY <2>1, <2>2
  <1>10. RowsTyped(t, now, n)
    BY <1>1, <1>9 DEF RowsTyped
  <1>11. RepoTyped(repo', clock, Len(made)) /\ RowsTyped(rows', clock, Len(made))
    BY <1>1, <1>6, <1>8, <1>10
  <1>12. /\ failures' \in Nat /\ open' \subseteq Txs(Len(made)) /\ (repo.stored => repo'.stored)
         /\ rows.snapshots \subseteq rows'.snapshots
    BY <1>1, <1>3, <1>6, <1>7, <1>9, TypedParts
  <1>13. Keeps
    BY <1>3, <1>11, <1>12, StateTypes
  <1>14. Caches /\ BranchesAlone /\ Quiet
    BY <1>1, <1>3, <1>6, <1>7, <1>9 DEF Caches, BranchesAlone, Quiet
  <1>15. CheckpointGoes(id)
    BY <1>1, <1>4, <1>6, <1>7, <1>9 DEF CheckpointGoes, Held
  <1> QED BY <1>13, <1>14, <1>15

(* A storage is attached, everything dirty.                                  *)
Attached ==
    /\ ~repo.stored /\ repo'.stored /\ failures' = failures /\ tracked' = tracked
    /\ Held(repo') = Held(repo) /\ repo'.dirty = Held(repo) /\ repo'.cached = repo.cached
    /\ DOMAIN rows'.checkpoints = DOMAIN rows.checkpoints /\ rows'.snapshots = rows.snapshots

LEMMA AttachStorageDoes ==
    ASSUME LibraryTyped, AttachStorage
    PROVE  Keeps /\ BranchesAlone /\ Attached
PROOF
  <1>1. PICK rep, r, n, now, ids :
           /\ rep = repo /\ r = rows /\ n = Len(made) /\ now = clock /\ ids = Held(rep)
           /\ RepoTyped(rep, now, n) /\ RowsTyped(r, now, n) /\ IsRepo(rep) /\ IsRows(r)
    BY TypedParts
  <1>2. /\ ~rep.stored /\ repo' = [rep EXCEPT !.stored = TRUE, !.dirty = ids] /\ rows' = r
        /\ made' = made /\ open' = open /\ clock' = clock /\ failures' = failures /\ tracked' = tracked
    BY <1>1 DEF AttachStorage
  <1>3. PICK q : q = repo'
    OBVIOUS
  <1>4. /\ q.held = rep.held /\ q.index = rep.index /\ q.branches = rep.branches /\ q.dirty = ids
        /\ q.stored = TRUE /\ q.cached = rep.cached /\ IsRepo(q)
    BY <1>1, <1>2, <1>3 DEF IsRepo
  <1>5. RepoTyped(q, now, n)
    BY <1>1, <1>4, SameRepo
  <1>6. RepoTyped(repo', clock, Len(made)) /\ RowsTyped(rows', clock, Len(made))
    BY <1>1, <1>2, <1>3, <1>5
  <1>7. /\ failures' \in Nat /\ open' \subseteq Txs(Len(made)) /\ (repo.stored => repo'.stored)
        /\ rows.snapshots \subseteq rows'.snapshots
    BY <1>1, <1>2, <1>3, <1>4, TypedParts
  <1>8. Keeps
    BY <1>2, <1>6, <1>7, StateTypes
  <1>9. BranchesAlone /\ Attached
    BY <1>1, <1>2, <1>3, <1>4 DEF BranchesAlone, Attached, Held
  <1> QED BY <1>8, <1>9

(* All is synchronised ...                                                   *)
Synchronised ==
    /\ repo.stored /\ repo'.stored /\ failures' = failures /\ tracked'
    /\ AllWritten(rows', rows, repo)
    /\ Held(repo') = Held(repo) /\ repo'.dirty = {} /\ repo'.branches = repo.branches

LEMMA SyncAllDoes ==
    ASSUME LibraryTyped, SyncAll
    PROVE  Keeps /\ Caches /\ Synchronised
PROOF
  <1>1. PICK rep, r, n, now :
           /\ rep = repo /\ r = rows /\ n = Len(made) /\ now = clock /\ n \in Nat /\ now \in Nat
           /\ RepoTyped(rep, now, n) /\ RowsTyped(r, now, n) /\ IsRepo(rep) /\ IsRows(r)
    BY TypedParts
  <1>2. /\ rep.stored /\ repo' = Drained(rep) /\ rows' = Synced(r, rep) /\ tracked' = TRUE
        /\ made' = made /\ open' = open /\ clock' = clock /\ failures' = failures
    BY <1>1 DEF SyncAll
  <1>3. PICK q, t : q = Drained(rep) /\ t = Synced(r, rep)
    OBVIOUS
  <1>4. /\ q.held = rep.held /\ q.index = rep.index /\ q.branches = rep.branches /\ q.dirty = {}
        /\ q.stored = rep.stored /\ q.cached = rep.cached /\ IsRepo(q)
    <2>1. q = [rep EXCEPT !.dirty = {}, !.deletedCheckpoints = {}, !.deletedBranches = {}]
      BY <1>3 DEF Drained
    <2> QED BY <1>1, <2>1 DEF IsRepo
  <1>5. RepoTyped(q, now, n)
    BY <1>1, <1>4, SameRepo
  <1>6. RowsTyped(t, now, n) /\ AllWritten(t, r, rep)
    BY <1>1, <1>3, SyncedWrites
  <1>7. t.snapshots = r.snapshots
    BY <1>6 DEF AllWritten
  <1>8. RepoTyped(repo', clock, Len(made)) /\ RowsTyped(rows', clock, Len(made))
    BY <1>1, <1>2, <1>3, <1>5, <1>6
  <1>9. /\ failures' \in Nat /\ open' \subseteq Txs(Len(made)) /\ (repo.stored => repo'.stored)
        /\ rows.snapshots \subseteq rows'.snapshots
    BY <1>1, <1>2, <1>3, <1>4, <1>7, TypedParts
  <1>10. Keeps
    BY <1>2, <1>8, <1>9, StateTypes
  <1>11. Caches
    BY <1>1, <1>2, <1>3, <1>4, <1>7 DEF Caches
  <1>12. Synchronised
    BY <1>1, <1>2, <1>3, <1>4, <1>6 DEF Synchronised, Held
  <1> QED BY <1>10, <1>11, <1>12

(* ... or fails at once.                                                     *)
SyncFailed ==
    /\ repo.stored /\ repo'.stored /\ failures' = failures + 1 /\ ~tracked'
    /\ Held(repo') = Held(repo) /\ repo'.dirty = {}
    /\ DOMAIN rows'.checkpoints = DOMAIN rows.checkpoints

LEMMA SyncAllFailsDoes ==
    ASSUME LibraryTyped, SyncAllFails
    PROVE  Keeps /\ Caches /\ BranchesAlone /\ SyncFailed
PROOF
  <1>1. PICK rep, r, n, now :
           /\ rep = repo /\ r = rows /\ n = Len(made) /\ now = clock
           /\ RepoTyped(rep, now, n) /\ RowsTyped(r, now, n) /\ IsRepo(rep) /\ IsRows(r)
    BY TypedParts
  <1>2. /\ rep.stored /\ repo' = [rep EXCEPT !.dirty = {}] /\ rows' = r /\ tracked' = FALSE
        /\ made' = made /\ open' = open /\ clock' = clock /\ failures' = failures + 1
    BY <1>1 DEF SyncAllFails
  <1>3. PICK q : q = repo'
    OBVIOUS
  <1>4. /\ q.held = rep.held /\ q.index = rep.index /\ q.branches = rep.branches /\ q.dirty = {}
        /\ q.stored = rep.stored /\ q.cached = rep.cached /\ IsRepo(q)
    BY <1>1, <1>2, <1>3 DEF IsRepo
  <1>5. RepoTyped(q, now, n)
    BY <1>1, <1>4, SameRepo
  <1>6. RepoTyped(repo', clock, Len(made)) /\ RowsTyped(rows', clock, Len(made))
    BY <1>1, <1>2, <1>3, <1>5
  <1>7. /\ failures' \in Nat /\ open' \subseteq Txs(Len(made)) /\ (repo.stored => repo'.stored)
        /\ rows.snapshots \subseteq rows'.snapshots
    BY <1>1, <1>2, <1>3, <1>4, TypedParts
  <1>8. Keeps
    BY <1>2, <1>6, <1>7, StateTypes
  <1>9. Caches /\ BranchesAlone /\ SyncFailed
    BY <1>1, <1>2, <1>3, <1>4 DEF Caches, BranchesAlone, SyncFailed, Held
  <1> QED BY <1>8, <1>9

(* The checkpoints are those of the tables.                                  *)
LEMMA RebuildDagDoes ==
    ASSUME LibraryTyped, RebuildDag
    PROVE  /\ Keeps /\ Caches /\ BranchesAlone /\ Quiet
           /\ Held(repo') = IF repo.stored THEN DOMAIN rows.checkpoints ELSE Held(repo)
           /\ repo'.dirty = repo.dirty /\ rows' = rows
PROOF
  <1>1. PICK rep, r, n, now :
           /\ rep = repo /\ r = rows /\ n = Len(made) /\ now = clock /\ n \in Nat /\ now \in Nat
           /\ RepoTyped(rep, now, n) /\ RowsTyped(r, now, n) /\ IsRepo(rep) /\ IsRows(r)
    BY TypedParts
  <1>2. PICK held : held = IF rep.stored THEN r.checkpoints ELSE rep.held
    OBVIOUS
  <1>3. \E order \in Orders(DOMAIN held) :
              repo' = [rep EXCEPT !.held = held,
                                   !.dag = BuildDag(Parents(DOMAIN held), order),
                                   !.index = FromCheckpoints(held, order)]
    BY <1>1, <1>2 DEF RebuildDag
  <1>4. PICK order \in Orders(DOMAIN held) :
              repo' = [rep EXCEPT !.held = held,
                                   !.dag = BuildDag(Parents(DOMAIN held), order),
                                   !.index = FromCheckpoints(held, order)]
    BY <1>3
  <1>5. PICK graph, index : graph = BuildDag(Parents(DOMAIN held), order) /\ index = FromCheckpoints(held, order)
    OBVIOUS
  <1>6. /\ repo' = [rep EXCEPT !.held = held, !.dag = graph, !.index = index] /\ rows' = r
        /\ made' = made /\ open' = open /\ clock' = clock /\ failures' = failures /\ tracked' = tracked
    <2>1. repo' = [rep EXCEPT !.held = held, !.dag = graph, !.index = index]
      BY <1>4, <1>5
    <2>2. /\ rows' = rows /\ made' = made /\ open' = open /\ clock' = clock /\ failures' = failures
          /\ tracked' = tracked
      BY DEF RebuildDag
    <2> QED BY <1>1, <2>1, <2>2
  <1>7. Dated(held, now, n)
    BY <1>1, <1>2 DEF RepoTyped, RowsTyped
  <1>8. IsIndex(index, now, n)
    <2>1. DOMAIN held \subseteq 1..n /\ \A c \in DOMAIN held : held[c] \in 0..now
      BY <1>7 DEF Dated
    <2> QED BY <1>1, <1>5, <2>1, IndexBuilt
  <1>9. PICK q : q = repo'
    OBVIOUS
  <1>10. /\ q.held = held /\ q.index = index /\ q.branches = rep.branches /\ q.dirty = rep.dirty
         /\ q.stored = rep.stored /\ q.cached = rep.cached /\ IsRepo(q)
    BY <1>1, <1>6, <1>9 DEF IsRepo
  <1>11. RepoTyped(q, now, n)
    BY <1>1, <1>7, <1>8, <1>10 DEF RepoTyped
  <1>12. RepoTyped(repo', clock, Len(made)) /\ RowsTyped(rows', clock, Len(made))
    BY <1>1, <1>6, <1>9, <1>11
  <1>13. /\ failures' \in Nat /\ open' \subseteq Txs(Len(made)) /\ (repo.stored => repo'.stored)
         /\ rows.snapshots \subseteq rows'.snapshots
    BY <1>1, <1>6, <1>9, <1>10, TypedParts
  <1>14. Keeps
    BY <1>6, <1>12, <1>13, StateTypes
  <1>15. Caches /\ BranchesAlone /\ Quiet
    BY <1>1, <1>6, <1>9, <1>10 DEF Caches, BranchesAlone, Quiet
  <1>16. Held(repo') = IF repo.stored THEN DOMAIN rows.checkpoints ELSE Held(repo)
    BY <1>1, <1>2, <1>9, <1>10 DEF Held
  <1> QED BY <1>1, <1>6, <1>9, <1>10, <1>14, <1>15, <1>16

(* The repository is what the tables hold.                                   *)
Loaded ==
    /\ repo.stored /\ repo'.stored /\ failures' = failures /\ tracked' /\ rows' = rows
    /\ Held(repo') = DOMAIN rows.checkpoints /\ repo'.dirty = {}
    /\ repo'.cached \subseteq rows.snapshots
    /\ NamesOf(repo'.branches) = DOMAIN rows.branches
    /\ HeadsByName(repo'.branches) = rows.branches

LEMMA LoadDoes ==
    ASSUME LibraryTyped, Load
    PROVE  Keeps /\ Loaded
PROOF
  <1>1. PICK r, n, now :
           /\ r = rows /\ n = Len(made) /\ now = clock /\ n \in Nat /\ now \in Nat
           /\ RowsTyped(r, now, n) /\ IsRows(r)
    BY TypedParts
  <1>2. PICK order \in Orders(DOMAIN r.checkpoints) : repo' = LoadedInOrder(r, order)
    BY <1>1 DEF Load
  <1>3. /\ repo.stored /\ rows' = r /\ tracked' = TRUE /\ open' = {}
        /\ made' = made /\ clock' = clock /\ failures' = failures
    BY <1>1 DEF Load
  <1>4. PICK held, b, index, cached, current, graph :
           /\ held = r.checkpoints /\ b = SortedBranches(r) /\ index = FromCheckpoints(held, order)
           /\ cached = r.snapshots \cap UNION {ToSet(made[x].snaps) : x \in DOMAIN held}
           /\ repo' = [held |-> held, branches |-> b, current |-> current, dag |-> graph, index |-> index,
                       cached |-> cached, dirty |-> {}, deletedCheckpoints |-> {}, deletedBranches |-> {},
                       stored |-> TRUE]
    BY <1>2, Zenon DEF LoadedInOrder
  <1>5. PICK q : q = repo'
    OBVIOUS
  <1>6. /\ q.held = held /\ q.index = index /\ q.branches = b /\ q.dirty = {}
        /\ q.stored = TRUE /\ q.cached = cached /\ IsRepo(q)
    BY <1>4, <1>5 DEF IsRepo
  <1>7. Dated(held, now, n)
    BY <1>1, <1>4 DEF RowsTyped
  <1>8. IsIndex(index, now, n)
    <2>1. DOMAIN held \subseteq 1..n /\ \A c \in DOMAIN held : held[c] \in 0..now
      BY <1>7 DEF Dated
    <2> QED BY <1>1, <1>2, <1>4, <2>1, IndexBuilt
  <1>9. /\ IsBranches(b, n) /\ NamesOf(b) = DOMAIN r.branches /\ HeadsByName(b) = r.branches
    BY <1>1, <1>4, BranchesSorted DEF RowsTyped
  <1>10. RepoTyped(q, now, n)
    BY <1>6, <1>7, <1>8, <1>9 DEF RepoTyped
  <1>11. RepoTyped(repo', clock, Len(made)) /\ RowsTyped(rows', clock, Len(made))
    BY <1>1, <1>3, <1>5, <1>10
  <1>12. /\ failures' \in Nat /\ open' \subseteq Txs(Len(made)) /\ (repo.stored => repo'.stored)
         /\ rows.snapshots \subseteq rows'.snapshots
    BY <1>1, <1>3, <1>5, <1>6, TypedParts
  <1>13. Keeps
    BY <1>3, <1>11, <1>12, StateTypes
  <1>14. Loaded
    <2>1. cached \subseteq r.snapshots
      BY <1>4
    <2>2. Held(repo') = DOMAIN r.checkpoints
      BY <1>4, <1>5, <1>6 DEF Held
    <2> QED BY <1>1, <1>3, <1>5, <1>6, <1>9, <2>1, <2>2 DEF Loaded
  <1> QED BY <1>13, <1>14

-----------------------------------------------------------------------------
(* Every step is one of these.                                               *)
Rests == Caches /\ BranchesAlone /\ CheckpointsAlone /\ Quiet
Makes1 == Caches /\ (Fails \/ \E id \in 1..Len(made') : Commits(id))
Branches1 == Caches /\ CheckpointsAlone /\ Quiet /\ \E m : BranchComes(m) \/ BranchGoes(m)
Removes == Caches /\ BranchesAlone /\ Quiet /\ \E id : CheckpointGoes(id)
Attaches == AttachStorage /\ BranchesAlone /\ Attached
Synchronises == SyncAll /\ Caches /\ Synchronised
SyncsNot == SyncAllFails /\ Caches /\ BranchesAlone /\ SyncFailed
Rebuilds ==
    /\ Caches /\ BranchesAlone /\ Quiet
    /\ Held(repo') = IF repo.stored THEN DOMAIN rows.checkpoints ELSE Held(repo)
    /\ repo'.dirty = repo.dirty /\ rows' = rows

OneStep ==
    \/ Rests \/ Makes1 \/ Branches1 \/ Removes \/ Attaches \/ Synchronises
    \/ SyncsNot \/ Rebuilds \/ Loaded

LEMMA StuttersTyped ==
    ASSUME LibraryTyped, UNCHANGED vars
    PROVE  Keeps /\ Rests
PROOF
  <1>1. /\ made' = made /\ repo' = repo /\ rows' = rows /\ open' = open /\ clock' = clock
        /\ failures' = failures /\ tracked' = tracked
    BY DEF vars
  <1>2. /\ failures' \in Nat /\ open' \subseteq Txs(Len(made)) /\ (repo.stored => repo'.stored)
        /\ rows.snapshots \subseteq rows'.snapshots
        /\ RepoTyped(repo', clock, Len(made)) /\ RowsTyped(rows', clock, Len(made))
    BY <1>1, TypedParts
  <1>3. Keeps
    BY <1>1, <1>2, StateTypes
  <1> QED BY <1>1, <1>3, SameTables DEF Rests, Quiet

LEMMA HeadsAreMade ==
    ASSUME LibraryTyped, NEW i \in DOMAIN repo.branches
    PROVE  repo.branches[i].head \in 1..Len(made)
PROOF
  <1>1. PICK b, n : b = repo.branches /\ n = Len(made)
    OBVIOUS
  <1>2. IsBranches(b, n)
    BY <1>1, TypedParts DEF RepoTyped
  <1> QED BY <1>1, <1>2, BranchesTyped

LEMMA CheckpointsToMake ==
    ASSUME LibraryTyped, NEW c \in Contents, NEW x \in 1..Len(made), NEW y \in 1..Len(made)
    PROVE  /\ [parents |-> <<x>>, snaps |-> c] \in Txs(Len(made))
           /\ [parents |-> <<x, y>>, snaps |-> c] \in Txs(Len(made))
PROOF
  <1>1. PICK n, A, B : n = Len(made) /\ A = Seq(1..n) /\ B = Seq(Snaps)
    OBVIOUS
  <1>2. <<x>> \in A /\ <<x, y>> \in A
    BY <1>1
  <1>3. c \in B
    BY <1>1, ContentsAssumption DEF Snaps
  <1>4. PICK p, q : p = [parents |-> <<x>>, snaps |-> c] /\ q = [parents |-> <<x, y>>, snaps |-> c]
    OBVIOUS
  <1>5. p \in [parents : A, snaps : B] /\ q \in [parents : A, snaps : B]
    BY <1>2, <1>3, <1>4
  <1> QED BY <1>1, <1>4, <1>5 DEF Txs

LEMMA StepDoes ==
    ASSUME LibraryTyped, [Next]_vars
    PROVE  Keeps /\ OneStep
PROOF
  <1>1. CASE UNCHANGED vars
    BY <1>1, StuttersTyped DEF OneStep
  <1>2. CASE Tick
    BY <1>2, TickDoes DEF OneStep, Rests
  <1>3. CASE SnapshotNext
    BY <1>3, StoreSnapshotDoes DEF SnapshotNext, OneStep, Rests
  <1>4. CASE CommitNext
    <2>1. ASSUME HasCurrent(repo), NEW cp \in Txs(Len(made)), MakeCheckpoint(cp)
          PROVE  Keeps /\ OneStep
      BY <2>1, MakeCheckpointDoes, Zenon DEF OneStep, Makes1
    <2>2. HasCurrent(repo) => HeadOf(repo) \in 1..Len(made)
      BY HeadsAreMade DEF HasCurrent, HeadOf
    <2>3. ASSUME NEW c \in Contents, Commit(c) \/ CommitAllowEmpty(c)
          PROVE  Keeps /\ OneStep
      <3>1. HasCurrent(repo) /\ MakeCheckpoint([parents |-> <<HeadOf(repo)>>, snaps |-> c])
        BY <2>3, Zenon DEF Commit, CommitAllowEmpty
      <3>2. [parents |-> <<HeadOf(repo)>>, snaps |-> c] \in Txs(Len(made))
        BY <2>2, <3>1, CheckpointsToMake
      <3> QED BY <2>1, <3>1, <3>2
    <2>4. ASSUME NEW m \in Names, NEW c \in Contents, MergeBranches(m, c)
          PROVE  Keeps /\ OneStep
      <3>1. PICK i \in FindBranch(repo, m) :
               MakeCheckpoint([parents |-> <<HeadOf(repo), repo.branches[i].head>>, snaps |-> c])
        BY <2>4, Zenon DEF MergeBranches
      <3>2. HasCurrent(repo) /\ i \in DOMAIN repo.branches
        BY <2>4 DEF MergeBranches, FindBranch
      <3>3. PICK head : head = repo.branches[i].head
        OBVIOUS
      <3>4. head \in 1..Len(made)
        BY <3>2, <3>3, HeadsAreMade
      <3>5. [parents |-> <<HeadOf(repo), head>>, snaps |-> c] \in Txs(Len(made))
        BY <2>2, <3>2, <3>4, CheckpointsToMake
      <3> QED BY <2>1, <3>1, <3>2, <3>3, <3>5
    <2> QED BY <1>4, <2>3, <2>4 DEF CommitNext
  <1>5. CASE BranchNext
    <2>1. ASSUME NEW m \in Names, NEW head \in 1..Len(made), NewBranch(m, head)
          PROVE  Keeps /\ OneStep
      BY <2>1, NewBranchDoes, Zenon DEF OneStep, Branches1, BranchNames
    <2>2. ASSUME NEW m \in Names, CreateBranch(m) \/ SwitchBranch(m)
          PROVE  Keeps /\ OneStep
      <3>1. CASE CreateBranch(m)
        <4>1. HeadOf(repo) \in 1..Len(made) /\ NewBranch(m, HeadOf(repo))
          BY <3>1, HeadsAreMade DEF CreateBranch, HasCurrent, HeadOf
        <4> QED BY <2>1, <4>1
      <3>2. CASE SwitchBranch(m)
        BY <3>2, SwitchBranchDoes, Zenon DEF OneStep, Rests
      <3> QED BY <2>2, <3>1, <3>2
    <2>3. ASSUME NEW m \in Names, NEW id \in Ids, CreateBranchFrom(m, id)
          PROVE  Keeps /\ OneStep
      <3>1. id \in 1..Len(made) /\ NewBranch(m, id)
        BY <2>3, Zenon DEF CreateBranchFrom, Ids
      <3> QED BY <2>1, <3>1
    <2> QED BY <1>5, <2>2, <2>3 DEF BranchNext
  <1>6. CASE RemoveNext
    <2>1. ASSUME NEW m \in Removable, RemoveBranch(m)
          PROVE  Keeps /\ OneStep
      BY <2>1, RemoveBranchDoes, Zenon DEF OneStep, Branches1
    <2>2. ASSUME NEW id \in Ids, RemoveCheckpoint(id)
          PROVE  Keeps /\ OneStep
      BY <2>2, RemoveCheckpointDoes, Zenon DEF OneStep, Removes
    <2> QED BY <1>6, <2>1, <2>2 DEF RemoveNext
  <1>7. CASE TransactionNext
    <2>1. CASE \/ \E c \in Contents : BeginTransaction(c)
               \/ \E tx \in open : EndTransaction(tx)
      BY <2>1, TransactionsDo, Zenon DEF OneStep, Rests
    <2>2. ASSUME NEW tx \in open, CommitTransaction(tx)
          PROVE  Keeps /\ OneStep
      BY <2>2, CommitTransactionDoes, Zenon DEF OneStep, Makes1
    <2> QED BY <1>7, <2>1, <2>2, Zenon DEF TransactionNext
  <1>8. CASE StorageNext
    <2>1. CASE AttachStorage
      BY <2>1, AttachStorageDoes, Zenon DEF OneStep, Attaches
    <2>2. CASE SyncAll
      BY <2>2, SyncAllDoes, Zenon DEF OneStep, Synchronises
    <2>3. CASE SyncAllFails
      BY <2>3, SyncAllFailsDoes, Zenon DEF OneStep, SyncsNot
    <2>4. CASE RebuildDag
      BY <2>4, RebuildDagDoes, Zenon DEF OneStep, Rebuilds
    <2>5. CASE Load
      BY <2>5, LoadDoes, Zenon DEF OneStep
    <2> QED BY <1>8, <2>1, <2>2, <2>3, <2>4, <2>5 DEF StorageNext
  <1> QED BY <1>1, <1>2, <1>3, <1>4, <1>5, <1>6, <1>7, <1>8 DEF Next

LEMMA AlwaysTyped == Spec => []LibraryTyped
PROOF
  <1>1. LibraryTyped /\ [Next]_vars => LibraryTyped'
    BY StepDoes, Zenon DEF Keeps
  <1> QED BY <1>1, LibraryStartsTyped, PTL DEF Spec

-----------------------------------------------------------------------------
(* The branches in the storage                                               *)

(* What the tables hold of a repository's branches, tracked or not           *)
BranchesTied ==
    /\ ~repo.stored => DOMAIN rows.branches = {} /\ ~tracked
    /\ repo.stored => DOMAIN rows.branches \subseteq NamesOf(repo.branches)
    /\ BranchesStored

(* The heads are those of the branches there are, before and after.          *)
LEMMA HeadsNow ==
    ASSUME LibraryTyped
    PROVE  /\ DOMAIN HeadsByName(repo.branches) = NamesOf(repo.branches)
           /\ HeadsByName(repo.branches) = [x \in NamesOf(repo.branches) |-> HeadsByName(repo.branches)[x]]
PROOF
  <1>1. PICK b, n : b = repo.branches /\ n = Len(made)
    OBVIOUS
  <1>2. IsBranches(b, n)
    BY <1>1, TypedParts DEF RepoTyped
  <1>3. DOMAIN HeadsByName(b) = NamesOf(b) /\ HeadsByName(b) \in [NamesOf(b) -> 1..n]
    BY <1>2, HeadOfEach
  <1> QED BY <1>1, <1>3

LEMMA BranchesStartTied == Init => BranchesTied
PROOF
  <1> SUFFICES ASSUME Init PROVE BranchesTied
    OBVIOUS
  <1>1. PICK one, b : one = [name |-> Main, head |-> Root] /\ b = <<one>>
    OBVIOUS
  <1>2. repo.branches = b
    BY <1>1 DEF Init, NewRepo
  <1>3. CASE rows = NoRows /\ repo = NewRepo
    <2>1. PICK none, held, branches, graph, index :
             /\ none = << >>
             /\ rows = [checkpoints |-> none, branches |-> none, current |-> "", edges |-> {},
                        gens |-> none, snapshots |-> {}]
             /\ repo = [held |-> held, branches |-> branches, current |-> 1, dag |-> graph, index |-> index,
                        cached |-> {}, dirty |-> {}, deletedCheckpoints |-> {}, deletedBranches |-> {},
                        stored |-> FALSE]
      BY <1>3 DEF NewRepo, NoRows
    <2>2. DOMAIN rows.branches = {} /\ ~repo.stored
      <3>1. rows.branches = none /\ ~repo.stored
        BY <2>1
      <3>2. none = << >>
        BY <2>1, Zenon
      <3>3. DOMAIN << >> = {}
        OBVIOUS
      <3>4. DOMAIN rows.branches = DOMAIN << >>
        BY <3>1, <3>2, Zenon
      <3> QED BY <3>1, <3>3, <3>4, Zenon
    <2> QED BY <2>2 DEF Init, BranchesTied, BranchesStored
  <1>4. CASE rows = RootRows /\ repo = [NewRepo EXCEPT !.stored = TRUE]
    <2>1. PICK f : f = [n \in {Main} |-> Root]
      OBVIOUS
    <2>2. rows.branches = f
      BY <1>4, <2>1 DEF RootRows, NoRows
    <2>3. DOMAIN b = {1} /\ b[1] = one
      BY <1>1
    <2>4. NamesOf(b) = {Main}
      BY <1>1, <2>3 DEF NamesOf
    <2>5. HeadsByName(b) = f
      <3>1. LibraryTyped
        BY LibraryStartsTyped
      <3>2. PICK n : n = Len(made) /\ IsBranches(b, n)
        BY <1>2, <3>1, TypedParts DEF RepoTyped
      <3>3. DOMAIN HeadsByName(b) = {Main} /\ HeadsByName(b)[Main] = Root
        <4>1. DOMAIN HeadsByName(b) = NamesOf(b) /\ \A i \in DOMAIN b : HeadsByName(b)[b[i].name] = b[i].head
          BY <3>2, HeadOfEach
        <4>2. HeadsByName(b)[b[1].name] = b[1].head
          BY <2>3, <4>1
        <4>3. b[1].name = Main /\ b[1].head = Root
          BY <1>1, <2>3
        <4> QED BY <2>4, <4>1, <4>2, <4>3
      <3>4. HeadsByName(b) \in [{Main} -> 1..n]
        BY <2>4, <3>2, HeadOfEach
      <3> QED BY <2>1, <3>3, <3>4
    <2>6. repo.stored
      BY <1>4 DEF NewRepo
    <2> QED BY <1>2, <2>1, <2>2, <2>4, <2>5, <2>6 DEF BranchesTied, BranchesStored
  <1> QED BY <1>3, <1>4 DEF Init

LEMMA BranchesStayTied ==
    ASSUME LibraryTyped, BranchesTied, [Next]_vars
    PROVE  BranchesTied'
PROOF
  <1>1. LibraryTyped' /\ OneStep
    BY StepDoes, Zenon DEF Keeps
  <1>2. PICK b, d, h, g, f, e :
           /\ b = repo.branches /\ d = repo'.branches /\ h = HeadsByName(b) /\ g = HeadsByName(d)
           /\ f = rows.branches /\ e = rows'.branches
    OBVIOUS
  <1>3. DOMAIN h = NamesOf(b) /\ h = [x \in NamesOf(b) |-> h[x]]
    BY <1>2, HeadsNow
  <1>4. /\ ~repo.stored => DOMAIN f = {} /\ ~tracked
        /\ repo.stored => DOMAIN f \subseteq NamesOf(b)
        /\ tracked => f = h
    BY <1>2 DEF BranchesTied, BranchesStored
  <1>5. SUFFICES /\ ~repo'.stored => DOMAIN e = {} /\ ~tracked'
                 /\ repo'.stored => DOMAIN e \subseteq NamesOf(d)
                 /\ tracked' => e = g
    <2>1. BranchesTied' = (/\ ~repo'.stored => DOMAIN rows'.branches = {} /\ ~tracked'
                           /\ repo'.stored => DOMAIN rows'.branches \subseteq NamesOf(repo'.branches)
                           /\ tracked' => rows'.branches = HeadsByName(repo'.branches))
      BY DEF BranchesTied, BranchesStored
    <2> QED BY <1>2, <1>5, <2>1
  <1>6. CASE BranchesAlone /\ repo'.stored = repo.stored /\ (tracked' => tracked)
    BY <1>2, <1>4, <1>6 DEF BranchesAlone
  <1>7. CASE Makes1
    <2>1. CASE Fails
      BY <1>2, <1>4, <1>7, <2>1 DEF Makes1, Fails, Caches
    <2>2. CASE \E id \in 1..Len(made') : Commits(id)
      <3>1. PICK id, m : Commits(id) /\ m = CurrentName(repo)
        BY <2>2
      <3>2. /\ tracked' = tracked /\ NamesOf(d) = NamesOf(b) /\ g = [h EXCEPT ![m] = id]
            /\ repo.stored => DOMAIN e = DOMAIN f /\ e = IF m \in DOMAIN f THEN [f EXCEPT ![m] = id] ELSE f
            /\ ~repo.stored => e = f
        BY <1>2, <3>1 DEF Commits
      <3>3. repo'.stored = repo.stored
        BY <1>7 DEF Makes1, Caches
      <3>4. ASSUME tracked PROVE e = g
        <4>1. f = h /\ repo.stored
          BY <1>4, <3>4
        <4>2. CASE m \in DOMAIN f
          BY <3>2, <4>1, <4>2
        <4>3. CASE m \notin DOMAIN f
          <5>1. [h EXCEPT ![m] = id] = [x \in NamesOf(b) |-> h[x]]
            BY <1>3, <4>1, <4>3
          <5> QED BY <1>3, <3>2, <4>1, <4>3, <5>1
        <4> QED BY <4>2, <4>3
      <3> QED BY <1>4, <3>2, <3>3, <3>4
    <2> QED BY <1>7, <2>1, <2>2 DEF Makes1
  <1>8. CASE Branches1
    <2>1. repo'.stored = repo.stored /\ tracked' = tracked
      BY <1>8 DEF Branches1, Quiet
    <2>2. ASSUME NEW m, BranchComes(m)
          PROVE  /\ ~repo.stored => DOMAIN e = {}
                 /\ repo.stored => DOMAIN e \subseteq NamesOf(d)
                 /\ tracked => e = g
      <3>1. PICK one : /\ DOMAIN one = {m} /\ g = Over(one, h)
                       /\ e = IF repo.stored THEN Over(one, f) ELSE f
        BY <1>2, <2>2, Zenon DEF BranchComes
      <3>2. NamesOf(d) = NamesOf(b) \cup {m}
        BY <1>2, <2>2, Zenon DEF BranchComes
      <3>3. DOMAIN Over(one, f) = {m} \cup DOMAIN f
        BY <3>1 DEF Over
      <3> QED BY <1>4, <3>1, <3>2, <3>3
    <2>3. ASSUME NEW m, BranchGoes(m)
          PROVE  /\ ~repo.stored => DOMAIN e = {}
                 /\ repo.stored => DOMAIN e \subseteq NamesOf(d)
                 /\ tracked => e = g
      <3>1. /\ NamesOf(d) = NamesOf(b) \ {m} /\ g = [x \in NamesOf(d) |-> h[x]]
            /\ e = IF repo.stored THEN [x \in DOMAIN f \ {m} |-> f[x]] ELSE f
        BY <1>2, <2>3, Zenon DEF BranchGoes
      <3> QED BY <1>3, <1>4, <3>1
    <2> QED BY <1>4, <1>8, <2>1, <2>2, <2>3 DEF Branches1
  <1>9. CASE Attaches
    BY <1>2, <1>4, <1>9 DEF Attaches, Attached, BranchesAlone
  <1>10. CASE Synchronises
    <2>1. d = b /\ g = h /\ repo.stored /\ repo'.stored /\ tracked'
      BY <1>2, <1>10 DEF Synchronises, Synchronised
    <2>2. PICK left : left = [x \in DOMAIN f \ repo.deletedBranches |-> f[x]]
      OBVIOUS
    <2>3. e = Over(h, left)
      BY <1>2, <1>10, <2>2, Zenon DEF Synchronises, Synchronised, AllWritten
    <2>4. DOMAIN left \subseteq NamesOf(b)
      BY <1>4, <2>1, <2>2
    <2>5. PICK n : IsBranches(b, n)
      BY <1>2, TypedParts DEF RepoTyped
    <2>6. Over(h, left) = h
      BY <1>2, <2>4, <2>5, AllStored
    <2> QED BY <1>3, <2>1, <2>3, <2>6
  <1>11. CASE SyncsNot
    BY <1>6, <1>11 DEF SyncsNot, SyncFailed
  <1>12. CASE Loaded
    BY <1>2, <1>12 DEF Loaded
  <1> QED BY <1>1, <1>6, <1>7, <1>8, <1>9, <1>10, <1>11, <1>12
          DEF OneStep, Rests, Removes, Rebuilds, Quiet

(* A storage that had every branch with its head has every branch with its   *)
(* head in every state: commits, merges, transactions, branches made and     *)
(* removed, loads and synchronisations write what they change.               *)
THEOREM BranchesAlwaysStored == Spec => []BranchesStored
PROOF
  <1>1. LibraryTyped /\ BranchesTied /\ [Next]_vars => BranchesTied'
    BY BranchesStayTied
  <1>2. BranchesTied => BranchesStored
    BY DEF BranchesTied
  <1> QED BY <1>1, <1>2, AlwaysTyped, BranchesStartTied, PTL DEF Spec

-----------------------------------------------------------------------------
(* The checkpoints in the storage                                            *)

(* What the tables hold of a repository's checkpoints, tracked or not        *)
CheckpointsTied ==
    /\ ~repo.stored => DOMAIN rows.checkpoints = {} /\ ~tracked
    /\ repo.stored => Held(repo) \ DOMAIN rows.checkpoints \subseteq repo.dirty
    /\ repo.stored /\ failures = 0 => DOMAIN rows.checkpoints \subseteq Held(repo)
    /\ CheckpointsStored

LEMMA CheckpointsStartTied == Init => CheckpointsTied
PROOF
  <1> SUFFICES ASSUME Init PROVE CheckpointsTied
    OBVIOUS
  <1>1. PICK held : held = [n \in {Root} |-> Min(Readings)]
    OBVIOUS
  <1>2. DOMAIN held = {Root} /\ repo.held = held
    BY <1>1 DEF Init, NewRepo
  <1>3. Held(repo) = {Root}
    BY <1>2 DEF Held
  <1>4. tracked = repo.stored
    BY DEF Init
  <1>5. CASE rows = NoRows /\ repo = NewRepo
    <2>1. ~repo.stored
      BY <1>5 DEF NewRepo
    <2>2. PICK none : none = << >> /\ rows.checkpoints = none
      BY <1>5 DEF NoRows
    <2>3. DOMAIN << >> = {}
      OBVIOUS
    <2>4. DOMAIN rows.checkpoints = {}
      BY <2>2, <2>3, Zenon
    <2> QED BY <1>4, <2>1, <2>4 DEF CheckpointsTied, CheckpointsStored
  <1>6. CASE rows = RootRows /\ repo = [NewRepo EXCEPT !.stored = TRUE]
    <2>1. rows.checkpoints = held /\ repo.stored
      BY <1>1, <1>6 DEF RootRows, NoRows, NewRepo
    <2> QED BY <1>2, <1>3, <2>1 DEF CheckpointsTied, CheckpointsStored
  <1> QED BY <1>5, <1>6 DEF Init

LEMMA CheckpointsStayTied ==
    ASSUME LibraryTyped, CheckpointsTied, [Next]_vars, ~SyncLoses
    PROVE  CheckpointsTied'
PROOF
  <1>1. OneStep
    BY StepDoes, Zenon
  <1>2. PICK held, dirty, D, newHeld, newDirty, E :
           /\ held = Held(repo) /\ dirty = repo.dirty /\ D = DOMAIN rows.checkpoints
           /\ newHeld = Held(repo') /\ newDirty = repo'.dirty /\ E = DOMAIN rows'.checkpoints
    OBVIOUS
  <1>3. /\ ~repo.stored => D = {} /\ ~tracked
        /\ repo.stored => held \ D \subseteq dirty
        /\ repo.stored /\ failures = 0 => D \subseteq held
        /\ tracked => held \subseteq D /\ (failures = 0 => D \subseteq held)
    BY <1>2 DEF CheckpointsTied, CheckpointsStored
  <1>4. SUFFICES /\ ~repo'.stored => E = {} /\ ~tracked'
                 /\ repo'.stored => newHeld \ E \subseteq newDirty
                 /\ repo'.stored /\ failures' = 0 => E \subseteq newHeld
                 /\ tracked' => newHeld \subseteq E /\ (failures' = 0 => E \subseteq newHeld)
    <2>1. CheckpointsTied' = (/\ ~repo'.stored => DOMAIN rows'.checkpoints = {} /\ ~tracked'
                              /\ repo'.stored => Held(repo') \ DOMAIN rows'.checkpoints \subseteq repo'.dirty
                              /\ repo'.stored /\ failures' = 0 => DOMAIN rows'.checkpoints \subseteq Held(repo')
                              /\ tracked' => /\ Held(repo') \subseteq DOMAIN rows'.checkpoints
                                             /\ failures' = 0 => DOMAIN rows'.checkpoints \subseteq Held(repo'))
      BY DEF CheckpointsTied, CheckpointsStored, Held
    <2> QED BY <1>2, <1>4, <2>1
  <1>5. CASE CheckpointsAlone /\ Quiet
    BY <1>2, <1>3, <1>5 DEF CheckpointsAlone, Quiet
  <1>6. CASE Makes1
    <2>1. CASE Fails
      <3>1. failures' # 0
        BY <2>1, TypedParts DEF Fails
      <3> QED BY <1>2, <1>3, <1>6, <2>1, <3>1 DEF Makes1, Fails, Caches
    <2>2. CASE \E id \in 1..Len(made') : Commits(id)
      <3>1. PICK id : Commits(id)
        BY <2>2
      <3> QED BY <1>2, <1>3, <1>6, <3>1 DEF Makes1, Commits, Caches
    <2> QED BY <1>6, <2>1, <2>2 DEF Makes1
  <1>7. CASE Removes
    <2>1. PICK id : CheckpointGoes(id)
      BY <1>7 DEF Removes
    <2> QED BY <1>2, <1>3, <1>7, <2>1 DEF Removes, CheckpointGoes, Quiet
  <1>8. CASE Attaches
    BY <1>2, <1>3, <1>8 DEF Attaches, Attached
  <1>9. CASE Synchronises
    <2>1. /\ E = (D \cup (dirty \cap held)) \ repo.deletedCheckpoints
          /\ repo.stored /\ repo'.stored /\ failures' = failures /\ newHeld = held
      BY <1>2, <1>9 DEF Synchronises, Synchronised, AllWritten
    <2>2. repo.deletedCheckpoints \cap held = {}
      BY <1>2, <1>9 DEF Synchronises, SyncLoses
    <2> QED BY <1>3, <2>1, <2>2
  <1>10. CASE SyncsNot
    <2>1. failures' # 0
      BY <1>10, TypedParts DEF SyncsNot, SyncFailed
    <2>2. dirty \cap held \subseteq D
      BY <1>2, <1>10 DEF SyncsNot, SyncLoses
    <2> QED BY <1>2, <1>3, <1>10, <2>1, <2>2 DEF SyncsNot, SyncFailed
  <1>11. CASE Rebuilds
    <2>1. CASE repo.stored
      BY <1>2, <1>3, <1>11, <2>1 DEF Rebuilds, Quiet
    <2>2. CASE ~repo.stored
      BY <1>2, <1>3, <1>11, <2>2 DEF Rebuilds, Quiet
    <2> QED BY <2>1, <2>2
  <1>12. CASE Loaded
    BY <1>2, <1>12 DEF Loaded
  <1> QED BY <1>1, <1>5, <1>6, <1>7, <1>8, <1>9, <1>10, <1>11, <1>12
          DEF OneStep, Rests, Branches1

(* A storage that had every checkpoint has every checkpoint the repository   *)
(* holds in every state, and none other but what a failed call has left, in  *)
(* every run in which sync_all loses none.                                   *)
THEOREM CheckpointsAlwaysStored == Spec /\ [][~SyncLoses]_vars => []CheckpointsStored
PROOF
  <1>1. LibraryTyped /\ CheckpointsTied /\ [Next]_vars /\ [~SyncLoses]_vars => CheckpointsTied'
    <2>1. CASE ~SyncLoses
      BY <2>1, CheckpointsStayTied
    <2>2. CASE UNCHANGED vars
      BY <2>2 DEF vars, CheckpointsTied, CheckpointsStored, Held
    <2> QED BY <2>1, <2>2
  <1>2. CheckpointsTied => CheckpointsStored
    BY DEF CheckpointsTied
  <1> QED BY <1>1, <1>2, AlwaysTyped, CheckpointsStartTied, PTL DEF Spec

-----------------------------------------------------------------------------
(* The snapshots in the storage                                              *)
SnapshotsTied == repo.stored => repo.cached \subseteq rows.snapshots

LEMMA SnapshotsStartTied == Init => SnapshotsTied
PROOF
  <1> SUFFICES ASSUME Init PROVE SnapshotsTied
    OBVIOUS
  <1>1. repo.cached = {}
    BY DEF Init, NewRepo
  <1> QED BY <1>1 DEF SnapshotsTied

LEMMA SnapshotsStayTied ==
    ASSUME LibraryTyped, SnapshotsTied, [Next]_vars, ~AttachLoses
    PROVE  SnapshotsTied' /\ (repo.stored => repo'.cached \subseteq rows'.snapshots)
PROOF
  <1>1. OneStep /\ rows.snapshots \subseteq rows'.snapshots
    BY StepDoes, Zenon DEF Keeps
  <1>2. CASE Caches
    BY <1>1, <1>2 DEF Caches, SnapshotsTied
  <1>3. CASE Attaches
    BY <1>3 DEF Attaches, Attached, AttachLoses, SnapshotsTied
  <1>4. CASE Loaded
    BY <1>4 DEF Loaded, SnapshotsTied
  <1> QED BY <1>1, <1>2, <1>3, <1>4
          DEF OneStep, Rests, Makes1, Branches1, Removes, Synchronises, SyncsNot, Rebuilds

(* A snapshot that was known is known after the step.                        *)
LEMMA SnapshotsStayKnown ==
    ASSUME LibraryTyped, SnapshotsTied, [Next]_vars, ~AttachLoses, NEW s, SnapshotKnown(s)
    PROVE  SnapshotKnown(s)'
PROOF
  <1>1. OneStep /\ rows.snapshots \subseteq rows'.snapshots /\ (repo.stored => repo'.stored)
    BY StepDoes, Zenon DEF Keeps
  <1>2. SnapshotKnown(s)' = (s \in repo'.cached \/ (repo'.stored /\ s \in rows'.snapshots))
    BY DEF SnapshotKnown
  <1>3. s \in repo.cached \/ (repo.stored /\ s \in rows.snapshots)
    BY DEF SnapshotKnown
  <1>4. CASE repo.cached \subseteq repo'.cached
    BY <1>1, <1>2, <1>3, <1>4
  <1>5. CASE repo.stored
    BY <1>1, <1>2, <1>3, <1>5 DEF SnapshotsTied
  <1> QED BY <1>1, <1>4, <1>5
          DEF OneStep, Rests, Makes1, Branches1, Removes, Attaches, Synchronises, SyncsNot, Rebuilds, Loaded,
              Caches, Attached

(* What could be restored can be restored as long as it is held, in the next *)
(* process too, in every run in which no snapshot is cached when a storage   *)
(* is attached.                                                              *)
THEOREM RestorableAlwaysStays == Spec /\ [][~AttachLoses]_vars => RestorableStays
PROOF
  <1> DEFINE Stays == \A id \in Held(repo) : CanRestore(id) /\ id \in Held(repo)' => CanRestore(id)'
  <1>1. LibraryTyped /\ SnapshotsTied /\ [Next]_vars /\ [~AttachLoses]_vars => SnapshotsTied'
    <2>1. CASE ~AttachLoses
      BY <2>1, SnapshotsStayTied
    <2>2. CASE UNCHANGED vars
      BY <2>2 DEF vars, SnapshotsTied
    <2> QED BY <2>1, <2>2
  <1>2. LibraryTyped /\ SnapshotsTied /\ [Next]_vars /\ [~AttachLoses]_vars => [Stays]_vars
    <2> SUFFICES ASSUME LibraryTyped, SnapshotsTied, Next, ~AttachLoses,
                        NEW id \in Held(repo), CanRestore(id), id \in Held(repo)'
                 PROVE  CanRestore(id)'
      OBVIOUS
    <2>1. made'[id] = made[id]
      <3>1. \A i \in 1..Len(made) : made'[i] = made[i]
        BY StepDoes, Zenon DEF Keeps
      <3>2. id \in 1..Len(made)
        BY TypedParts DEF RepoTyped, Dated, Held
      <3> QED BY <3>1, <3>2
    <2>2. \A i \in DOMAIN made[id].snaps : SnapshotKnown(made[id].snaps[i])
      BY DEF CanRestore
    <2>3. PICK snaps : snaps = made[id].snaps
      OBVIOUS
    <2>4. ASSUME NEW i \in DOMAIN snaps
          PROVE  snaps[i] \in repo'.cached \/ (repo'.stored /\ snaps[i] \in rows'.snapshots)
      <3>1. PICK s : s = snaps[i]
        OBVIOUS
      <3>2. SnapshotKnown(s)
        BY <2>2, <2>3, <3>1
      <3>3. SnapshotKnown(s)'
        BY <3>2, SnapshotsStayKnown
      <3> QED BY <3>1, <3>3 DEF SnapshotKnown
    <2>5. made'[id].snaps = snaps
      BY <2>1, <2>3
    <2>6. \A i \in DOMAIN made'[id].snaps :
             \/ made'[id].snaps[i] \in repo'.cached
             \/ repo'.stored /\ made'[id].snaps[i] \in rows'.snapshots
      BY <2>4, <2>5
    <2> QED BY <2>6 DEF CanRestore, SnapshotKnown
  <1> HIDE DEF Stays
  <1>3. Spec /\ [][~AttachLoses]_vars => [][Stays]_vars
    BY <1>1, <1>2, AlwaysTyped, SnapshotsStartTied, PTL DEF Spec
  <1> QED BY <1>3 DEF RestorableStays, Stays

-----------------------------------------------------------------------------
(* Searches by time                                                          *)

LEMMA IndexTyped ==
    ASSUME NEW now \in Nat, NEW n, NEW index, IsIndex(index, now, n)
    PROVE  /\ Len(index) \in Nat /\ DOMAIN index = 1..Len(index)
           /\ \A i \in 1..Len(index) : index[i].time \in 0..now
           /\ Times(index) \in SUBSET (0..now)
           /\ index # << >> => Times(index) # {} /\ Len(index) # 0
PROOF
  <1>1. PICK E : E = Entries(now, n)
    OBVIOUS
  <1>2. index \in Seq(E)
    BY <1>1 DEF IsIndex
  <1>3. Len(index) \in Nat /\ DOMAIN index = 1..Len(index)
    BY <1>2, LenProperties
  <1>4. ASSUME NEW i \in 1..Len(index) PROVE index[i].time \in 0..now
    <2>1. index[i] \in E
      BY <1>2, <1>4, ElementOfSeq
    <2> QED BY <1>1, <2>1 DEF Entries
  <1>5. index # << >> => Len(index) # 0
    BY <1>2, EmptySeq
  <1>6. index # << >> => Times(index) # {}
    BY <1>3, <1>5 DEF Times
  <1> QED BY <1>3, <1>4, <1>5, <1>6 DEF Times

(* No time is nearer to t, and none as near is earlier.                      *)
NearestTime(times, t, found) ==
    /\ found \in times
    /\ \A u \in times : Abs(found - t) <= Abs(u - t) /\ (Abs(found - t) = Abs(u - t) => found <= u)

(* The last before and the first after are compared.                         *)
LEMMA TimeFound ==
    ASSUME NEW now \in Nat, NEW times \in SUBSET (0..now), times # {}, NEW t \in Int,
           NEW before, before = {u \in times : u < t}, NEW after, after = times \ before,
           NEW found, found = IF after = {} THEN Max(before)
                              ELSE IF before = {} THEN Min(after)
                              ELSE IF Nearer(t, Max(before), Min(after)) THEN Max(before) ELSE Min(after)
    PROVE  NearestTime(times, t, found)
PROOF
  <1>1. \A u \in times : u \in Int /\ Abs(u - t) = (IF u < t THEN t - u ELSE u - t)
    BY DEF Abs
  <1>2. \A u \in before : u \in times /\ u < t
    OBVIOUS
  <1>3. \A u \in after : u \in times /\ ~(u < t)
    OBVIOUS
  <1>4. \A u \in times : u \in before \/ u \in after
    OBVIOUS
  <1>5. before # {} => Max(before) \in before /\ \A u \in before : u <= Max(before)
    <2>1. before \in SUBSET (0..now)
      OBVIOUS
    <2> QED BY <2>1, LastAndFirst
  <1>6. after # {} => Min(after) \in after /\ \A u \in after : Min(after) <= u
    <2>1. after \in SUBSET (0..now)
      OBVIOUS
    <2> QED BY <2>1, LastAndFirst
  <1>7. PICK last, first : last = Max(before) /\ first = Min(after)
    OBVIOUS
  <1>8. found = IF after = {} THEN last ELSE IF before = {} THEN first
                ELSE IF t - last <= first - t THEN last ELSE first
    BY <1>7 DEF Nearer
  <1>9. CASE after = {}
    <2>1. found = last /\ last \in before /\ \A u \in before : u <= last
      BY <1>4, <1>5, <1>7, <1>8, <1>9
    <2>2. \A u \in times : u \in before
      BY <1>4, <1>9
    <2> QED BY <1>1, <1>2, <2>1, <2>2 DEF NearestTime
  <1>10. CASE before = {}
    <2>1. found = first /\ first \in after /\ \A u \in after : first <= u
      BY <1>4, <1>6, <1>7, <1>8, <1>10
    <2>2. \A u \in times : u \in after
      BY <1>4, <1>10
    <2> QED BY <1>1, <1>3, <2>1, <2>2 DEF NearestTime
  <1>11. CASE after # {} /\ before # {}
    <2>1. /\ last \in times /\ last < t /\ \A u \in before : u <= last
          /\ first \in times /\ ~(first < t) /\ \A u \in after : first <= u
          /\ found = IF t - last <= first - t THEN last ELSE first
      BY <1>2, <1>3, <1>5, <1>6, <1>7, <1>8, <1>11
    <2>2. found \in times
      BY <2>1
    <2>3. ASSUME NEW u \in times
          PROVE  Abs(found - t) <= Abs(u - t) /\ (Abs(found - t) = Abs(u - t) => found <= u)
      <3>1. /\ last \in Int /\ first \in Int /\ u \in Int
            /\ Abs(last - t) = t - last /\ Abs(first - t) = first - t
        BY <1>1, <2>1
      <3>2. CASE u < t
        <4>1. u <= last /\ Abs(u - t) = t - u
          BY <1>1, <2>1, <3>2
        <4> QED BY <2>1, <3>1, <4>1
      <3>3. CASE ~(u < t)
        <4>1. first <= u /\ Abs(u - t) = u - t
          BY <1>1, <2>1, <3>3
        <4> QED BY <2>1, <3>1, <4>1
      <3> QED BY <3>2, <3>3
    <2> QED BY <2>2, <2>3 DEF NearestTime
  <1> QED BY <1>9, <1>10, <1>11

(* find_nearest answers with an entry of that time.                          *)
LEMMA EntryFound ==
    ASSUME NEW now \in Nat, NEW n, NEW index, IsIndex(index, now, n), index # << >>, NEW t \in Int,
           NEW found, found = FindNearest(index, t)
    PROVE  NearestTime(Times(index), t, found.time)
PROOF
  <1>1. PICK before, after, time :
           /\ before = {u \in Times(index) : u < t} /\ after = Times(index) \ before
           /\ time = IF after = {} THEN Max(before)
                     ELSE IF before = {} THEN Min(after)
                     ELSE IF Nearer(t, Max(before), Min(after)) THEN Max(before) ELSE Min(after)
    OBVIOUS
  <1>2. FindNearest(index, t) = IdsAt(index, time)[1]
    BY <1>1, Zenon DEF FindNearest
  <1>3. NearestTime(Times(index), t, time)
    <2>1. PICK times : times = Times(index)
      OBVIOUS
    <2>2. times \in SUBSET (0..now) /\ times # {}
      BY <2>1, IndexTyped
    <2> QED BY <1>1, <2>1, <2>2, TimeFound
  <1>4. PICK S, kept : S = {e \in ToSet(index) : e.time = time} /\ kept = Retain(index, S)
    OBVIOUS
  <1>5. IdsAt(index, time) = kept
    BY <1>4 DEF IdsAt
  <1>6. PICK i \in 1..Len(index) : index[i].time = time
    BY <1>3, IndexTyped DEF NearestTime, Times
  <1>7. index[i] \in S
    BY <1>4, <1>6, IndexTyped DEF ToSet
  <1>8. PICK E : E = Entries(now, n) /\ index \in Seq(E)
    BY DEF IsIndex
  <1>9. kept \in Seq(E) /\ IsRetained(index, S, Len(index), kept)
    BY <1>4, <1>8, Retains
  <1>10. \E k \in 1..Len(kept) : TRUE
    BY <1>6, <1>7, <1>9 DEF IsRetained
  <1>11. 1 \in 1..Len(kept)
    BY <1>9, <1>10, LenProperties
  <1>12. kept[1] \in S
    BY <1>9, <1>11 DEF IsRetained
  <1>13. found.time = time
    BY <1>2, <1>4, <1>5, <1>12
  <1> QED BY <1>3, <1>13

(* query_range answers in the order of time.                                 *)
LEMMA RangeInOrder ==
    ASSUME NEW now \in Nat, NEW n \in Nat, NEW index, IsIndex(index, now, n), NEW from, NEW to,
           NEW e \in ToSet(QueryRange(index, from, to))
    PROVE  e.time <= FoundInRange(index, from, to).time
PROOF
  <1>1. PICK q : q = QueryRange(index, from, to)
    OBVIOUS
  <1>2. IsIndex(q, now, n)
    BY <1>1, EntriesRetained DEF QueryRange
  <1>3. PICK m \in Nat : m = Len(q) /\ DOMAIN q = 1..m /\ \A i \in 1..m : q[i].time \in 0..now
    BY <1>2, IndexTyped
  <1>4. PICK k \in 1..m : e = q[k]
    BY <1>1, <1>3 DEF ToSet
  <1>5. m \in 1..m
    BY <1>3, <1>4
  <1>6. q[k].time <= q[m].time
    <2>1. CASE k = m
      BY <1>3, <1>4, <2>1
    <2>2. CASE k # m
      <3>1. k < m
        BY <1>3, <1>4, <2>2
      <3> QED BY <1>2, <1>3, <1>5, <3>1 DEF IsIndex
    <2> QED BY <2>1, <2>2
  <1> QED BY <1>1, <1>3, <1>4, <1>6 DEF FoundInRange, Last

(* In every state, whatever the index was built or maintained by, a search   *)
(* finds an entry that none is nearer than, of two as near the earlier, and  *)
(* a range is answered with its latest.                                      *)
THEOREM AlwaysNearestInTime == Spec => []NearestInTime
PROOF
  <1>1. LibraryTyped => NearestInTime
    <2> SUFFICES ASSUME LibraryTyped, repo.index # << >>, NEW t \in 0..(MaxTime + 1)
                 PROVE  LET found  == FindNearest(repo.index, t)
                            latest == FoundInRange(repo.index, 0, t)
                            apart(e) == Abs(e.time - t)
                        IN  /\ \A e \in ToSet(repo.index) :
                                   /\ apart(found) <= apart(e)
                                   /\ apart(found) = apart(e) => found.time <= e.time
                            /\ \A e \in ToSet(QueryRange(repo.index, 0, t)) : e.time <= latest.time
      BY Zenon DEF NearestInTime
    <2>1. PICK index, now, n, found :
             /\ index = repo.index /\ now = clock /\ n = Len(made) /\ found = FindNearest(index, t)
             /\ now \in Nat /\ n \in Nat /\ IsIndex(index, now, n)
      BY TypedParts DEF RepoTyped
    <2>2. t \in Int
      OBVIOUS
    <2>3. NearestTime(Times(index), t, found.time)
      BY <2>1, <2>2, EntryFound
    <2>4. ASSUME NEW e \in ToSet(index)
          PROVE  /\ Abs(found.time - t) <= Abs(e.time - t)
                 /\ Abs(found.time - t) = Abs(e.time - t) => found.time <= e.time
      <3>1. e.time \in Times(index)
        BY <2>4 DEF ToSet, Times
      <3> QED BY <2>3, <3>1 DEF NearestTime
    <2>5. \A e \in ToSet(QueryRange(index, 0, t)) : e.time <= FoundInRange(index, 0, t).time
      BY <2>1, RangeInOrder
    <2> QED BY <2>1, <2>4, <2>5, Zenon
  <1> QED BY <1>1, AlwaysTyped, PTL

-----------------------------------------------------------------------------
(* Walks *)

(* q is seen and behind it, each once, what of the first n ids was not there *)
Joined(seen, ids, n, q) ==
    /\ Len(seen) <= Len(q)
    /\ \A i \in 1..Len(seen) : q[i] = seen[i]
    /\ ToSet(q) = ToSet(seen) \cup {ids[j] : j \in 1..n}
    /\ IsInjective(seen) => IsInjective(q)

LEMMA JoinedOn ==
    ASSUME NEW X, NEW seen \in Seq(X), NEW ids \in Seq(X), NEW i \in 1..Len(ids), NEW old \in Seq(X),
           Joined(seen, ids, i - 1, old), NEW new,
           new = IF ids[i] \in ToSet(old) THEN old ELSE Append(old, ids[i])
    PROVE  new \in Seq(X) /\ Joined(seen, ids, i, new)
PROOF
  <1>1. Len(ids) \in Nat /\ ids[i] \in X /\ i \in Nat
    BY LenProperties, ElementOfSeq
  <1>2. PICK s \in Nat, m \in Nat : /\ s = Len(seen) /\ m = Len(old)
                                    /\ DOMAIN seen = 1..s /\ DOMAIN old = 1..m
    BY LenProperties
  <1>3. {ids[j] : j \in 1..i} = {ids[j] : j \in 1..(i - 1)} \cup {ids[i]}
    <2>1. \A j \in 1..i : j = i \/ j \in 1..(i - 1)
      BY <1>1
    <2>2. \A j \in 1..(i - 1) : j \in 1..i
      BY <1>1
    <2> QED BY <2>1, <2>2
  <1>4. PICK few, many : /\ few = {ids[j] : j \in 1..(i - 1)} /\ many = {ids[j] : j \in 1..i}
                         /\ many = few \cup {ids[i]}
    BY <1>3
  <1>5. /\ s <= m /\ \A j \in 1..s : old[j] = seen[j]
        /\ ToSet(old) = ToSet(seen) \cup few
        /\ IsInjective(seen) => IsInjective(old)
    BY <1>2, <1>4 DEF Joined
  <1>6. CASE ids[i] \in ToSet(old)
    <2>1. new = old
      BY <1>6
    <2>2. ToSet(new) = ToSet(seen) \cup many
      BY <1>4, <1>5, <1>6, <2>1
    <2> QED BY <1>2, <1>4, <1>5, <2>1, <2>2 DEF Joined
  <1>7. CASE ids[i] \notin ToSet(old)
    <2>1. new = Append(old, ids[i])
      BY <1>7
    <2>2. /\ new \in Seq(X) /\ Len(new) = m + 1 /\ DOMAIN new = 1..(m + 1) /\ new[m + 1] = ids[i]
          /\ \A j \in 1..m : new[j] = old[j]
      BY <1>1, <1>2, <2>1, AppendProperties, LenProperties
    <2>3. ToSet(new) = ToSet(old) \cup {ids[i]}
      <3>1. \A j \in 1..(m + 1) : j = m + 1 \/ j \in 1..m
        BY <1>2
      <3>2. \A j \in 1..m : j \in 1..(m + 1)
        BY <1>2
      <3>3. m + 1 \in 1..(m + 1)
        BY <1>2
      <3> QED BY <1>2, <2>2, <3>1, <3>2, <3>3 DEF ToSet
    <2>4. ToSet(new) = ToSet(seen) \cup many
      BY <1>4, <1>5, <2>3
    <2>5. IsInjective(old) => IsInjective(new)
      <3> SUFFICES ASSUME IsInjective(old), NEW a \in 1..(m + 1), NEW b \in 1..(m + 1), new[a] = new[b]
                   PROVE  a = b
        BY <2>2 DEF IsInjective
      <3>1. \A j \in 1..m : old[j] # ids[i]
        BY <1>2, <1>7 DEF ToSet
      <3>2. CASE a = m + 1 /\ b = m + 1
        BY <3>2
      <3>3. CASE a \in 1..m /\ b = m + 1
        BY <2>2, <3>1, <3>3
      <3>4. CASE a = m + 1 /\ b \in 1..m
        BY <2>2, <3>1, <3>4
      <3>5. CASE a \in 1..m /\ b \in 1..m
        BY <1>2, <2>2, <3>5 DEF IsInjective
      <3>6. (a = m + 1 \/ a \in 1..m) /\ (b = m + 1 \/ b \in 1..m)
        BY <1>2
      <3> QED BY <3>2, <3>3, <3>4, <3>5, <3>6
    <2>6. s <= m + 1 /\ \A j \in 1..s : new[j] = seen[j]
      <3>1. \A j \in 1..s : j \in 1..m
        BY <1>2, <1>5
      <3> QED BY <1>2, <1>5, <2>2, <3>1
    <2> QED BY <1>2, <1>4, <1>5, <2>2, <2>4, <2>5, <2>6 DEF Joined
  <1> QED BY <1>6, <1>7

(* What is followed is joined.                                               *)
LEMMA FollowedJoins ==
    ASSUME NEW T, NEW seen \in Seq(T), NEW ids \in Seq(T)
    PROVE  Followed(seen, ids) \in Seq(T) /\ Joined(seen, ids, Len(ids), Followed(seen, ids))
PROOF
  <1> DEFINE X == Seq(T)
             N == Len(ids)
             next == [w \in X \X (1..N) |-> IF ids[w[2]] \in ToSet(w[1]) THEN w[1] ELSE Append(w[1], ids[w[2]])]
             Loop(f) == f = [i \in 0..N |-> IF i = 0 THEN seen
                                            ELSE IF ids[i] \in ToSet(f[i - 1]) THEN f[i - 1]
                                            ELSE Append(f[i - 1], ids[i])]
             joined == CHOOSE f : Loop(f)
  <1>1. N \in Nat /\ \A i \in 1..N : ids[i] \in T
    BY LenProperties, ElementOfSeq
  <1>2. seen \in X
    OBVIOUS
  <1>3. next \in LoopSteps(X, N)
    <2> SUFFICES ASSUME NEW w \in X \X (1..N)
                 PROVE  (IF ids[w[2]] \in ToSet(w[1]) THEN w[1] ELSE Append(w[1], ids[w[2]])) \in X
      BY DEF LoopSteps
    <2>1. w[1] \in Seq(T) /\ ids[w[2]] \in T
      BY <1>1
    <2> QED BY <2>1, AppendProperties
  <1>4. PICK f : IsLoop(X, N, seen, next, f)
    <2> HIDE DEF X, N, next
    <2> QED BY <1>1, <1>2, <1>3, LoopRuns
  <1>5. Loop(f)
    <2>1. f \in [0..N -> X] /\ f[0] = seen /\ \A i \in 1..N : f[i] = next[<<f[i - 1], i>>]
      BY <1>4 DEF IsLoop
    <2>2. ASSUME NEW i \in 1..N
          PROVE  f[i] = IF ids[i] \in ToSet(f[i - 1]) THEN f[i - 1] ELSE Append(f[i - 1], ids[i])
      <3>1. i - 1 \in 0..N
        BY <1>1
      <3>2. <<f[i - 1], i>> \in X \X (1..N)
        BY <2>1, <3>1
      <3> QED BY <2>1, <3>2
    <2>3. \A i \in 0..N : f[i] = IF i = 0 THEN seen ELSE IF ids[i] \in ToSet(f[i - 1]) THEN f[i - 1]
                                                    ELSE Append(f[i - 1], ids[i])
      <3>1. \A i \in 0..N : i = 0 \/ (i # 0 /\ i \in 1..N)
        BY <1>1
      <3> HIDE DEF N, X, next
      <3> QED BY <2>1, <2>2, <3>1
    <2> HIDE DEF N, X, next
    <2> QED BY <2>1, <2>3
  <1>6. joined = [i \in 0..N |-> IF i = 0 THEN seen
                                 ELSE IF ids[i] \in ToSet(joined[i - 1]) THEN joined[i - 1]
                                 ELSE Append(joined[i - 1], ids[i])]
    <2>1. Loop(joined)
      <3> HIDE DEF Loop
      <3> QED BY <1>5
    <2> HIDE DEF joined
    <2> QED BY <2>1
  <1>7. Followed(seen, ids) = joined[N]
    BY Zenon DEF Followed
  <1> HIDE DEF joined, next, Loop
  <1> DEFINE Good == {i \in 0..N : joined[i] \in Seq(T) /\ Joined(seen, ids, i, joined[i])}
  <1>8. 0 \in Good
    <2>1. joined[0] = seen /\ 0 \in 0..N
      BY <1>1, <1>6
    <2>2. Joined(seen, ids, 0, seen)
      <3>1. {ids[j] : j \in 1..0} = {}
        OBVIOUS
      <3>2. Len(seen) \in Nat
        BY LenProperties
      <3> QED BY <3>1, <3>2 DEF Joined
    <2> QED BY <2>1, <2>2
  <1>9. ASSUME NEW i \in 1..N, i - 1 \in Good PROVE i \in Good
    <2>1. PICK old, new : old = joined[i - 1] /\ new = joined[i]
      OBVIOUS
    <2>2. new = IF ids[i] \in ToSet(old) THEN old ELSE Append(old, ids[i])
      <3>1. i \in 0..N /\ i # 0
        BY <1>1
      <3>2. joined[i] = IF ids[i] \in ToSet(joined[i - 1]) THEN joined[i - 1] ELSE Append(joined[i - 1], ids[i])
        <4> HIDE DEF N
        <4> QED BY <1>6, <3>1
      <3> QED BY <2>1, <3>2
    <2>3. old \in Seq(T) /\ Joined(seen, ids, i - 1, old)
      BY <1>9, <2>1
    <2>4. new \in Seq(T) /\ Joined(seen, ids, i, new)
      BY <2>2, <2>3, JoinedOn
    <2> QED BY <1>1, <2>1, <2>4
  <1>10. N \in Good
    <2>1. \A i \in 0..N : i \in Good
      <3> HIDE DEF Good, N
      <3> QED BY <1>1, <1>8, <1>9, UpTo
    <2> HIDE DEF Good
    <2> QED BY <1>1, <2>1
  <1> QED BY <1>7, <1>10

LEMMA ParentsTyped ==
    ASSUME LibraryTyped, NEW x
    PROVE  /\ ParentsIn(x) \in Seq(1..Len(made))
           /\ x \in Held(repo) => /\ x \in 1..Len(made) /\ ParentsIn(x) = made[x].parents
                                  /\ ToSet(made[x].parents) \subseteq 1..Len(made)
           /\ x \notin Held(repo) => ToSet(ParentsIn(x)) = {}
PROOF
  <1>1. PICK n, X : n = Len(made) /\ X = 1..n
    OBVIOUS
  <1>2. x \in Held(repo) => x \in X
    BY <1>1, TypedParts DEF RepoTyped, Dated, Held
  <1>3. \A i \in X : made[i] \in Txs(n)
    BY <1>1, ElementOfSeq DEF LibraryTyped, MadeTyped
  <1>4. \A i \in X : made[i].parents \in Seq(X)
    BY <1>1, <1>3 DEF Txs
  <1>5. CASE x \in Held(repo)
    <2>1. ParentsIn(x) = made[x].parents /\ made[x].parents \in Seq(X)
      BY <1>2, <1>4, <1>5 DEF ParentsIn
    <2>2. PICK ps : ps = made[x].parents
      OBVIOUS
    <2>3. \A i \in DOMAIN ps : ps[i] \in X
      BY <2>1, <2>2, ElementOfSeq, LenProperties
    <2>4. ToSet(ps) \subseteq X
      BY <2>3 DEF ToSet
    <2> QED BY <1>1, <1>2, <1>5, <2>1, <2>2, <2>4
  <1>6. CASE x \notin Held(repo)
    <2>1. ParentsIn(x) = << >>
      BY <1>6 DEF ParentsIn
    <2>2. << >> \in Seq(X)
      OBVIOUS
    <2>3. DOMAIN << >> = {}
      OBVIOUS
    <2>4. ToSet(<< >>) = {}
      BY <2>3 DEF ToSet
    <2> QED BY <1>1, <1>6, <2>1, <2>2, <2>4
  <1> QED BY <1>5, <1>6

(* After k turns of a walk that stays in V: what is reached, each once, and  *)
(* with the first k what they lead to                                        *)
Queue(k, r, start, V) ==
    /\ IsInjective(r) /\ start \in ToSet(r) /\ ToSet(r) \subseteq V
    /\ \A j \in 1..k : j <= Len(r) => ToSet(ParentsIn(r[j])) \subseteq ToSet(r)

LEMMA QueueOn ==
    ASSUME LibraryTyped, NEW start, NEW V, \A x \in V : ToSet(ParentsIn(x)) \subseteq V,
           NEW k \in 1..Len(made), NEW old \in Seq(1..Len(made)), Queue(k - 1, old, start, V),
           NEW new, new = IF k > Len(old) THEN old ELSE Followed(old, ParentsIn(old[k]))
    PROVE  new \in Seq(1..Len(made)) /\ Queue(k, new, start, V)
PROOF
  <1>1. PICK n, X : n \in Nat /\ n = Len(made) /\ X = 1..n /\ k \in 1..n /\ old \in Seq(X)
    BY TypedParts
  <1>2. PICK m \in Nat : m = Len(old) /\ DOMAIN old = 1..m
    BY LenProperties
  <1>3. /\ IsInjective(old) /\ start \in ToSet(old) /\ ToSet(old) \subseteq V
        /\ \A j \in 1..(k - 1) : j <= m => ToSet(ParentsIn(old[j])) \subseteq ToSet(old)
    BY <1>2 DEF Queue
  <1>4. CASE k > m
    <2>1. new = old
      BY <1>2, <1>4
    <2>2. ASSUME NEW j \in 1..k, j <= m PROVE ToSet(ParentsIn(old[j])) \subseteq ToSet(old)
      <3>1. j \in 1..(k - 1)
        BY <1>1, <1>2, <1>4, <2>2
      <3> QED BY <1>3, <2>2, <3>1
    <2> QED BY <1>2, <1>3, <2>1, <2>2 DEF Queue
  <1>5. CASE ~(k > m)
    <2>1. k \in 1..m
      BY <1>1, <1>2, <1>5
    <2>2. PICK ps : ps = ParentsIn(old[k]) /\ ps \in Seq(X)
      BY <1>1, ParentsTyped
    <2>3. new = Followed(old, ps)
      BY <1>2, <1>5, <2>2
    <2>4. new \in Seq(X) /\ Joined(old, ps, Len(ps), new)
      BY <1>1, <2>2, <2>3, FollowedJoins
    <2>5. {ps[j] : j \in 1..Len(ps)} = ToSet(ps)
      BY <2>2, LenProperties DEF ToSet
    <2>6. /\ m <= Len(new) /\ \A i \in 1..m : new[i] = old[i]
          /\ ToSet(new) = ToSet(old) \cup ToSet(ps) /\ IsInjective(new)
      BY <1>2, <1>3, <2>4, <2>5 DEF Joined
    <2>7. ToSet(ps) \subseteq V
      <3>1. old[k] \in V
        BY <1>2, <1>3, <2>1 DEF ToSet
      <3> QED BY <2>2, <3>1
    <2>8. ASSUME NEW j \in 1..k PROVE ToSet(ParentsIn(new[j])) \subseteq ToSet(new)
      <3>1. j \in 1..m /\ (j = k \/ j \in 1..(k - 1))
        BY <1>2, <2>1
      <3>2. new[j] = old[j]
        BY <2>6, <3>1
      <3>3. CASE j = k
        BY <2>2, <2>6, <3>2, <3>3
      <3>4. CASE j \in 1..(k - 1)
        <4>1. j <= m
          BY <1>2, <3>1
        <4> QED BY <1>3, <2>6, <3>2, <3>4, <4>1
      <3> QED BY <3>1, <3>3, <3>4
    <2> QED BY <1>1, <1>3, <2>4, <2>6, <2>7, <2>8 DEF Queue
  <1> QED BY <1>4, <1>5

LEMMA WalkQueues ==
    ASSUME LibraryTyped, NEW start \in 1..Len(made),
           NEW V, start \in V, \A x \in V : ToSet(ParentsIn(x)) \subseteq V
    PROVE  Walk(start) \in Seq(1..Len(made)) /\ Queue(Len(made), Walk(start), start, V)
PROOF
  <1> DEFINE N == Len(made)
             X == Seq(1..N)
             next == [w \in X \X (1..N) |-> Turn(w[1], w[2])]
             Loop(f) == f = [k \in 0..N |-> IF k = 0 THEN <<start>> ELSE Turn(f[k - 1], k)]
             reached == CHOOSE f : Loop(f)
  <1>1. N \in Nat
    BY TypedParts
  <1>2. <<start>> \in X
    OBVIOUS
  <1>3. next \in LoopSteps(X, N)
    <2> SUFFICES ASSUME NEW w \in X \X (1..N) PROVE Turn(w[1], w[2]) \in X
      BY DEF LoopSteps
    <2>1. PICK T, seen, ps : T = 1..N /\ seen = w[1] /\ ps = ParentsIn(w[1][w[2]])
      OBVIOUS
    <2>2. seen \in Seq(T) /\ ps \in Seq(T)
      BY <2>1, ParentsTyped
    <2>3. Followed(seen, ps) \in Seq(T)
      BY <2>2, FollowedJoins
    <2> QED BY <2>1, <2>2, <2>3 DEF Turn
  <1>4. PICK f : IsLoop(X, N, <<start>>, next, f)
    <2>1. PICK one : one = <<start>> /\ one \in X
      BY <1>2
    <2>2. \E f : IsLoop(X, N, one, next, f)
      <3> HIDE DEF X, N, next
      <3> QED BY <1>1, <1>3, <2>1, LoopRuns
    <2> HIDE DEF X, N, next
    <2> QED BY <2>1, <2>2
  <1>5. Loop(f)
    <2>1. f \in [0..N -> X] /\ f[0] = <<start>> /\ \A i \in 1..N : f[i] = next[<<f[i - 1], i>>]
      BY <1>4 DEF IsLoop
    <2>2. ASSUME NEW k \in 1..N
          PROVE  f[k] = Turn(f[k - 1], k)
      <3>1. k - 1 \in 0..N
        BY <1>1
      <3>2. <<f[k - 1], k>> \in X \X (1..N)
        BY <2>1, <3>1
      <3> QED BY <2>1, <3>2
    <2>3. \A k \in 0..N : f[k] = IF k = 0 THEN <<start>> ELSE Turn(f[k - 1], k)
      <3>1. \A k \in 0..N : k = 0 \/ (k # 0 /\ k \in 1..N)
        BY <1>1
      <3> HIDE DEF N, X, next
      <3> QED BY <2>1, <2>2, <3>1
    <2> HIDE DEF N, X, next
    <2> QED BY <2>1, <2>3
  <1>6. reached = [k \in 0..N |-> IF k = 0 THEN <<start>> ELSE Turn(reached[k - 1], k)]
    <2>1. Loop(reached)
      <3> HIDE DEF Loop
      <3> QED BY <1>5
    <2> HIDE DEF reached
    <2> QED BY <2>1
  <1>7. Walk(start) = reached[N]
    BY Zenon DEF Walk
  <1> HIDE DEF reached, next, Loop
  <1> DEFINE Good == {k \in 0..N : reached[k] \in X /\ Queue(k, reached[k], start, V)}
  <1>8. 0 \in Good
    <2>1. PICK one : one = <<start>> /\ one = reached[0] /\ 0 \in 0..N /\ one \in X
      <3>1. 0 \in 0..N
        BY <1>1
      <3>2. reached[0] = <<start>>
        <4> HIDE DEF N
        <4> QED BY <1>6, <3>1
      <3> HIDE DEF X
      <3> QED BY <1>2, <3>1, <3>2
    <2>2. DOMAIN one = {1} /\ one[1] = start
      BY <2>1
    <2>3. ToSet(one) = {start} /\ IsInjective(one)
      BY <2>2 DEF ToSet, IsInjective
    <2>4. Queue(0, one, start, V)
      BY <2>3 DEF Queue
    <2> QED BY <2>1, <2>4
  <1>9. ASSUME NEW k \in 1..N, k - 1 \in Good PROVE k \in Good
    <2>1. PICK old, new : old = reached[k - 1] /\ new = reached[k]
      OBVIOUS
    <2>2. new = IF k > Len(old) THEN old ELSE Followed(old, ParentsIn(old[k]))
      <3>1. k \in 0..N /\ k # 0
        BY <1>1
      <3>2. reached[k] = Turn(reached[k - 1], k)
        <4> HIDE DEF N
        <4> QED BY <1>6, <3>1
      <3> QED BY <2>1, <3>2 DEF Turn
    <2>3. old \in Seq(1..Len(made)) /\ Queue(k - 1, old, start, V)
      BY <1>9, <2>1
    <2>4. new \in X /\ Queue(k, new, start, V)
      BY <2>2, <2>3, QueueOn
    <2> QED BY <1>1, <2>1, <2>4
  <1>10. N \in Good
    <2>1. \A k \in 0..N : k \in Good
      <3> HIDE DEF Good, N
      <3> QED BY <1>1, <1>8, <1>9, UpTo
    <2> HIDE DEF Good
    <2> QED BY <1>1, <2>1
  <1> QED BY <1>7, <1>10

(* A search visits where it starts, and what an edge leads to from there ... *)
LEMMA VisitedStep ==
    ASSUME NEW edges, NEW x, NEW y \in Visited(edges, x), NEW z, <<y, z>> \in edges
    PROVE  x \in Visited(edges, x) /\ z \in Visited(edges, x)
PROOF
  <1> DEFINE ends == {x} \cup {e[1] : e \in edges} \cup {e[2] : e \in edges}
  <1>1. PICK e \in edges : e = <<y, z>>
    OBVIOUS
  <1>2. e[1] = y /\ e[2] = z
    BY <1>1
  <1>3. z \in ends
    BY <1>2
  <1>4. ASSUME NEW S \in SUBSET ends, x \in S, \A f \in edges : f[1] \in S => f[2] \in S
        PROVE  z \in S
    <2>1. y \in S
      BY <1>4 DEF Visited
    <2> QED BY <1>2, <1>4, <2>1
  <1> QED BY <1>3, <1>4 DEF Visited

(* ... and stays in what holds its start and is closed under edges.          *)
LEMMA VisitedStays ==
    ASSUME NEW edges, NEW x, NEW S, x \in S, \A e \in edges : e[1] \in S => e[2] \in S
    PROVE  Visited(edges, x) \subseteq S
PROOF
  <1> DEFINE ends == {x} \cup {e[1] : e \in edges} \cup {e[2] : e \in edges}
             inside == S \cap ends
  <1>1. inside \in SUBSET ends /\ x \in inside
    OBVIOUS
  <1>2. \A e \in edges : e[1] \in inside => e[2] \in inside
    OBVIOUS
  <1>3. Visited(edges, x) \subseteq inside
    BY <1>1, <1>2 DEF Visited
  <1> QED BY <1>3

(* No more numbers than places for them.                                     *)
LEMMA Fits ==
    ASSUME NEW a \in Nat, NEW b \in Nat, NEW f \in [1..a -> 1..b],
           \A i, j \in 1..a : f[i] = f[j] => i = j
    PROVE  a <= b
PROOF
  <1>1. /\ IsFiniteSet(1..a) /\ Cardinality(1..a) = a
        /\ IsFiniteSet(1..b) /\ Cardinality(1..b) = b
    BY FS_Interval
  <1>2. SUFFICES ASSUME b < a PROVE FALSE
    OBVIOUS
  <1>3. PICK S, T, g : S = 1..a /\ T = 1..b /\ g = f
    OBVIOUS
  <1>4. g \in [S -> T] /\ IsFiniteSet(S) /\ IsFiniteSet(T) /\ Cardinality(T) < Cardinality(S)
    BY <1>1, <1>2, <1>3
  <1>5. \E x, y \in S : x # y /\ g[x] = g[y]
    BY <1>4, FS_PigeonHole
  <1> QED BY <1>3, <1>5

(* A walk of as many turns as there are checkpoints reaches every ancestor,  *)
(* once.                                                                     *)
LEMMA WalkIsWhole ==
    ASSUME LibraryTyped, NEW start \in 1..Len(made)
    PROVE  /\ Walk(start) \in Seq(1..Len(made)) /\ Len(Walk(start)) <= Len(made)
           /\ ToSet(Walk(start)) = Reached(start) /\ IsInjective(Walk(start))
PROOF
  <1>1. PICK n, X : n \in Nat /\ n = Len(made) /\ X = 1..n /\ Ids = X
    BY TypedParts
  <1>2. PICK E, V, w : /\ E = {e \in Held(repo) \X Ids : e[2] \in ToSet(made[e[1]].parents)}
                       /\ V = Visited(E, start) /\ w = Walk(start)
    OBVIOUS
  <1>3. V = Reached(start)
    BY <1>2 DEF Reached
  <1>4. start \in V
    BY <1>2 DEF Visited
  <1>5. ASSUME NEW x \in V, NEW p \in ToSet(ParentsIn(x)) PROVE p \in V
    <2>1. x \in Held(repo)
      BY <1>5, ParentsTyped
    <2>2. p \in ToSet(made[x].parents) /\ p \in X
      BY <1>1, <2>1, ParentsTyped
    <2>3. <<x, p>> \in E
      BY <1>1, <1>2, <2>1, <2>2
    <2> QED BY <1>2, <2>3, VisitedStep
  <1>6. \A x \in V : ToSet(ParentsIn(x)) \subseteq V
    BY <1>5
  <1>7. w \in Seq(X) /\ Queue(n, w, start, V)
    BY <1>1, <1>2, <1>4, <1>6, WalkQueues
  <1>8. PICK m \in Nat : m = Len(w) /\ DOMAIN w = 1..m /\ w \in [1..m -> X]
    BY <1>7, LenProperties
  <1>9. IsInjective(w) /\ start \in ToSet(w) /\ ToSet(w) \subseteq V
    BY <1>7 DEF Queue
  <1>10. m <= n
    <2>1. \A i, j \in 1..m : w[i] = w[j] => i = j
      BY <1>8, <1>9 DEF IsInjective
    <2> QED BY <1>1, <1>8, <2>1, Fits
  <1>11. ASSUME NEW e \in E, e[1] \in ToSet(w) PROVE e[2] \in ToSet(w)
    <2>1. PICK j \in 1..m : e[1] = w[j]
      BY <1>8, <1>11 DEF ToSet
    <2>2. ToSet(ParentsIn(w[j])) \subseteq ToSet(w)
      <3>1. \A k \in 1..n : k <= Len(w) => ToSet(ParentsIn(w[k])) \subseteq ToSet(w)
        BY <1>7, Zenon DEF Queue
      <3>2. j \in 1..n /\ j <= Len(w)
        BY <1>1, <1>8, <1>10
      <3> QED BY <3>1, <3>2
    <2>3. e[1] \in Held(repo) /\ e[2] \in ToSet(made[e[1]].parents)
      BY <1>2
    <2>4. ParentsIn(e[1]) = made[e[1]].parents
      BY <2>3, ParentsTyped
    <2> QED BY <2>1, <2>2, <2>3, <2>4
  <1>12. V \subseteq ToSet(w)
    BY <1>2, <1>9, <1>11, VisitedStays
  <1> QED BY <1>1, <1>2, <1>3, <1>7, <1>8, <1>9, <1>10, <1>12

(* A log of as many is that walk without what is gone.                       *)
LEMMA LogIsWhole ==
    ASSUME LibraryTyped, NEW start \in 1..Len(made), NEW log, log = LogFrom(start, Len(made))
    PROVE  /\ log \in Seq(1..Len(made))
           /\ ToSet(log) = Reached(start) \cap Held(repo) /\ IsInjective(log)
PROOF
  <1>1. PICK n, X : n \in Nat /\ n = Len(made) /\ X = 1..n
    BY TypedParts
  <1>2. PICK w, H, kept : w = Walk(start) /\ H = Held(repo) /\ kept = Retain(w, H)
    OBVIOUS
  <1>3. w \in Seq(X) /\ Len(w) <= n /\ ToSet(w) = Reached(start) /\ IsInjective(w)
    BY <1>1, <1>2, WalkIsWhole
  <1>4. kept \in Seq(X) /\ IsRetained(w, H, Len(w), kept)
    BY <1>2, <1>3, Retains
  <1>5. PICK m \in Nat, k \in Nat : m = Len(w) /\ k = Len(kept) /\ DOMAIN w = 1..m /\ DOMAIN kept = 1..k
    BY <1>3, <1>4, LenProperties
  <1>6. PICK at \in [1..Len(kept) -> 1..Len(w)] :
           /\ \A j \in 1..Len(kept) : kept[j] = w[at[j]] /\ w[at[j]] \in H
           /\ \A i, j \in 1..Len(kept) : i < j => at[i] < at[j]
           /\ \A i \in 1..Len(w) : w[i] \in H => \E j \in 1..Len(kept) : at[j] = i
    BY <1>4, Zenon DEF IsRetained
  <1>7. at \in [1..k -> 1..m]
    BY <1>5
  <1>8. \A j \in 1..k : at[j] \in 1..m /\ at[j] \in Nat
    BY <1>5, <1>7
  <1>9. \A j \in 1..k : kept[j] = w[at[j]] /\ w[at[j]] \in H
    BY <1>5, <1>6, Zenon
  <1>10. \A i, j \in 1..k : i < j => at[i] < at[j]
    BY <1>5, <1>6, Zenon
  <1>11. \A i \in 1..m : w[i] \in H => \E j \in 1..k : at[j] = i
    BY <1>5, <1>6, Zenon
  <1>12. ASSUME NEW i \in 1..k, NEW j \in 1..k, at[i] = at[j] PROVE i = j
    <2>1. at[i] \in Nat /\ at[j] \in Nat
      BY <1>8
    <2>2. ~(at[i] < at[j]) /\ ~(at[j] < at[i])
      BY <1>12, <2>1
    <2>3. ~(i < j) /\ ~(j < i)
      BY <1>10, <2>2
    <2> QED BY <1>5, <2>3
  <1>13. k <= m
    BY <1>5, <1>12, <1>7, Fits
  <1>14. log = kept
    <2>1. log = SubSeq(kept, 1, IF n < k THEN n ELSE k)
      BY <1>1, <1>2, <1>5, Zenon DEF LogFrom
    <2>2. ~(n < k)
      BY <1>1, <1>3, <1>5, <1>13
    <2>3. SubSeq(kept, 1, Len(kept)) = kept
      BY <1>4, SubSeqFull
    <2> QED BY <1>5, <2>1, <2>2, <2>3
  <1>15. ToSet(kept) = ToSet(w) \cap H
    <2>1. ASSUME NEW x \in ToSet(kept) PROVE x \in ToSet(w) \cap H
      <3>1. PICK j \in 1..k : x = kept[j]
        BY <1>5 DEF ToSet
      <3> QED BY <1>5, <1>8, <1>9, <3>1 DEF ToSet
    <2>2. ASSUME NEW x \in ToSet(w), x \in H PROVE x \in ToSet(kept)
      <3>1. PICK i \in 1..m : x = w[i]
        BY <1>5 DEF ToSet
      <3>2. PICK j \in 1..k : at[j] = i
        BY <1>11, <2>2, <3>1
      <3> QED BY <1>5, <1>9, <3>1, <3>2 DEF ToSet
    <2> QED BY <2>1, <2>2
  <1>16. IsInjective(kept)
    <2> SUFFICES ASSUME NEW i \in 1..k, NEW j \in 1..k, kept[i] = kept[j] PROVE i = j
      BY <1>5 DEF IsInjective
    <2>1. w[at[i]] = w[at[j]] /\ at[i] \in 1..m /\ at[j] \in 1..m
      BY <1>8, <1>9
    <2>2. at[i] = at[j]
      BY <1>3, <1>5, <2>1 DEF IsInjective
    <2> QED BY <1>12, <2>2
  <1> QED BY <1>1, <1>2, <1>3, <1>4, <1>14, <1>15, <1>16

(* In every state a log that is long enough holds every ancestor that is     *)
(* held, once, and the way to a checkpoint is found exactly when it is one.  *)
THEOREM LogsAlwaysWhole == Spec => []LogsWholeHistory
PROOF
  <1>1. LibraryTyped => LogsWholeHistory
    <2> SUFFICES ASSUME LibraryTyped, HasCurrent(repo)
                 PROVE  LET log  == LogFrom(HeadOf(repo), Len(made))
                            past == Reached(HeadOf(repo)) \cap Held(repo)
                        IN  /\ ToSet(log) = past
                            /\ IsInjective(log)
                            /\ \A id \in Ids : (AncestorsTo(id) # << >>) = (id \in past)
      BY Zenon DEF LogsWholeHistory
    <2>1. PICK start, log, past :
             /\ start = HeadOf(repo) /\ log = LogFrom(start, Len(made)) /\ past = Reached(start) \cap Held(repo)
      OBVIOUS
    <2>2. start \in 1..Len(made)
      BY <2>1, HeadsAreMade DEF HasCurrent, HeadOf
    <2>3. log \in Seq(1..Len(made)) /\ ToSet(log) = past /\ IsInjective(log)
      BY <2>1, <2>2, LogIsWhole
    <2>4. PICK m \in Nat : m = Len(log) /\ DOMAIN log = 1..m
      BY <2>3, LenProperties
    <2>5. ASSUME NEW id \in Ids PROVE (AncestorsTo(id) # << >>) = (id \in past)
      <3>1. PICK at : at = {i \in DOMAIN log : log[i] = id}
        OBVIOUS
      <3>2. AncestorsTo(id) = IF at = {} THEN << >> ELSE SubSeq(log, 1, CHOOSE i \in at : TRUE)
        BY <2>1, <3>1 DEF AncestorsTo
      <3>3. at = {} <=> id \notin past
        BY <2>3, <3>1 DEF ToSet
      <3>4. CASE at = {}
        BY <3>2, <3>3, <3>4
      <3>5. CASE at # {}
        <4>1. PICK i : i = CHOOSE j \in at : TRUE
          OBVIOUS
        <4>2. i \in 1..m
          BY <2>4, <3>1, <3>5, <4>1
        <4>3. PICK X, q : X = 1..Len(made) /\ q = SubSeq(log, 1, i)
          OBVIOUS
        <4>4. \A j \in 1..i : log[j] \in X
          BY <2>3, <2>4, <4>2, <4>3, ElementOfSeq
        <4>5. q \in Seq(X) /\ Len(q) = i
          BY <4>2, <4>3, <4>4, SubSeqProperties
        <4>6. q # << >>
          BY <4>2, <4>5, EmptySeq
        <4> QED BY <3>2, <3>3, <3>5, <4>1, <4>3, <4>6
      <3> QED BY <3>4, <3>5
    <2> QED BY <2>1, <2>3, <2>5, Zenon
  <1> QED BY <1>1, AlwaysTyped, PTL

-----------------------------------------------------------------------------
(* The graph *)

IsDag(d) ==
    /\ d = [edges |-> d.edges, gens |-> d.gens]
    /\ d.edges \subseteq Nodes(d) \X Nodes(d)
    /\ d.gens \in [Nodes(d) -> Nat]
    /\ \A e \in d.edges : d.gens[e[1]] < d.gens[e[2]]

IsLeaf(d, c) == \A e \in d.edges : e[1] # c

-----------------------------------------------------------------------------
(* Along a search from x, every node after x is of a later generation.       *)
LEMMA LaterGenerations ==
    ASSUME NEW d, IsDag(d), NEW x \in Nodes(d), NEW y \in Visited(d.edges, x), y # x
    PROVE  d.gens[x] < d.gens[y]
<1> DEFINE ends == {x} \cup {e[1] : e \in d.edges} \cup {e[2] : e \in d.edges}
           later == {z \in ends : z = x \/ d.gens[x] < d.gens[z]}
<1>1. ends \subseteq Nodes(d)
  BY DEF IsDag
<1>2. ASSUME NEW e \in d.edges, e[1] \in later
      PROVE  e[2] \in later
  <2>1. e[1] \in Nodes(d) /\ e[2] \in Nodes(d) /\ d.gens[e[1]] < d.gens[e[2]]
    BY DEF IsDag
  <2>2. d.gens[x] \in Nat /\ d.gens[e[1]] \in Nat /\ d.gens[e[2]] \in Nat
    BY <2>1 DEF IsDag
  <2>3. d.gens[x] < d.gens[e[2]]
    BY <1>2, <2>1, <2>2
  <2> QED BY <2>3
<1>3. later \in SUBSET ends /\ x \in later
  OBVIOUS
<1>4. y \in later
  BY <1>2, <1>3 DEF Visited
<1> QED BY <1>4

(* add_node keeps a graph a graph, and a new node is a leaf. *)
LEMMA AddNodeKeeps ==
    ASSUME NEW d, IsDag(d), NEW c, c \notin Nodes(d)
    PROVE  /\ IsDag(AddNode(d, c)) /\ IsLeaf(AddNode(d, c), c)
           /\ Nodes(AddNode(d, c)) = Nodes(d) \cup {c}
<1> DEFINE new == AddNode(d, c)
<1>1. new = [edges |-> d.edges, gens |-> [m \in Nodes(d) \cup {c} |-> Gen(d, m)]]
  BY DEF AddNode, IsDag
<1>2. Nodes(new) = Nodes(d) \cup {c} /\ new.edges = d.edges
  BY <1>1 DEF Nodes
<1>3. \A m \in Nodes(d) : new.gens[m] = d.gens[m]
  BY <1>1 DEF Gen
<1>4. new.gens \in [Nodes(new) -> Nat]
  BY <1>1, <1>2 DEF Gen, IsDag
<1>5. \A e \in d.edges : e[1] \in Nodes(d) /\ e[2] \in Nodes(d)
  BY DEF IsDag
<1>6. IsLeaf(new, c)
  BY <1>2, <1>5 DEF IsLeaf
<1>7. \A e \in new.edges : new.gens[e[1]] < new.gens[e[2]]
  BY <1>2, <1>3, <1>5 DEF IsDag
<1>8. new = [edges |-> new.edges, gens |-> new.gens]
  BY <1>1
<1>9. new.edges \subseteq Nodes(new) \X Nodes(new)
  BY <1>2 DEF IsDag
<1> HIDE DEF new
<1>10. IsDag(new)
  BY <1>4, <1>7, <1>8, <1>9 DEF IsDag
<1> QED BY <1>2, <1>6, <1>10 DEF new

(* An edge from another node to a leaf keeps a graph a graph, and it a leaf. *)
LEMMA AddEdgeKeeps ==
    ASSUME NEW d, IsDag(d), NEW p \in Nodes(d), NEW c \in Nodes(d), p # c, IsLeaf(d, c)
    PROVE  /\ IsDag(AddEdge(d, p, c)) /\ IsLeaf(AddEdge(d, p, c), c)
           /\ Nodes(AddEdge(d, p, c)) = Nodes(d)
<1> DEFINE new == AddEdgeUnchecked(d, p, c)
           below == IF Gen(d, p) + 1 > Gen(d, c) THEN Gen(d, p) + 1 ELSE Gen(d, c)
<1>1. new = [edges |-> d.edges \cup {<<p, c>>},
             gens |-> [m \in Nodes(d) |-> IF m = c THEN below ELSE Gen(d, m)]]
  <2>1. Nodes(d) \cup {p, c} = Nodes(d)
    OBVIOUS
  <2> QED BY <2>1 DEF AddEdgeUnchecked
<1>2. Nodes(new) = Nodes(d) /\ new.edges = d.edges \cup {<<p, c>>}
  BY <1>1 DEF Nodes
<1>3. d.gens[p] \in Nat /\ d.gens[c] \in Nat /\ Gen(d, p) = d.gens[p] /\ Gen(d, c) = d.gens[c]
  BY DEF IsDag, Gen
<1>4. below \in Nat /\ d.gens[p] < below /\ d.gens[c] <= below
  BY <1>3
<1> HIDE DEF below
<1>5. new.gens[c] = below /\ \A m \in Nodes(d) : m # c => new.gens[m] = d.gens[m]
  BY <1>1 DEF Gen
<1>6. new.gens \in [Nodes(new) -> Nat]
  <2>1. \A m \in Nodes(d) : (IF m = c THEN below ELSE Gen(d, m)) \in Nat
    BY <1>4 DEF Gen, IsDag
  <2>2. new.gens = [m \in Nodes(d) |-> IF m = c THEN below ELSE Gen(d, m)]
    BY <1>1
  <2> HIDE DEF new
  <2> QED BY <1>2, <2>1, <2>2
<1>7. ASSUME NEW e \in new.edges
      PROVE  new.gens[e[1]] < new.gens[e[2]] /\ e[1] # c
  <2>1. CASE e = <<p, c>>
    BY <2>1, <1>4, <1>5
  <2>2. CASE e \in d.edges
    <3>1. /\ e[1] \in Nodes(d) /\ e[2] \in Nodes(d) /\ e[1] # c
          /\ d.gens[e[1]] < d.gens[e[2]] /\ d.gens[e[1]] \in Nat /\ d.gens[e[2]] \in Nat
      BY <2>2 DEF IsDag, IsLeaf
    <3>2. CASE e[2] = c
      BY <3>1, <3>2, <1>3, <1>4, <1>5
    <3>3. CASE e[2] # c
      BY <3>1, <3>3, <1>5
    <3> QED BY <3>2, <3>3
  <2> QED BY <1>2, <2>1, <2>2
<1>8. new.edges \subseteq Nodes(new) \X Nodes(new)
  BY <1>2 DEF IsDag
<1>9. new = [edges |-> new.edges, gens |-> new.gens]
  BY <1>1
<1> HIDE DEF new
<1>10. IsDag(new) /\ IsLeaf(new, c)
  BY <1>6, <1>7, <1>8, <1>9 DEF IsDag, IsLeaf
<1>11. AddEdge(d, p, c) = d \/ AddEdge(d, p, c) = new
  BY DEF AddEdge, new
<1> QED BY <1>2, <1>10, <1>11

(* remove_node keeps a graph a graph. *)
LEMMA RemoveNodeKeeps ==
    ASSUME NEW d, IsDag(d), NEW c
    PROVE  IsDag(RemoveNode(d, c)) /\ Nodes(RemoveNode(d, c)) = Nodes(d) \ {c}
<1> DEFINE new == RemoveNode(d, c)
<1>1. new = [edges |-> {e \in d.edges : c \notin {e[1], e[2]}},
             gens |-> [m \in Nodes(d) \ {c} |-> d.gens[m]]]
  BY DEF RemoveNode
<1>2. Nodes(new) = Nodes(d) \ {c}
  BY <1>1 DEF Nodes
<1>3. new.gens \in [Nodes(new) -> Nat]
  <2>1. \A m \in Nodes(d) \ {c} : d.gens[m] \in Nat
    BY DEF IsDag
  <2>2. new.gens = [m \in Nodes(new) |-> d.gens[m]]
    <3>1. new.gens = [m \in Nodes(d) \ {c} |-> d.gens[m]]
      BY <1>1
    <3> HIDE DEF new
    <3> QED BY <1>2, <3>1
  <2> QED BY <1>2, <2>1, <2>2
<1>4. ASSUME NEW e \in new.edges
      PROVE  e \in Nodes(new) \X Nodes(new) /\ new.gens[e[1]] < new.gens[e[2]]
  <2>1. e \in d.edges /\ e[1] # c /\ e[2] # c
    BY <1>1
  <2>2. e \in Nodes(d) \X Nodes(d) /\ d.gens[e[1]] < d.gens[e[2]]
    BY <2>1 DEF IsDag
  <2>3. new.gens[e[1]] = d.gens[e[1]] /\ new.gens[e[2]] = d.gens[e[2]]
    BY <1>1, <2>1, <2>2
  <2> QED BY <1>2, <2>1, <2>2, <2>3
<1>5. new = [edges |-> new.edges, gens |-> new.gens]
  BY <1>1
<1> HIDE DEF new
<1>6. IsDag(new)
  BY <1>3, <1>4, <1>5 DEF IsDag
<1> QED BY <1>2, <1>6 DEF new

-----------------------------------------------------------------------------
Grown == IsDag(dag) /\ Nodes(dag) = known

LEMMA GrowsFirst == GrowthInit => Grown
  BY DEF GrowthInit, Grown, IsDag, EmptyDag, Nodes

LEMMA GrowsOn == Grown /\ [GrowthNext]_growthVars => Grown'
<1> SUFFICES ASSUME Grown, [GrowthNext]_growthVars PROVE Grown'
  OBVIOUS
<1> USE DEF Grown
<1>1. ASSUME NEW c \in Checkpoints, AddRoot(c) PROVE Grown'
  <2>1. IsDag(EmptyDag) /\ Nodes(EmptyDag) = {}
    BY DEF IsDag, EmptyDag, Nodes
  <2>2. IsDag(AddNode(EmptyDag, c)) /\ Nodes(AddNode(EmptyDag, c)) = {c}
    BY <2>1, AddNodeKeeps
  <2> QED BY <1>1, <2>2 DEF AddRoot, Record
<1>2. ASSUME NEW c \in Checkpoints \ known, NEW head \in known, AddCommit(c, head) PROVE Grown'
  <2> DEFINE added == AddNode(dag, c)
  <2>1. IsDag(added) /\ IsLeaf(added, c) /\ Nodes(added) = known \cup {c}
    BY AddNodeKeeps
  <2> HIDE DEF added
  <2>2. IsDag(AddEdge(added, head, c)) /\ Nodes(AddEdge(added, head, c)) = known \cup {c}
    BY <2>1, AddEdgeKeeps
  <2> QED BY <1>2, <2>2 DEF AddCommit, Record, added
<1>3. ASSUME NEW c \in Checkpoints \ known, NEW head \in known, NEW source \in known,
             AddMerge(c, head, source)
      PROVE  Grown'
  <2> DEFINE added == AddNode(dag, c)
             linked == AddEdge(added, head, c)
  <2>1. IsDag(added) /\ IsLeaf(added, c) /\ Nodes(added) = known \cup {c}
    BY AddNodeKeeps
  <2>2. IsDag(linked) /\ IsLeaf(linked, c) /\ Nodes(linked) = known \cup {c}
    <3> HIDE DEF added
    <3> QED BY <2>1, AddEdgeKeeps
  <2> HIDE DEF linked
  <2>3. IsDag(AddEdge(linked, source, c)) /\ Nodes(AddEdge(linked, source, c)) = known \cup {c}
    BY <2>2, AddEdgeKeeps
  <2> QED BY <1>3, <2>3 DEF AddMerge, Record, linked
<1>4. ASSUME NEW c \in known, Collect(c) PROVE Grown'
  BY <1>4, RemoveNodeKeeps DEF Collect
<1>5. CASE UNCHANGED growthVars
  BY <1>5 DEF growthVars, IsDag, Nodes
<1> QED BY <1>1, <1>2, <1>3, <1>4, <1>5 DEF GrowthNext

LEMMA AlwaysGrown == GrowthSpec => []Grown
  BY GrowsFirst, GrowsOn, PTL DEF GrowthSpec

(* Generations grow along every edge, whatever is committed, merged, removed *)
(* and made again.                                                           *)
THEOREM GenerationsAlwaysGrow == GrowthSpec => []GenerationsGrow
<1>1. Grown => GenerationsGrow
  BY DEF Grown, IsDag, GenerationsGrow
<1> QED BY <1>1, AlwaysGrown, PTL

(* is_ancestor is exact on every graph the repository can grow. *)
THEOREM AncestryAlwaysExact == GrowthSpec => []AncestryExact
<1>1. Grown => AncestryExact
  <2> SUFFICES ASSUME Grown, NEW x \in Nodes(dag), NEW y \in Nodes(dag),
                      y \in Visited(dag.edges, x), x # y
               PROVE  IsAncestor(dag, x, y)
    BY DEF AncestryExact, IsAncestor
  <2>1. dag.gens[x] < dag.gens[y]
    BY LaterGenerations DEF Grown
  <2> QED BY <2>1 DEF IsAncestor
<1> QED BY <1>1, AlwaysGrown, PTL

(* The graph never gets a cycle. *)
THEOREM AlwaysAcyclic == GrowthSpec => []Acyclic
<1>1. Grown => Acyclic
  <2> SUFFICES ASSUME Grown, NEW e \in dag.edges, e[1] \in Visited(dag.edges, e[2])
               PROVE  FALSE
    BY DEF Acyclic
  <2>1. e[1] \in Nodes(dag) /\ e[2] \in Nodes(dag) /\ dag.gens[e[1]] < dag.gens[e[2]]
    BY DEF Grown, IsDag
  <2>2. dag.gens[e[1]] \in Nat /\ dag.gens[e[2]] \in Nat
    BY <2>1 DEF Grown, IsDag
  <2>3. e[1] # e[2]
    BY <2>1, <2>2
  <2>4. dag.gens[e[2]] < dag.gens[e[1]]
    BY <2>1, <2>3, LaterGenerations DEF Grown
  <2> QED BY <2>1, <2>2, <2>4
<1> QED BY <1>1, AlwaysGrown, PTL
================================================================================
