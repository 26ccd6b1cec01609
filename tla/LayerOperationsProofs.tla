------------------------ MODULE LayerOperationsProofs ------------------------
(***************************************************************************)
(* What the operators of TextMerge and LayerStore return, and what the     *)
(* operations of src/layered do to the tables, for every value of the      *)
(* constants.                                                              *)
(*                                                                         *)
(* No storage call leaves the tables other than well formed.               *)
(* The chain of a snapshot is that of its parent and one delta more, and   *)
(* the delta carries the difference to the parent's text: where every      *)
(* delta of the chain is returned, the text read back is the one the edit  *)
(* or the merge computed.  No operation makes the tables other than well   *)
(* formed, moves a baseline, or makes a snapshot of a layer out of one     *)
(* that is not of a neighbour.                                             *)
(***************************************************************************)
EXTENDS LayerOperations, SequenceTheorems, WellFoundedInduction, TLAPS

-----------------------------------------------------------------------------
(* The operators of TextMerge and LayerStore *)

(* A non-empty set of positions in a sequence has a last one, so LastOf      *)
(* picks it.                                                                 *)
LEMMA LastOfIsLast ==
    ASSUME NEW n \in Nat, NEW S \in SUBSET (1..n), S # {}
    PROVE  LastOf(S) \in S /\ \A j \in S : j <= LastOf(S)
PROOF
  <1> DEFINE T == {n - i : i \in S}
  <1>1. T \subseteq Nat /\ T # {}
    <2>1. \A i \in S : n - i \in Nat
      OBVIOUS
    <2> QED BY <2>1
  <1>2. PICK x \in T : \A y \in T : ~ (<<y, x>> \in OpToRel(<, Nat))
    BY <1>1, NatLessThanWellFounded, WFMin, Zenon
  <1>3. \A y \in T : ~ (y < x)
    BY <1>1, <1>2 DEF OpToRel
  <1>4. PICK i \in S : x = n - i
    BY <1>2
  <1>5. \A j \in S : j <= i
    <2> SUFFICES ASSUME NEW j \in S PROVE j <= i
      OBVIOUS
    <2>1. n - j \in T
      OBVIOUS
    <2>2. ~ (n - j < n - i)
      BY <1>3, <1>4, <2>1
    <2> QED BY <2>2
  <1> QED BY <1>5 DEF LastOf

(* A text rebuilt from a chain of deltas is a text.                          *)
LEMMA ChainTextType ==
    ASSUME NEW chain \in Seq(Deltas)
    PROVE  ChainText(chain) \in Text
PROOF
  <1> SUFFICES ASSUME NEW r \in Regions, Writes(chain, r) # {}
               PROVE  chain[LastOf(Writes(chain, r))].diff[r] \in Lines
    BY InitAssumption DEF ChainText, Text
  <1>1. Writes(chain, r) \in SUBSET (1..Len(chain)) /\ Len(chain) \in Nat
    BY DEF Writes
  <1>2. LastOf(Writes(chain, r)) \in Writes(chain, r)
    BY <1>1, LastOfIsLast
  <1>3. PICK i \in 1..Len(chain) :
            i = LastOf(Writes(chain, r)) /\ chain[i].diff[r] # Keep
    BY <1>1, <1>2 DEF Writes
  <1>4. chain[i] \in Deltas
    BY <1>3
  <1>5. chain[i].diff[r] \in Lines \cup {Keep}
    BY <1>4 DEF Deltas, Diff
  <1> QED BY <1>3, <1>5

LEMMA RowType ==
    ASSUME NEW d \in Databases, NEW id \in Stored(d)
    PROVE  /\ d.snaps[id] \in Snapshots
           /\ d.snaps[id].deltas \in Seq(Deltas)
           /\ d.snaps[id].parents \in Seq(Nat)
PROOF
  <1>1. d.snaps[id] \in Snapshots
    BY DEF Databases, Stored
  <1> QED BY <1>1 DEF Snapshots

LEMMA TextOfType ==
    ASSUME NEW d \in Databases, NEW id \in Stored(d)
    PROVE  TextOf(d, id) \in Text
PROOF
  BY RowType, ChainTextType DEF TextOf

(* A snapshot's chain is never empty and its first delta is always returned, *)
(* so a merge finds a file node to attribute its delta to.                   *)
LEMMA FileOfType ==
    ASSUME NEW d \in Databases, SnapshotGraph(d), NEW id \in Stored(d)
    PROVE  FileOf(d, id) \in FileNodes
PROOF
  <1> DEFINE chain == d.snaps[id].deltas
             S == {i \in DOMAIN chain : Returned(chain, i)}
  <1>1. chain \in Seq(Deltas)
    BY RowType
  <1>2. chain \in Seq(Deltas) /\ chain # << >>
    BY <1>1 DEF SnapshotGraph
  <1>3. 1 \in DOMAIN chain /\ Returned(chain, 1)
    BY <1>2 DEF Returned
  <1>4. Len(chain) \in Nat /\ S \in SUBSET (1..Len(chain)) /\ S # {}
    BY <1>2, <1>3
  <1>5. LastOf(S) \in 1..Len(chain)
    <2> HIDE DEF S, chain
    <2> QED BY <1>4, LastOfIsLast
  <1>6. chain[LastOf(S)] \in Deltas
    <2> HIDE DEF S
    <2> QED BY <1>2, <1>5
  <1> QED BY <1>6 DEF FileOf, Deltas

LEMMA DiffAndMergeType ==
    ASSUME NEW b \in Text, NEW o \in Text, NEW t \in Text
    PROVE  /\ Merge(b, o, t) \in Text
           /\ DiffOf(o, t) \in Diff
           /\ Conflicts(b, o, t) \in BOOLEAN
PROOF
  BY DEF Merge, DiffOf, Conflicts, Text, Diff

(* What a snapshot needs to be stored: a chain, and parents stored before.   *)
Storable(d, s) ==
    /\ s \in Snapshots
    /\ s.deltas # << >>
    /\ \A k \in 1..Len(s.parents) : s.parents[k] \in Stored(d)

(* e is d some calls later: rows are added, baselines stay.                  *)
Later(d, e) ==
    /\ Stored(d) \subseteq Stored(e)
    /\ \A i \in Stored(d) : e.snaps[i] = d.snaps[i]
    /\ \A p \in Partitions : Exists(d, p) =>
          Exists(e, p) /\ Baseline(e, p) = Baseline(d, p)

LEMMA LaterReflexive ==
    ASSUME NEW d
    PROVE  Later(d, d)
PROOF
  BY DEF Later

LEMMA LaterTransitive ==
    ASSUME NEW d, NEW e, NEW f, Later(d, e), Later(e, f)
    PROVE  Later(d, f)
PROOF
  BY DEF Later

(* What a partition that exists points at is stored.                         *)
LEMMA PointersAreStored ==
    ASSUME NEW d, WellFormed(d), NEW p \in Partitions, Exists(d, p)
    PROVE  /\ d.pointer[p] \in Stored(d)
           /\ Baseline(d, p) \in Stored(d)
           /\ d.history[p] \in Seq(Nat)
           /\ d.history[p] # << >>
           /\ Len(d.history[p]) \in Nat \ {0}
PROOF
  <1>1. d.history[p] \in Seq(Nat) /\ d.history[p] # << >>
    BY DEF WellFormed, Databases, PointerIsLastRow
  <1>2. Len(d.history[p]) \in Nat \ {0} /\ Baseline(d, p) = d.history[p][1]
    BY <1>1 DEF Baseline
  <1>3. \A i \in 1..Len(d.history[p]) : d.history[p][i] \in Stored(d)
    BY DEF WellFormed, PointerIsLastRow
  <1>4. d.pointer[p] = d.history[p][Len(d.history[p])]
    BY DEF WellFormed, PointerIsLastRow
  <1> QED BY <1>1, <1>2, <1>3, <1>4

(* Storing a snapshot keeps every row, and what IdOf names is the snapshot.  *)
LEMMA StoreSnapshotKeeps ==
    ASSUME NEW d, WellFormed(d), NEW s, Storable(d, s)
    PROVE  LET e == StoreSnapshot(d, s)
           IN  /\ WellFormed(e)
               /\ Later(d, e)
               /\ IdOf(e, s) \in Stored(e)
               /\ e.snaps[IdOf(e, s)] = s
               /\ e.pointer = d.pointer /\ e.history = d.history
PROOF
  <1> DEFINE e == StoreSnapshot(d, s)
  <1>0. d \in Databases /\ d.snaps \in Seq(Snapshots) /\ s \in Snapshots
    BY DEF WellFormed, Databases, Storable
  <1>1. CASE \E i \in DOMAIN d.snaps : d.snaps[i] = s
    <2>1. e = d
      BY <1>1 DEF StoreSnapshot
    <2>2. IdOf(e, s) \in DOMAIN d.snaps /\ d.snaps[IdOf(e, s)] = s
      BY <1>1, <2>1 DEF IdOf
    <2> QED BY <1>0, <2>1, <2>2, LaterReflexive DEF Stored
  <1>2. CASE ~ \E i \in DOMAIN d.snaps : d.snaps[i] = s
    <2>1. e = [d EXCEPT !.snaps = Append(@, s)]
      BY <1>2 DEF StoreSnapshot
    <2>2. /\ e \in Databases
          /\ e.snaps = Append(d.snaps, s)
          /\ e.pointer = d.pointer /\ e.history = d.history
      <3>1. Append(d.snaps, s) \in Seq(Snapshots)
        BY <1>0
      <3> HIDE DEF e
      <3> QED BY <1>0, <2>1, <3>1 DEF Databases
    <2>3. /\ Len(d.snaps) \in Nat
          /\ Len(e.snaps) = Len(d.snaps) + 1
          /\ \A i \in Stored(d) : i \in Stored(e) /\ e.snaps[i] = d.snaps[i]
          /\ e.snaps[Len(d.snaps) + 1] = s
      BY <1>0, <2>2 DEF Stored
    <2>4. PointerIsLastRow(e) /\ Exists(e, Manual) /\ Exists(e, Staged)
      BY <2>2, <2>3 DEF WellFormed, PointerIsLastRow, Exists
    <2>5. SnapshotGraph(e)
      <3> SUFFICES ASSUME NEW i \in Stored(e)
                   PROVE  /\ e.snaps[i].deltas # << >>
                          /\ \A k \in 1..Len(e.snaps[i].parents) :
                                e.snaps[i].parents[k] \in 1..(i - 1)
                          /\ \A j \in Stored(e) : e.snaps[i] = e.snaps[j] => i = j
        BY DEF SnapshotGraph
      <3>1. i \in Stored(d) \/ i = Len(d.snaps) + 1
        BY <2>3 DEF Stored
      <3>2. \A j \in Stored(d) : e.snaps[j] # s
        BY <1>0, <1>2, <2>3 DEF Stored
      <3>0. \A j \in Stored(e) : j \in Stored(d) \/ j = Len(d.snaps) + 1
        BY <2>3 DEF Stored
      <3>3. CASE i \in Stored(d)
        <4> HIDE DEF e
        <4>1. e.snaps[i] = d.snaps[i] /\ e.snaps[i] # s
          BY <2>3, <3>2, <3>3
        <4>2. SnapshotGraph(d)
          BY DEF WellFormed
        <4>3. e.snaps[i].deltas # << >>
          BY <3>3, <4>1, <4>2 DEF SnapshotGraph
        <4>4. \A k \in 1..Len(e.snaps[i].parents) : e.snaps[i].parents[k] \in 1..(i - 1)
          BY <3>3, <4>1, <4>2 DEF SnapshotGraph
        <4>5. ASSUME NEW j \in Stored(e), e.snaps[i] = e.snaps[j]
              PROVE  i = j
          <5>1. j # Len(d.snaps) + 1
            BY <2>3, <4>1, <4>5
          <5>2. j \in Stored(d)
            BY <3>0, <5>1
          <5>3. d.snaps[i] = d.snaps[j]
            BY <2>3, <4>1, <4>5, <5>2
          <5> QED BY <3>3, <4>2, <5>2, <5>3 DEF SnapshotGraph
        <4> QED BY <4>3, <4>4, <4>5
      <3>4. CASE i = Len(d.snaps) + 1
        <4>1. e.snaps[i].deltas # << >>
          BY <2>3, <3>4 DEF Storable
        <4>2. \A k \in 1..Len(e.snaps[i].parents) : e.snaps[i].parents[k] \in 1..(i - 1)
          BY <2>3, <3>4 DEF Storable, Stored
        <4>3. \A j \in Stored(e) : e.snaps[i] = e.snaps[j] => i = j
          BY <2>3, <3>2, <3>4 DEF Stored
        <4> QED BY <4>1, <4>2, <4>3
      <3> QED BY <3>1, <3>3, <3>4
    <2>6. Later(d, e)
      BY <2>2, <2>3 DEF Later, Exists, Baseline
    <2>7. IdOf(e, s) \in Stored(e) /\ e.snaps[IdOf(e, s)] = s
      <3>1. Len(d.snaps) + 1 \in DOMAIN e.snaps
        BY <1>0, <2>2
      <3>2. IdOf(e, s) \in DOMAIN e.snaps /\ e.snaps[IdOf(e, s)] = s
        BY <2>3, <3>1 DEF IdOf
      <3>3. DOMAIN e.snaps = Stored(e)
        BY <1>0, <2>2 DEF Stored
      <3> QED BY <3>2, <3>3
    <2> QED BY <2>2, <2>4, <2>5, <2>6, <2>7 DEF WellFormed
  <1> QED BY <1>1, <1>2

(* Moving the pointer of one partition, with a history that ends in it and   *)
(* names stored snapshots, keeps the tables well formed: what the three      *)
(* calls that write "partitions" have in common.                             *)
LEMMA PartitionWriteKeeps ==
    ASSUME NEW d, WellFormed(d), NEW e, NEW p \in Partitions,
           NEW id \in Stored(d), NEW h \in Seq(Nat), h # << >>,
           h[Len(h)] = id,
           \A i \in 1..Len(h) : h[i] \in Stored(d),
           Exists(d, p) => h[1] = Baseline(d, p),
           e = [d EXCEPT !.pointer[p] = id, !.history[p] = h]
    PROVE  WellFormed(e) /\ Later(d, e)
PROOF
  <1>0. /\ d \in Databases
        /\ id \in Nat \ {0}
        /\ d.pointer \in [Partitions -> Nat]
        /\ d.history \in [Partitions -> Seq(Nat)]
    BY DEF WellFormed, Databases, Stored
  <1>1. /\ e \in Databases
        /\ e.snaps = d.snaps
        /\ e.pointer = [d.pointer EXCEPT ![p] = id]
        /\ e.history = [d.history EXCEPT ![p] = h]
    BY <1>0 DEF Databases
  <1>2. e.pointer[p] = id /\ e.history[p] = h /\ Exists(e, p)
    BY <1>0, <1>1 DEF Exists, NoSnap
  <1>3. \A q \in Partitions \ {p} : e.pointer[q] = d.pointer[q] /\ e.history[q] = d.history[q]
    BY <1>0, <1>1
  <1>4. Stored(e) = Stored(d)
    BY <1>1 DEF Stored
  <1>5. SnapshotGraph(e)
    BY <1>1, <1>4 DEF WellFormed, SnapshotGraph
  <1>6. PointerIsLastRow(e)
    <2> SUFFICES ASSUME NEW q \in Partitions
                 PROVE  IF Exists(e, q)
                        THEN /\ e.history[q] # << >>
                             /\ e.pointer[q] = e.history[q][Len(e.history[q])]
                             /\ \A i \in 1..Len(e.history[q]) : e.history[q][i] \in Stored(e)
                        ELSE e.history[q] = << >>
      BY DEF PointerIsLastRow
    <2>1. CASE q = p
      BY <1>2, <1>4, <2>1
    <2>2. CASE q # p
      BY <1>3, <1>4, <2>2 DEF WellFormed, PointerIsLastRow, Exists
    <2> QED BY <2>1, <2>2
  <1>7. \A q \in Partitions : Exists(d, q) => Exists(e, q) /\ Baseline(e, q) = Baseline(d, q)
    <2> SUFFICES ASSUME NEW q \in Partitions, Exists(d, q)
                 PROVE  Exists(e, q) /\ Baseline(e, q) = Baseline(d, q)
      OBVIOUS
    <2>1. CASE q = p
      BY <1>2, <2>1 DEF Baseline
    <2>2. CASE q # p
      BY <1>3, <2>2 DEF Baseline, Exists
    <2> QED BY <2>1, <2>2
  <1>8. Manual \in Partitions /\ Staged \in Partitions
    BY DEF Partitions
  <1>9. WellFormed(e)
    BY <1>1, <1>5, <1>6, <1>7, <1>8 DEF WellFormed
  <1>10. Later(d, e)
    BY <1>1, <1>4, <1>7 DEF Later
  <1> QED BY <1>9, <1>10

LEMMA UpdatePointerKeeps ==
    ASSUME NEW d, WellFormed(d), NEW p \in Partitions, Exists(d, p), NEW id \in Stored(d)
    PROVE  /\ WellFormed(UpdatePointer(d, p, id))
           /\ Later(d, UpdatePointer(d, p, id))
PROOF
  <1> DEFINE h == Append(d.history[p], id)
  <1>1. /\ d.history[p] \in Seq(Nat)
        /\ d.history[p] # << >>
        /\ Len(d.history[p]) \in Nat \ {0}
    BY PointersAreStored
  <1>2. \A i \in 1..Len(d.history[p]) : d.history[p][i] \in Stored(d)
    BY DEF WellFormed, PointerIsLastRow
  <1>3. id \in Nat
    BY DEF Stored
  <1>4. /\ h \in Seq(Nat) /\ h # << >>
        /\ Len(h) = Len(d.history[p]) + 1
        /\ h[Len(h)] = id
        /\ \A i \in 1..Len(d.history[p]) : h[i] = d.history[p][i]
    BY <1>1, <1>3
  <1>5. \A i \in 1..Len(h) : h[i] \in Stored(d)
    BY <1>1, <1>2, <1>4
  <1>6. h[1] = Baseline(d, p)
    BY <1>1, <1>4 DEF Baseline
  <1>7. UpdatePointer(d, p, id) = [d EXCEPT !.pointer[p] = id, !.history[p] = h]
    BY DEF UpdatePointer
  <1> HIDE DEF h
  <1> QED BY <1>4, <1>5, <1>6, <1>7, PartitionWriteKeeps

(* Creating a partition on a stored snapshot, or finding it.                 *)
LEMMA EnsureKeeps ==
    ASSUME NEW d, WellFormed(d), NEW p \in Partitions, NEW id \in Stored(d)
    PROVE  /\ WellFormed(Ensure(d, p, id))
           /\ Later(d, Ensure(d, p, id))
           /\ Exists(Ensure(d, p, id), p)
PROOF
  <1>1. CASE Exists(d, p)
    BY <1>1, LaterReflexive DEF Ensure
  <1>2. CASE ~ Exists(d, p)
    <2>1. Ensure(d, p, id) = [d EXCEPT !.pointer[p] = id, !.history[p] = <<id>>]
      BY <1>2 DEF Ensure
    <2>2. id \in Nat \ {0}
      BY DEF Stored
    <2>3. /\ <<id>> \in Seq(Nat) /\ <<id>> # << >> /\ <<id>>[Len(<<id>>)] = id
          /\ \A i \in 1..Len(<<id>>) : <<id>>[i] \in Stored(d)
      BY <2>2
    <2>4. WellFormed(Ensure(d, p, id)) /\ Later(d, Ensure(d, p, id))
      BY <1>2, <2>1, <2>3, PartitionWriteKeeps
    <2>5. Exists(Ensure(d, p, id), p)
      BY <2>1, <2>2 DEF Exists, NoSnap, WellFormed, Databases
    <2> QED BY <2>4, <2>5
  <1> QED BY <1>1, <1>2

LEMMA ResetKeeps ==
    ASSUME NEW d, WellFormed(d), NEW p \in Partitions, Exists(d, p)
    PROVE  /\ WellFormed(ResetToBaseline(d, p))
           /\ Later(d, ResetToBaseline(d, p))
PROOF
  <1> DEFINE id == Baseline(d, p)
  <1>1. id \in Stored(d)
    BY PointersAreStored
  <1>2. id \in Nat
    BY <1>1 DEF Stored
  <1>3. /\ <<id>> \in Seq(Nat) /\ <<id>> # << >> /\ <<id>>[Len(<<id>>)] = id
        /\ \A i \in 1..Len(<<id>>) : <<id>>[i] \in Stored(d)
        /\ <<id>>[1] = id
    BY <1>1, <1>2
  <1>4. ResetToBaseline(d, p) = [d EXCEPT !.pointer[p] = id, !.history[p] = <<id>>]
    BY DEF ResetToBaseline
  <1> QED BY <1>1, <1>3, <1>4, PartitionWriteKeeps

(* Storing a snapshot and moving a partition to it.                          *)
LEMMA AdvanceKeeps ==
    ASSUME NEW d, WellFormed(d), NEW p \in Partitions, Exists(d, p), NEW s, Storable(d, s)
    PROVE  WellFormed(Advance(d, p, s)) /\ Later(d, Advance(d, p, s))
PROOF
  <1> DEFINE e == StoreSnapshot(d, s)
  <1>1. /\ WellFormed(e) /\ Later(d, e)
        /\ IdOf(e, s) \in Stored(e)
    BY StoreSnapshotKeeps
  <1>2. Exists(e, p)
    BY <1>1 DEF Later
  <1>3. Advance(d, p, s) = UpdatePointer(e, p, IdOf(e, s))
    BY DEF Advance
  <1> HIDE DEF e
  <1> QED BY <1>1, <1>2, <1>3, UpdatePointerKeeps, LaterTransitive

-----------------------------------------------------------------------------
(* The operations *)

LEMMA PartitionNames ==
    /\ Manual \in Partitions /\ Staged \in Partitions
    /\ Manual \in BySource
    /\ \A a \in Agents : /\ Agent(a) \in Partitions
                         /\ Approval(a) \in Partitions
                         /\ Agent(a) \in BySource
    /\ \A f \in Features : Feature(f) \in Partitions
PROOF
  BY DEF Partitions, BySource

LEMMA LayerNamesDiffer ==
    /\ Staged # Manual
    /\ \A f \in Features : Feature(f) # Staged /\ Feature(f) # Manual
    /\ \A a \in Agents : Approval(a) # Staged /\ Approval(a) # Manual
    /\ \A a \in Agents : Agent(a) # Staged /\ Agent(a) # Manual
    /\ \A a \in Agents, b \in Agents : Approval(a) # Agent(b)
    /\ \A a \in Agents, b \in Agents : Approval(a) = Approval(b) => a = b
    /\ \A a \in Agents, f \in Features : Approval(a) # Feature(f)
PROOF
  BY DEF Staged, Manual, Feature, Approval, Agent

-----------------------------------------------------------------------------
(* What a chain of deltas reads as                                          *)

AllReturned(chain) == \A i \in DOMAIN chain : Returned(chain, i)

(* One delta more is read as its own writes over the text before it.         *)
LEMMA AppendedDelta ==
    ASSUME NEW chain \in Seq(Deltas), NEW delta \in Deltas,
           AllReturned(Append(chain, delta)), NEW r \in Regions
    PROVE  ChainText(Append(chain, delta))[r] =
             IF delta.diff[r] # Keep THEN delta.diff[r] ELSE ChainText(chain)[r]
PROOF
  <1> DEFINE longer == Append(chain, delta)
  <1>1. PICK n \in Nat : n = Len(chain)
    OBVIOUS
  <1>2. /\ DOMAIN chain = 1..n /\ DOMAIN longer = 1..(n + 1)
        /\ longer[n + 1] = delta
        /\ \A i \in 1..n : longer[i] = chain[i]
    BY <1>1
  <1>3. \A i \in 1..(n + 1) : Returned(longer, i)
    BY <1>2 DEF AllReturned
  <1> HIDE DEF longer
  <1>4. \A i \in 1..n : Returned(chain, i)
    <2> SUFFICES ASSUME NEW i \in 1..n, NEW j \in 1..(i - 1)
                 PROVE  chain[j] # chain[i]
      BY DEF Returned
    <2>1. i \in 1..(n + 1) /\ j \in 1..n
      OBVIOUS
    <2> QED BY <1>2, <1>3, <2>1 DEF Returned
  <1>5. /\ Writes(longer, r) = {i \in 1..(n + 1) : longer[i].diff[r] # Keep}
        /\ Writes(chain, r) = {i \in 1..n : chain[i].diff[r] # Keep}
    BY <1>2, <1>3, <1>4 DEF Writes
  <1>6. /\ ChainText(longer)[r] = IF Writes(longer, r) = {} THEN InitText[r]
                                  ELSE longer[LastOf(Writes(longer, r))].diff[r]
        /\ ChainText(chain)[r] = IF Writes(chain, r) = {} THEN InitText[r]
                                 ELSE chain[LastOf(Writes(chain, r))].diff[r]
    BY DEF ChainText
  <1>7. CASE delta.diff[r] # Keep
    <2>1. n + 1 \in Writes(longer, r) /\ Writes(longer, r) \in SUBSET (1..(n + 1))
      BY <1>2, <1>5, <1>7
    <2>2. /\ LastOf(Writes(longer, r)) \in Writes(longer, r)
          /\ \A j \in Writes(longer, r) : j <= LastOf(Writes(longer, r))
      <3>1. n + 1 \in Nat /\ Writes(longer, r) # {}
        BY <2>1
      <3> HIDE DEF longer
      <3> QED BY <2>1, <3>1, LastOfIsLast
    <2>3. LastOf(Writes(longer, r)) = n + 1
      <3>1. n + 1 <= LastOf(Writes(longer, r)) /\ LastOf(Writes(longer, r)) \in 1..(n + 1)
        BY <2>1, <2>2
      <3> QED BY <3>1
    <2> QED BY <1>2, <1>6, <1>7, <2>1, <2>3 DEF longer
  <1>8. CASE delta.diff[r] = Keep
    <2>1. Writes(longer, r) = Writes(chain, r)
      BY <1>2, <1>5, <1>8
    <2>2. CASE Writes(chain, r) = {}
      BY <1>6, <1>8, <2>1, <2>2 DEF longer
    <2>3. CASE Writes(chain, r) # {}
      <3>1. LastOf(Writes(chain, r)) \in 1..n
        BY <1>5, <2>3, LastOfIsLast
      <3> QED BY <1>2, <1>6, <1>8, <2>1, <2>3, <3>1 DEF longer
    <2> QED BY <2>2, <2>3
  <1> QED BY <1>7, <1>8

(* A delta made of the difference to a text turns what is read into it.      *)
LEMMA DifferenceReadsBack ==
    ASSUME NEW chain \in Seq(Deltas), NEW delta \in Deltas, NEW new \in Text,
           delta.diff = DiffOf(ChainText(chain), new),
           AllReturned(Append(chain, delta))
    PROVE  ChainText(Append(chain, delta)) = new
PROOF
  <1>1. ASSUME NEW r \in Regions
        PROVE  ChainText(Append(chain, delta))[r] = new[r]
    <2>1. delta.diff[r] = IF new[r] = ChainText(chain)[r] THEN Keep ELSE new[r]
      BY DEF DiffOf
    <2>2. new[r] # Keep
      BY KeepAssumption DEF Text
    <2> QED BY <2>1, <2>2, AppendedDelta
  <1>2. ChainText(Append(chain, delta)) \in [Regions -> Lines]
    <2>1. Append(chain, delta) \in Seq(Deltas)
      OBVIOUS
    <2> QED BY <2>1, ChainTextType DEF Text
  <1> QED BY <1>1, <1>2 DEF Text

(* Rows are immutable: a snapshot reads the same in any later tables.        *)
LEMMA LaterTexts ==
    ASSUME NEW d, NEW e, Later(d, e), NEW id \in Stored(d)
    PROVE  TextOf(e, id) = TextOf(d, id)
PROOF
  BY DEF Later, TextOf

-----------------------------------------------------------------------------
(* The snapshot an edit or a merge makes                                     *)

(* A snapshot that reads as the given text, if its deltas are all returned.  *)
Yields(s, text) == AllReturned(s.deltas) => ChainText(s.deltas) = text

(* apply_manual_edit and apply_agent_edit change nothing, or advance the     *)
(* partition to a child of its current snapshot that reads as the new text.  *)
(* Nothing but the rows is assumed of the tables: a request computes its     *)
(* snapshot from a pointer it has read some time ago.                        *)
LEMMA EditRow ==
    ASSUME NEW d \in Databases, NEW p \in Partitions, p \in BySource, d.pointer[p] \in Stored(d),
           NEW path \in Paths, NEW new \in Text
    PROVE  \E s : /\ Storable(d, s)
                  /\ s.type = p /\ s.parents = <<d.pointer[p]>>
                  /\ Yields(s, new)
                  /\ ApplyEdit(d, p, path, new) =
                        IF CurrentText(d, p) = new THEN d ELSE Advance(d, p, s)
PROOF
  <1> DEFINE id == d.pointer[p]
             old == TextOf(d, id)
             delta == [file |-> [path |-> path, base |-> old],
                       diff |-> DiffOf(old, new), source |-> p]
             chain == d.snaps[id].deltas
             s == ChildOf(d, id, delta, p)
  <1>1. old \in Text
    BY TextOfType
  <1>2. delta \in Deltas
    <2>1. DiffOf(old, new) \in Diff
      BY <1>1, DiffAndMergeType
    <2> QED BY <1>1, <2>1 DEF Deltas, FileNodes
  <1>3. chain \in Seq(Deltas)
    BY RowType
  <1>4. /\ s.deltas = Append(chain, delta)
        /\ delta.diff = DiffOf(ChainText(chain), new)
    BY DEF ChildOf, TextOf
  <1>5. Storable(d, s)
    <2> HIDE DEF delta, id
    <2>1. Append(d.snaps[id].deltas, delta) \in Seq(Deltas) \ {<< >>}
      BY <1>2, <1>3, AppendProperties
    <2>2. s \in Snapshots
      BY <2>1 DEF ChildOf, Snapshots, Stored, id
    <2>3. s.deltas = Append(d.snaps[id].deltas, delta) /\ s.parents = <<id>>
      BY DEF ChildOf
    <2>4. \A k \in 1..Len(s.parents) : s.parents[k] = id
      BY <2>3
    <2>5. id \in Stored(d)
      BY DEF id
    <2> HIDE DEF s
    <2> QED BY <2>1, <2>2, <2>3, <2>4, <2>5 DEF Storable
  <1>6. s.type = p /\ s.parents = <<d.pointer[p]>>
    BY DEF ChildOf
  <1>7. ApplyEdit(d, p, path, new) = IF CurrentText(d, p) = new THEN d ELSE Advance(d, p, s)
    BY DEF ApplyEdit, CurrentText
  <1> HIDE DEF s, delta, chain
  <1>8. Yields(s, new)
    BY <1>2, <1>3, <1>4, DifferenceReadsBack DEF Yields
  <1> QED BY <1>5, <1>6, <1>7, <1>8

Merged(d, b, o, t) == Merge(TextOf(d, b), TextOf(d, o), TextOf(d, t))

(* What a merge works on: parents, the destination's current snapshot first, *)
(* and three sides, all of them stored.                                      *)
Sides(d, dst, ids, b, o, t, source) ==
    /\ d \in Databases /\ SnapshotGraph(d)
    /\ dst \in Partitions
    /\ ids \in Seq(Nat) /\ Len(ids) >= 2
    /\ \A k \in 1..Len(ids) : ids[k] \in Stored(d)
    /\ b \in Stored(d) /\ o \in Stored(d) /\ t \in Stored(d)
    /\ source \in BySource

(* A merge that finds nothing to do.                                         *)
Settled(d, ids, b, o, t) == ids[1] = ids[2] \/ Merged(d, b, o, t) = TextOf(d, ids[1])

(* A merge changes nothing, or advances the destination to a snapshot of the *)
(* given parents that reads as the merge of the three sides.                 *)
LEMMA MergeRow ==
    ASSUME NEW d, NEW dst, NEW ids, NEW b, NEW o, NEW t, NEW source,
           Sides(d, dst, ids, b, o, t, source)
    PROVE  \E s : /\ Storable(d, s)
                  /\ s.type = dst /\ s.parents = ids
                  /\ Yields(s, Merged(d, b, o, t))
                  /\ MergeInto(d, dst, ids, b, o, t, source) =
                        IF Settled(d, ids, b, o, t) THEN d ELSE Advance(d, dst, s)
PROOF
  <1> DEFINE into == TextOf(d, ids[1])
             merged == Merged(d, b, o, t)
             clash == Conflicts(TextOf(d, b), TextOf(d, o), TextOf(d, t))
             delta == [file |-> FileOf(d, ids[2]), diff |-> DiffOf(into, merged),
                       source |-> source]
             chain == d.snaps[ids[1]].deltas
             s == MergeOf(d, ids, delta, dst, clash)
  <1>0. /\ d \in Databases /\ SnapshotGraph(d)
        /\ dst \in Partitions
        /\ ids \in Seq(Nat) /\ Len(ids) >= 2
        /\ \A k \in 1..Len(ids) : ids[k] \in Stored(d)
        /\ b \in Stored(d) /\ o \in Stored(d) /\ t \in Stored(d)
        /\ source \in BySource
    BY DEF Sides
  <1>1. /\ ids[1] \in Stored(d) /\ ids[2] \in Stored(d)
        /\ Head(ids) = ids[1]
    BY <1>0
  <1>2. /\ into \in Text /\ merged \in Text /\ clash \in BOOLEAN
    <2>1. TextOf(d, b) \in Text /\ TextOf(d, o) \in Text /\ TextOf(d, t) \in Text
      BY <1>0, TextOfType
    <2> QED BY <1>0, <1>1, <2>1, TextOfType, DiffAndMergeType DEF Merged
  <1>3. delta \in Deltas
    <2>1. DiffOf(into, merged) \in Diff
      BY <1>2, DiffAndMergeType
    <2>2. FileOf(d, ids[2]) \in FileNodes
      BY <1>0, <1>1, FileOfType
    <2> QED BY <1>0, <2>1, <2>2 DEF Deltas
  <1>4. chain \in Seq(Deltas)
    BY <1>0, <1>1, RowType
  <1>5. s.deltas = Append(chain, delta) /\ s.parents = ids
    BY <1>1 DEF MergeOf
  <1>6. delta.diff = DiffOf(ChainText(chain), merged)
    BY DEF TextOf
  <1>7. Storable(d, s)
    <2> HIDE DEF delta, clash, chain
    <2>1. Append(chain, delta) \in Seq(Deltas) \ {<< >>}
      BY <1>3, <1>4, AppendProperties
    <2>2. s = [deltas |-> Append(chain, delta), parents |-> ids,
               type |-> dst, conflicts |-> clash]
      BY <1>1 DEF MergeOf, chain
    <2>3. s \in Snapshots
      BY <1>0, <1>2, <2>1, <2>2 DEF Snapshots
    <2> QED BY <1>0, <1>5, <2>1, <2>3 DEF Storable
  <1>8. s.type = dst
    BY DEF MergeOf
  <1>9. MergeInto(d, dst, ids, b, o, t, source) =
          IF Settled(d, ids, b, o, t) THEN d ELSE Advance(d, dst, s)
    BY DEF MergeInto, Merged, Settled
  <1> HIDE DEF s, delta, chain, merged, into
  <1>10. Yields(s, merged)
    BY <1>2, <1>3, <1>4, <1>5, <1>6, DifferenceReadsBack DEF Yields
  <1> QED BY <1>5, <1>7, <1>8, <1>9, <1>10 DEF merged

-----------------------------------------------------------------------------
(* What the operations do to the tables                                      *)

(* What every operation of src/layered does to the tables.                   *)
Follows(d, e) == WellFormed(e) /\ Later(d, e)

LEMMA FollowsTransitive ==
    ASSUME NEW d, NEW e, NEW f, Follows(d, e), Follows(e, f)
    PROVE  Follows(d, f)
PROOF
  BY LaterTransitive DEF Follows

LEMMA FollowsReflexive ==
    ASSUME NEW d, WellFormed(d)
    PROVE  Follows(d, d)
PROOF
  BY LaterReflexive DEF Follows

(* Partition p has moved on by one row, and no other has.                    *)
Moved(d, e, p) ==
    /\ e.history[p] = Append(d.history[p], e.pointer[p])
    /\ \A q \in Partitions \ {p} : /\ e.pointer[q] = d.pointer[q]
                                   /\ e.history[q] = d.history[q]

(* What it takes for p to have moved on to a given text.                     *)
MovedTo(d, e, p, text) ==
    /\ Follows(d, e)
    /\ Moved(d, e, p)
    /\ ReadsBack(e, p) => CurrentText(e, p) = text

(* Partition p made to point at a snapshot that reads as a text.             *)
LEMMA AdvanceMovesTo ==
    ASSUME NEW d, WellFormed(d), NEW p \in Partitions, Exists(d, p),
           NEW s, Storable(d, s), NEW new, Yields(s, new)
    PROVE  MovedTo(d, Advance(d, p, s), p, new)
PROOF
  <1> DEFINE stored == StoreSnapshot(d, s)
             id == IdOf(stored, s)
             e == Advance(d, p, s)
  <1>1. /\ stored.snaps[id] = s
        /\ stored.pointer = d.pointer /\ stored.history = d.history
        /\ WellFormed(stored)
    BY StoreSnapshotKeeps
  <1>2. e = [stored EXCEPT !.pointer[p] = id, !.history[p] = Append(@, id)]
    BY DEF Advance, UpdatePointer
  <1>3. /\ stored \in Databases
        /\ stored.pointer \in [Partitions -> Nat]
        /\ stored.history \in [Partitions -> Seq(Nat)]
    BY <1>1 DEF WellFormed, Databases
  <1> HIDE DEF stored, id, e
  <1>4. /\ e.snaps = stored.snaps
        /\ e.pointer = [stored.pointer EXCEPT ![p] = id]
        /\ e.history = [stored.history EXCEPT ![p] = Append(@, id)]
    BY <1>2, <1>3 DEF Databases
  <1>5. e.pointer[p] = id /\ e.snaps[e.pointer[p]] = s
    BY <1>1, <1>3, <1>4
  <1>6. Moved(d, e, p)
    BY <1>1, <1>3, <1>4, <1>5 DEF Moved
  <1>7. Follows(d, e)
    BY AdvanceKeeps DEF Follows, e
  <1>8. ASSUME ReadsBack(e, p)
        PROVE  CurrentText(e, p) = new
    <2>1. AllReturned(s.deltas)
      BY <1>5, <1>8 DEF ReadsBack, AllReturned
    <2> QED BY <1>5, <2>1 DEF Yields, CurrentText, TextOf
  <1> QED BY <1>6, <1>7, <1>8 DEF MovedTo, e

(* An edit leaves the tables alone when the text is the current one, and     *)
(* otherwise moves its partition on to the text it was given.                *)
LEMMA EditMoves ==
    ASSUME NEW d, WellFormed(d), NEW p \in Partitions, p \in BySource, Exists(d, p),
           NEW path \in Paths, NEW new \in Text
    PROVE  \/ ApplyEdit(d, p, path, new) = d /\ CurrentText(d, p) = new
           \/ MovedTo(d, ApplyEdit(d, p, path, new), p, new)
PROOF
  <1>1. d \in Databases /\ d.pointer[p] \in Stored(d)
    BY PointersAreStored DEF WellFormed
  <1>2. PICK s : /\ Storable(d, s) /\ Yields(s, new)
                 /\ ApplyEdit(d, p, path, new) =
                       IF CurrentText(d, p) = new THEN d ELSE Advance(d, p, s)
    BY <1>1, EditRow
  <1> QED BY <1>2, AdvanceMovesTo

LEMMA ApplyEditKeeps ==
    ASSUME NEW d, WellFormed(d), NEW p \in Partitions, p \in BySource, Exists(d, p),
           NEW path \in Paths, NEW new \in Text
    PROVE  Follows(d, ApplyEdit(d, p, path, new))
PROOF
  BY EditMoves, FollowsReflexive DEF MovedTo

(* What the four merges need: a destination that exists, parents and sides   *)
(* that are stored.                                                          *)
Mergeable(d, dst, ids, b, o, t, source) ==
    /\ WellFormed(d)
    /\ dst \in Partitions /\ Exists(d, dst)
    /\ ids \in Seq(Nat) /\ Len(ids) >= 2
    /\ \A k \in 1..Len(ids) : ids[k] \in Stored(d)
    /\ b \in Stored(d) /\ o \in Stored(d) /\ t \in Stored(d)
    /\ source \in BySource

(* What a merge does: nothing, where the two parents are one snapshot or the *)
(* first already reads as the merge; or it moves the destination to it.      *)
MergeOutcome(d, e, dst, ids, b, o, t) ==
    \/ /\ e = d
       /\ Settled(d, ids, b, o, t)
    \/ MovedTo(d, e, dst, Merged(d, b, o, t))

LEMMA MergeMoves ==
    ASSUME NEW d, NEW dst, NEW ids, NEW b, NEW o, NEW t, NEW source,
           Mergeable(d, dst, ids, b, o, t, source)
    PROVE  MergeOutcome(d, MergeInto(d, dst, ids, b, o, t, source), dst, ids, b, o, t)
PROOF
  <1>1. WellFormed(d) /\ Exists(d, dst) /\ dst \in Partitions /\ Sides(d, dst, ids, b, o, t, source)
    BY DEF Mergeable, Sides, WellFormed
  <1>2. PICK s : /\ Storable(d, s) /\ Yields(s, Merged(d, b, o, t))
                 /\ MergeInto(d, dst, ids, b, o, t, source) =
                       IF Settled(d, ids, b, o, t) THEN d ELSE Advance(d, dst, s)
    BY <1>1, MergeRow
  <1> QED BY <1>1, <1>2, AdvanceMovesTo DEF MergeOutcome

LEMMA MergeIntoFollows ==
    ASSUME NEW d, NEW dst, NEW ids, NEW b, NEW o, NEW t, NEW source,
           Mergeable(d, dst, ids, b, o, t, source)
    PROVE  Follows(d, MergeInto(d, dst, ids, b, o, t, source))
PROOF
  BY MergeMoves, FollowsReflexive DEF MergeOutcome, MovedTo, Mergeable

LEMMA MergeManualToStagedFollows ==
    ASSUME NEW d, WellFormed(d)
    PROVE  Follows(d, MergeManualToStaged(d))
PROOF
  <1> DEFINE staged == d.pointer[Staged]
             manual == d.pointer[Manual]
  <1>1. staged \in Stored(d) /\ manual \in Stored(d) /\ Exists(d, Staged)
    BY PartitionNames, PointersAreStored DEF WellFormed
  <1> DEFINE ids == <<staged, manual>>
  <1>2. /\ ids \in Seq(Nat) /\ Len(ids) = 2
        /\ \A k \in 1..Len(ids) : ids[k] \in Stored(d)
    BY <1>1 DEF Stored
  <1>3. Mergeable(d, Staged, ids, staged, staged, manual, Manual)
    BY <1>1, <1>2, PartitionNames DEF Mergeable
  <1>4. Follows(d, MergeInto(d, Staged, ids, staged, staged, manual, Manual))
    BY <1>3, MergeIntoFollows
  <1> QED BY <1>4 DEF MergeManualToStaged

LEMMA MoveAgentToApprovalFollows ==
    ASSUME NEW d, WellFormed(d), NEW a \in Agents,
           Exists(d, Approval(a)), Exists(d, Agent(a))
    PROVE  Follows(d, MoveAgentToApproval(d, a))
PROOF
  <1> DEFINE approval == d.pointer[Approval(a)]
             agent == d.pointer[Agent(a)]
  <1>1. approval \in Stored(d) /\ agent \in Stored(d) /\ Baseline(d, Approval(a)) \in Stored(d)
    BY PartitionNames, PointersAreStored
  <1> DEFINE ids == <<approval, agent>>
  <1>2. /\ ids \in Seq(Nat) /\ Len(ids) = 2
        /\ \A k \in 1..Len(ids) : ids[k] \in Stored(d)
    BY <1>1 DEF Stored
  <1>3. Mergeable(d, Approval(a), ids, Baseline(d, Approval(a)),
                                 approval, agent, Agent(a))
    BY <1>1, <1>2, PartitionNames DEF Mergeable
  <1>4. Follows(d, MergeInto(d, Approval(a), ids, Baseline(d, Approval(a)),
                                 approval, agent, Agent(a)))
    BY <1>3, MergeIntoFollows
  <1> QED BY <1>4 DEF MoveAgentToApproval

LEMMA MergeApprovalIntoFeatureFollows ==
    ASSUME NEW d, WellFormed(d), NEW a \in Agents, NEW f \in Features,
           Exists(d, Approval(a)), Exists(d, Feature(f))
    PROVE  Follows(d, MergeApprovalIntoFeature(d, a, f))
PROOF
  <1> DEFINE approval == d.pointer[Approval(a)]
             feature == d.pointer[Feature(f)]
             baseline == Baseline(d, Feature(f))
  <1>1. approval \in Stored(d) /\ feature \in Stored(d) /\ baseline \in Stored(d)
    BY PartitionNames, PointersAreStored
  <1> DEFINE ids == <<feature, approval, baseline>>
  <1>2. /\ ids \in Seq(Nat) /\ Len(ids) = 3
        /\ \A k \in 1..Len(ids) : ids[k] \in Stored(d)
    BY <1>1 DEF Stored
  <1>3. Mergeable(d, Feature(f), ids, baseline, approval, feature, Agent(a))
    BY <1>1, <1>2, PartitionNames DEF Mergeable
  <1>4. Follows(d, MergeInto(d, Feature(f), ids, baseline, approval, feature, Agent(a)))
    BY <1>3, MergeIntoFollows
  <1> QED BY <1>4 DEF MergeApprovalIntoFeature

LEMMA MergeAgentToFeatureFollows ==
    ASSUME NEW d, WellFormed(d), NEW a \in Agents, NEW f \in Features, Exists(d, Approval(a))
    PROVE  Follows(d, MergeAgentToFeature(d, a, f))
PROOF
  <1> DEFINE ensured == Ensure(d, Feature(f), Baseline(d, Approval(a)))
             merged == MergeApprovalIntoFeature(ensured, a, f)
  <1>1. Follows(d, ensured) /\ Exists(ensured, Feature(f))
    BY PartitionNames, PointersAreStored, EnsureKeeps DEF Follows
  <1>2. Exists(ensured, Approval(a))
    BY <1>1, PartitionNames DEF Follows, Later
  <1>3. Follows(ensured, merged)
    BY <1>1, <1>2, MergeApprovalIntoFeatureFollows DEF Follows
  <1>4. Exists(merged, Approval(a))
    BY <1>2, <1>3, PartitionNames DEF Follows, Later
  <1>5. Follows(merged, ResetToBaseline(merged, Approval(a)))
    BY <1>3, <1>4, PartitionNames, ResetKeeps DEF Follows
  <1>6. MergeAgentToFeature(d, a, f) =
          IF merged = ensured THEN ensured ELSE ResetToBaseline(merged, Approval(a))
    BY DEF MergeAgentToFeature
  <1> HIDE DEF merged, ensured
  <1> QED BY <1>1, <1>3, <1>5, <1>6, FollowsTransitive

LEMMA MergeFeatureToStagedFollows ==
    ASSUME NEW d, WellFormed(d), NEW f \in Features, Exists(d, Feature(f))
    PROVE  Follows(d, MergeFeatureToStaged(d, f))
PROOF
  <1> DEFINE staged == d.pointer[Staged]
             feature == d.pointer[Feature(f)]
             baseline == Baseline(d, Feature(f))
  <1>1. /\ staged \in Stored(d) /\ feature \in Stored(d) /\ baseline \in Stored(d)
        /\ Exists(d, Staged)
    BY PartitionNames, PointersAreStored DEF WellFormed
  <1> DEFINE ids == <<staged, feature>>
  <1>2. /\ ids \in Seq(Nat) /\ Len(ids) = 2
        /\ \A k \in 1..Len(ids) : ids[k] \in Stored(d)
    BY <1>1 DEF Stored
  <1>3. Mergeable(d, Staged, ids, baseline, staged, feature, Manual)
    BY <1>1, <1>2, PartitionNames DEF Mergeable
  <1>4. Follows(d, MergeInto(d, Staged, ids, baseline, staged, feature, Manual))
    BY <1>3, MergeIntoFollows
  <1> QED BY <1>4 DEF MergeFeatureToStaged

-----------------------------------------------------------------------------
(* The feature merge into staged, read back: a round leaves staged alone     *)
(* when there is nothing to take, and otherwise moves it to the merge.       *)
FeatureMerge(d, f) ==
    Merge(BaselineText(d, Feature(f)), CurrentText(d, Staged), CurrentText(d, Feature(f)))

LEMMA MergeFeatureMoves ==
    ASSUME NEW d, WellFormed(d), NEW f \in Features, Exists(d, Feature(f))
    PROVE  \/ /\ MergeFeatureToStaged(d, f) = d
              /\ \/ d.pointer[Staged] = d.pointer[Feature(f)]
                 \/ FeatureMerge(d, f) = CurrentText(d, Staged)
           \/ MovedTo(d, MergeFeatureToStaged(d, f), Staged, FeatureMerge(d, f))
PROOF
  <1> DEFINE staged == d.pointer[Staged]
             feature == d.pointer[Feature(f)]
             baseline == Baseline(d, Feature(f))
             ids == <<staged, feature>>
  <1>1. /\ staged \in Stored(d) /\ feature \in Stored(d) /\ baseline \in Stored(d)
        /\ Exists(d, Staged)
    BY PartitionNames, PointersAreStored DEF WellFormed
  <1>2. /\ ids \in Seq(Nat) /\ Len(ids) = 2
        /\ ids[1] = staged /\ ids[2] = feature
        /\ \A k \in 1..Len(ids) : ids[k] \in Stored(d)
    BY <1>1 DEF Stored
  <1>3. Mergeable(d, Staged, ids, baseline, staged, feature, Manual)
    BY <1>1, <1>2, PartitionNames DEF Mergeable
  <1>4. MergeFeatureToStaged(d, f) =
          MergeInto(d, Staged, ids, baseline, staged, feature, Manual)
    BY DEF MergeFeatureToStaged
  <1>5. FeatureMerge(d, f) = Merged(d, baseline, staged, feature)
    BY DEF FeatureMerge, Merged, BaselineText, CurrentText
  <1>6. CurrentText(d, Staged) = TextOf(d, ids[1])
    BY <1>2 DEF CurrentText
  <1> HIDE DEF ids, staged, feature, baseline
  <1>7. MergeOutcome(d, MergeFeatureToStaged(d, f), Staged, ids, baseline, staged, feature)
    BY <1>3, <1>4, MergeMoves
  <1> QED BY <1>2, <1>5, <1>6, <1>7 DEF MergeOutcome, Settled, staged, feature

(* Merging a second time over what the merge wrote changes nothing.          *)
LEMMA MergeSettles ==
    ASSUME NEW b, NEW o, NEW t
    PROVE  /\ Merge(b, Merge(b, o, t), t) = Merge(b, o, t)
           /\ Merge(b, o, Merge(b, o, t)) = Merge(b, o, t)
PROOF
  BY DEF Merge

(* Every text a partition that exists can be asked for is one.               *)
LEMMA PartitionTexts ==
    ASSUME NEW d, WellFormed(d), NEW p \in Partitions, Exists(d, p)
    PROVE  CurrentText(d, p) \in Text /\ BaselineText(d, p) \in Text
PROOF
  BY PointersAreStored, TextOfType DEF WellFormed, CurrentText, BaselineText

(* What a move of one partition leaves as it was in another.                 *)
LEMMA OthersRead ==
    ASSUME NEW d, WellFormed(d), NEW e, Follows(d, e), NEW p, Moved(d, e, p),
           NEW q \in Partitions \ {p}, Exists(d, q)
    PROVE  /\ CurrentText(e, q) = CurrentText(d, q)
           /\ BaselineText(e, q) = BaselineText(d, q)
PROOF
  <1>1. d.pointer[q] \in Stored(d) /\ Baseline(d, q) \in Stored(d)
    BY PointersAreStored
  <1>2. e.pointer[q] = d.pointer[q] /\ Baseline(e, q) = Baseline(d, q)
    BY DEF Moved, Baseline
  <1> QED BY <1>1, <1>2, LaterTexts DEF Follows, CurrentText, BaselineText

(* A round repeated at once finds nothing to do.                             *)
LEMMA RoundRepeats ==
    ASSUME NEW d, WellFormed(d), NEW f \in Features, Exists(d, Feature(f)),
           ReadsBack(MergeFeatureToStaged(d, f), Staged)
    PROVE  MergeFeatureToStaged(MergeFeatureToStaged(d, f), f) = MergeFeatureToStaged(d, f)
PROOF
  <1> DEFINE once == MergeFeatureToStaged(d, f)
  <1>1. CASE once = d
    BY <1>1
  <1>2. CASE MovedTo(d, once, Staged, FeatureMerge(d, f))
    <2> HIDE DEF once
    <2>1. /\ WellFormed(once) /\ Follows(d, once) /\ Moved(d, once, Staged)
          /\ Exists(once, Feature(f))
      BY <1>2, PartitionNames DEF MovedTo, Follows, Later
    <2>2. CurrentText(once, Staged) = FeatureMerge(d, f)
      BY <1>2 DEF MovedTo, once
    <2>3. /\ CurrentText(once, Feature(f)) = CurrentText(d, Feature(f))
          /\ BaselineText(once, Feature(f)) = BaselineText(d, Feature(f))
      BY <2>1, PartitionNames, LayerNamesDiffer, OthersRead
    <2>4. FeatureMerge(once, f) = CurrentText(once, Staged)
      BY <2>2, <2>3, MergeSettles DEF FeatureMerge
    <2>5. MergeFeatureToStaged(once, f) =
            MergeInto(once, Staged, <<once.pointer[Staged], once.pointer[Feature(f)]>>,
                      Baseline(once, Feature(f)), once.pointer[Staged],
                      once.pointer[Feature(f)], Manual)
      BY DEF MergeFeatureToStaged
    <2>6. MergeFeatureToStaged(once, f) = once
      BY <2>4, <2>5 DEF MergeInto, FeatureMerge, CurrentText, BaselineText
    <2> QED BY <2>6 DEF once
  <1> QED BY <1>1, <1>2, MergeFeatureMoves

(* The merge of manual edits into staged moves staged and nothing else.      *)
LEMMA ManualMergeMovesStaged ==
    ASSUME NEW d, WellFormed(d)
    PROVE  \/ MergeManualToStaged(d) = d
           \/ Follows(d, MergeManualToStaged(d)) /\ Moved(d, MergeManualToStaged(d), Staged)
PROOF
  <1> DEFINE staged == d.pointer[Staged]
             manual == d.pointer[Manual]
             ids == <<staged, manual>>
  <1>1. staged \in Stored(d) /\ manual \in Stored(d) /\ Exists(d, Staged)
    BY PartitionNames, PointersAreStored DEF WellFormed
  <1>2. /\ ids \in Seq(Nat) /\ Len(ids) = 2
        /\ \A k \in 1..Len(ids) : ids[k] \in Stored(d)
    BY <1>1 DEF Stored
  <1>3. Mergeable(d, Staged, ids, staged, staged, manual, Manual)
    BY <1>1, <1>2, PartitionNames DEF Mergeable
  <1>4. MergeManualToStaged(d) = MergeInto(d, Staged, ids, staged, staged, manual, Manual)
    BY DEF MergeManualToStaged
  <1> HIDE DEF ids, staged, manual
  <1>5. MergeOutcome(d, MergeManualToStaged(d), Staged, ids, staged, staged, manual)
    BY <1>3, <1>4, MergeMoves
  <1> QED BY <1>5 DEF MergeOutcome, MovedTo

-----------------------------------------------------------------------------
(* Submission and approval, read back.                                       *)
LEMMA SubmissionMoves ==
    ASSUME NEW d, WellFormed(d), NEW a \in Agents,
           Exists(d, Approval(a)), Exists(d, Agent(a))
    PROVE  \/ MoveAgentToApproval(d, a) = d
           \/ /\ Follows(d, MoveAgentToApproval(d, a))
              /\ Moved(d, MoveAgentToApproval(d, a), Approval(a))
PROOF
  <1> DEFINE approval == d.pointer[Approval(a)]
             agent == d.pointer[Agent(a)]
             baseline == Baseline(d, Approval(a))
             ids == <<approval, agent>>
  <1>1. approval \in Stored(d) /\ agent \in Stored(d) /\ baseline \in Stored(d)
    BY PartitionNames, PointersAreStored
  <1>2. /\ ids \in Seq(Nat) /\ Len(ids) = 2
        /\ \A k \in 1..Len(ids) : ids[k] \in Stored(d)
    BY <1>1 DEF Stored
  <1>3. Mergeable(d, Approval(a), ids, baseline, approval, agent, Agent(a))
    BY <1>1, <1>2, PartitionNames DEF Mergeable
  <1>4. MoveAgentToApproval(d, a) =
          MergeInto(d, Approval(a), ids, baseline, approval, agent, Agent(a))
    BY DEF MoveAgentToApproval
  <1> HIDE DEF ids, approval, agent, baseline
  <1>5. MergeOutcome(d, MoveAgentToApproval(d, a), Approval(a), ids, baseline, approval, agent)
    BY <1>3, <1>4, MergeMoves
  <1> QED BY <1>5 DEF MergeOutcome, MovedTo

ApprovalMerge(d, a, f) ==
    Merge(BaselineText(d, Feature(f)), CurrentText(d, Approval(a)), CurrentText(d, Feature(f)))

LEMMA ApprovalMoves ==
    ASSUME NEW d, WellFormed(d), NEW a \in Agents, NEW f \in Features,
           Exists(d, Approval(a)), Exists(d, Feature(f))
    PROVE  \/ MergeApprovalIntoFeature(d, a, f) = d
           \/ MovedTo(d, MergeApprovalIntoFeature(d, a, f), Feature(f), ApprovalMerge(d, a, f))
PROOF
  <1> DEFINE approval == d.pointer[Approval(a)]
             feature == d.pointer[Feature(f)]
             baseline == Baseline(d, Feature(f))
             ids == <<feature, approval, baseline>>
  <1>1. approval \in Stored(d) /\ feature \in Stored(d) /\ baseline \in Stored(d)
    BY PartitionNames, PointersAreStored
  <1>2. /\ ids \in Seq(Nat) /\ Len(ids) = 3
        /\ \A k \in 1..Len(ids) : ids[k] \in Stored(d)
    BY <1>1 DEF Stored
  <1>3. Mergeable(d, Feature(f), ids, baseline, approval, feature, Agent(a))
    BY <1>1, <1>2, PartitionNames DEF Mergeable
  <1>4. MergeApprovalIntoFeature(d, a, f) =
          MergeInto(d, Feature(f), ids, baseline, approval, feature, Agent(a))
    BY DEF MergeApprovalIntoFeature
  <1>5. ApprovalMerge(d, a, f) = Merged(d, baseline, approval, feature)
    BY DEF ApprovalMerge, Merged, BaselineText, CurrentText
  <1> HIDE DEF ids, approval, feature, baseline
  <1>6. MergeOutcome(d, MergeApprovalIntoFeature(d, a, f), Feature(f), ids,
                     baseline, approval, feature)
    BY <1>3, <1>4, MergeMoves
  <1> QED BY <1>5, <1>6 DEF MergeOutcome

(* A second approval of the same submission finds nothing to do.             *)
LEMMA ApprovalRepeats ==
    ASSUME NEW d, WellFormed(d), NEW a \in Agents, NEW f \in Features,
           Exists(d, Approval(a)), Exists(d, Feature(f)),
           ReadsBack(MergeApprovalIntoFeature(d, a, f), Feature(f))
    PROVE  MergeApprovalIntoFeature(MergeApprovalIntoFeature(d, a, f), a, f) =
             MergeApprovalIntoFeature(d, a, f)
PROOF
  <1> DEFINE once == MergeApprovalIntoFeature(d, a, f)
  <1>1. CASE once = d
    BY <1>1
  <1>2. CASE MovedTo(d, once, Feature(f), ApprovalMerge(d, a, f))
    <2> HIDE DEF once
    <2>1. WellFormed(once) /\ Follows(d, once) /\ Moved(d, once, Feature(f))
      BY <1>2 DEF MovedTo, Follows
    <2>2. CurrentText(once, Feature(f)) = ApprovalMerge(d, a, f)
      BY <1>2 DEF MovedTo, once
    <2>3. CurrentText(once, Approval(a)) = CurrentText(d, Approval(a))
      BY <2>1, PartitionNames, LayerNamesDiffer, OthersRead
    <2>4. BaselineText(once, Feature(f)) = BaselineText(d, Feature(f))
      <3>1. Baseline(d, Feature(f)) \in Stored(d)
        BY PartitionNames, PointersAreStored
      <3> QED BY <2>1, <3>1, PartitionNames, LaterTexts DEF Follows, Later, BaselineText
    <2>5. ApprovalMerge(once, a, f) = CurrentText(once, Feature(f))
      BY <2>2, <2>3, <2>4, MergeSettles DEF ApprovalMerge
    <2>6. MergeApprovalIntoFeature(once, a, f) =
            MergeInto(once, Feature(f),
                      <<once.pointer[Feature(f)], once.pointer[Approval(a)],
                        Baseline(once, Feature(f))>>,
                      Baseline(once, Feature(f)), once.pointer[Approval(a)],
                      once.pointer[Feature(f)], Agent(a))
      BY DEF MergeApprovalIntoFeature
    <2>7. MergeApprovalIntoFeature(once, a, f) = once
      BY <2>5, <2>6 DEF MergeInto, ApprovalMerge, CurrentText, BaselineText
    <2> QED BY <2>7 DEF once
  <1> QED BY <1>1, <1>2, ApprovalMoves

-----------------------------------------------------------------------------
(* No approval partition but those of S has lost history rows from d to e.   *)
Grown(d, e, S) ==
    \A a \in Agents \ S : Len(e.history[Approval(a)]) >= Len(d.history[Approval(a)])

LEMMA HistoryLengths ==
    ASSUME NEW d, WellFormed(d), NEW p \in Partitions
    PROVE  d.history[p] \in Seq(Nat) /\ Len(d.history[p]) \in Nat
PROOF
  BY DEF WellFormed, Databases

LEMMA GrownTransitive ==
    ASSUME NEW d, NEW e, NEW g, WellFormed(d), WellFormed(e), WellFormed(g), NEW S,
           Grown(d, e, {}), Grown(e, g, S)
    PROVE  Grown(d, g, S)
PROOF
  <1> SUFFICES ASSUME NEW a \in Agents \ S
               PROVE  Len(g.history[Approval(a)]) >= Len(d.history[Approval(a)])
    BY DEF Grown
  <1>1. /\ Len(g.history[Approval(a)]) \in Nat
        /\ Len(e.history[Approval(a)]) \in Nat
        /\ Len(d.history[Approval(a)]) \in Nat
    BY PartitionNames, HistoryLengths
  <1>2. /\ Len(g.history[Approval(a)]) >= Len(e.history[Approval(a)])
        /\ Len(e.history[Approval(a)]) >= Len(d.history[Approval(a)])
    BY DEF Grown
  <1> QED BY <1>1, <1>2

LEMMA GrownReflexive ==
    ASSUME NEW d, WellFormed(d), NEW S
    PROVE  Grown(d, d, S)
PROOF
  BY PartitionNames, HistoryLengths DEF Grown

(* A partition that moves on gains a row, one that is created its first, and *)
(* one that is reset is the only one to lose any.                            *)
LEMMA MovesGrow ==
    ASSUME NEW d, WellFormed(d), NEW e, WellFormed(e), NEW p \in Partitions, Moved(d, e, p)
    PROVE  Grown(d, e, {}) /\ Len(e.history[p]) = Len(d.history[p]) + 1
PROOF
  <1>1. Len(e.history[p]) = Len(d.history[p]) + 1 /\ Len(d.history[p]) \in Nat
    BY HistoryLengths DEF Moved
  <1>2. ASSUME NEW a \in Agents
        PROVE  Len(e.history[Approval(a)]) >= Len(d.history[Approval(a)])
    <2>1. Len(d.history[Approval(a)]) \in Nat
      BY PartitionNames, HistoryLengths
    <2>2. CASE Approval(a) = p
      BY <1>1, <2>2
    <2>3. CASE Approval(a) # p
      <3>1. e.history[Approval(a)] = d.history[Approval(a)]
        BY <2>3, PartitionNames DEF Moved
      <3> QED BY <2>1, <3>1
    <2> QED BY <2>2, <2>3
  <1> QED BY <1>1, <1>2 DEF Grown

LEMMA UpdateMoves ==
    ASSUME NEW d, WellFormed(d), NEW p \in Partitions, NEW id
    PROVE  Moved(d, UpdatePointer(d, p, id), p)
PROOF
  <1>1. /\ d \in Databases
        /\ d.pointer \in [Partitions -> Nat] /\ d.history \in [Partitions -> Seq(Nat)]
    BY DEF WellFormed, Databases
  <1> DEFINE e == UpdatePointer(d, p, id)
  <1>2. /\ e.pointer = [d.pointer EXCEPT ![p] = id]
        /\ e.history = [d.history EXCEPT ![p] = Append(@, id)]
    BY <1>1 DEF UpdatePointer, Databases
  <1> HIDE DEF e
  <1>3. Moved(d, e, p)
    BY <1>1, <1>2 DEF Moved
  <1> QED BY <1>3 DEF e

LEMMA EnsureGrows ==
    ASSUME NEW d, WellFormed(d), NEW p \in Partitions, NEW id \in Stored(d)
    PROVE  /\ Grown(d, Ensure(d, p, id), {})
           /\ Ensure(d, p, id).snaps = d.snaps
           /\ \A q \in Partitions : q # p \/ Exists(d, p) =>
                 /\ Ensure(d, p, id).pointer[q] = d.pointer[q]
                 /\ Ensure(d, p, id).history[q] = d.history[q]
PROOF
  <1>1. CASE Exists(d, p)
    BY <1>1, GrownReflexive DEF Ensure
  <1>2. CASE ~ Exists(d, p)
    <2> DEFINE e == Ensure(d, p, id)
    <2>1. /\ d \in Databases
          /\ d.pointer \in [Partitions -> Nat] /\ d.history \in [Partitions -> Seq(Nat)]
      BY DEF WellFormed, Databases
    <2>2. /\ e.pointer = [d.pointer EXCEPT ![p] = id]
          /\ e.history = [d.history EXCEPT ![p] = <<id>>]
          /\ e.snaps = d.snaps
      BY <1>2, <2>1 DEF Ensure, Databases
    <2> HIDE DEF e
    <2>3. \A q \in Partitions \ {p} : e.pointer[q] = d.pointer[q] /\ e.history[q] = d.history[q]
      BY <2>1, <2>2
    <2>4. d.history[p] = << >> /\ e.history[p] = <<id>>
      BY <1>2, <2>1, <2>2 DEF WellFormed, PointerIsLastRow
    <2>5. ASSUME NEW a \in Agents
          PROVE  Len(e.history[Approval(a)]) >= Len(d.history[Approval(a)])
      <3>1. Len(d.history[Approval(a)]) \in Nat
        BY PartitionNames, HistoryLengths
      <3> QED BY <2>3, <2>4, <3>1, PartitionNames
    <2> QED BY <1>2, <2>2, <2>3, <2>5 DEF Grown, e
  <1> QED BY <1>1, <1>2

LEMMA ResetShrinksOne ==
    ASSUME NEW d, WellFormed(d), NEW a \in Agents
    PROVE  /\ Grown(d, ResetToBaseline(d, Approval(a)), {a})
           /\ ResetToBaseline(d, Approval(a)).snaps = d.snaps
           /\ \A q \in Partitions \ {Approval(a)} :
                 /\ ResetToBaseline(d, Approval(a)).pointer[q] = d.pointer[q]
                 /\ ResetToBaseline(d, Approval(a)).history[q] = d.history[q]
PROOF
  <1> DEFINE e == ResetToBaseline(d, Approval(a))
             baseline == Baseline(d, Approval(a))
  <1>1. /\ d \in Databases
        /\ d.pointer \in [Partitions -> Nat] /\ d.history \in [Partitions -> Seq(Nat)]
    BY DEF WellFormed, Databases
  <1>2. /\ e.pointer = [d.pointer EXCEPT ![Approval(a)] = baseline]
        /\ e.history = [d.history EXCEPT ![Approval(a)] = <<baseline>>]
        /\ e.snaps = d.snaps
    BY <1>1 DEF ResetToBaseline, Databases
  <1> HIDE DEF e, baseline
  <1>3. \A q \in Partitions \ {Approval(a)} :
            e.pointer[q] = d.pointer[q] /\ e.history[q] = d.history[q]
    BY <1>1, <1>2
  <1>4. ASSUME NEW x \in Agents \ {a}
        PROVE  Len(e.history[Approval(x)]) >= Len(d.history[Approval(x)])
    <2>1. Len(d.history[Approval(x)]) \in Nat
      BY PartitionNames, HistoryLengths
    <2>2. e.history[Approval(x)] = d.history[Approval(x)]
      BY <1>3, PartitionNames, LayerNamesDiffer
    <2> QED BY <2>1, <2>2
  <1> QED BY <1>2, <1>3, <1>4 DEF Grown, e

(* The approval partitions that exist in d, but those of S, point where they *)
(* did.                                                                      *)
Holds(d, e, S) ==
    \A a \in Agents \ S : Exists(d, Approval(a)) =>
        Exists(e, Approval(a)) /\ e.pointer[Approval(a)] = d.pointer[Approval(a)]

LEMMA HoldsTransitive ==
    ASSUME NEW d, NEW e, NEW g, NEW S, Holds(d, e, S), Holds(e, g, S)
    PROVE  Holds(d, g, S)
PROOF
  BY DEF Holds

LEMMA MovesHold ==
    ASSUME NEW d, NEW e, Follows(d, e), NEW p \in Partitions, Moved(d, e, p), NEW S,
           \A a \in Agents \ S : Approval(a) # p
    PROVE  Holds(d, e, S)
PROOF
  BY PartitionNames DEF Holds, Moved, Follows, Later

LEMMA EnsureHolds ==
    ASSUME NEW d, WellFormed(d), NEW p \in Partitions, NEW id \in Stored(d)
    PROVE  Holds(d, Ensure(d, p, id), {})
PROOF
  BY PartitionNames, EnsureKeeps, EnsureGrows DEF Holds, Later

LEMMA ResetHolds ==
    ASSUME NEW d, WellFormed(d), NEW a \in Agents, Exists(d, Approval(a))
    PROVE  Holds(d, ResetToBaseline(d, Approval(a)), {a})
PROOF
  <1>1. Later(d, ResetToBaseline(d, Approval(a)))
    BY PartitionNames, ResetKeeps
  <1> QED BY <1>1, PartitionNames, LayerNamesDiffer, ResetShrinksOne DEF Holds, Later

LEMMA ApprovalHolds ==
    ASSUME NEW d, WellFormed(d), NEW a \in Agents, NEW f \in Features, Exists(d, Approval(a))
    PROVE  Holds(d, MergeAgentToFeature(d, a, f), {a})
PROOF
  <1> DEFINE ensured == Ensure(d, Feature(f), Baseline(d, Approval(a)))
             merged == MergeApprovalIntoFeature(ensured, a, f)
             reset == ResetToBaseline(merged, Approval(a))
  <1>1. Baseline(d, Approval(a)) \in Stored(d)
    BY PartitionNames, PointersAreStored
  <1>2. /\ WellFormed(ensured) /\ Exists(ensured, Feature(f)) /\ Exists(ensured, Approval(a))
        /\ Holds(d, ensured, {})
    BY <1>1, PartitionNames, EnsureKeeps, EnsureHolds DEF Later
  <1>3. MergeAgentToFeature(d, a, f) = IF merged = ensured THEN ensured ELSE reset
    BY DEF MergeAgentToFeature
  <1> HIDE DEF ensured
  <1>4. merged = ensured \/ MovedTo(ensured, merged, Feature(f), ApprovalMerge(ensured, a, f))
    BY <1>2, ApprovalMoves
  <1> HIDE DEF merged
  <1>5. CASE merged = ensured
    BY <1>2, <1>3, <1>5 DEF Holds
  <1>6. CASE merged # ensured
    <2>1. Follows(ensured, merged) /\ Moved(ensured, merged, Feature(f))
      BY <1>4, <1>6 DEF MovedTo
    <2>2. Holds(ensured, merged, {})
      BY <2>1, PartitionNames, LayerNamesDiffer, MovesHold
    <2>3. WellFormed(merged) /\ Exists(merged, Approval(a))
      BY <1>2, <2>1, PartitionNames DEF Follows, Later
    <2>4. Holds(merged, reset, {a})
      BY <2>3, ResetHolds
    <2> HIDE DEF reset
    <2> QED BY <1>2, <1>3, <1>6, <2>2, <2>4 DEF Holds
  <1> QED BY <1>5, <1>6

(* Every line of the submission reached the feature, or is the line the      *)
(* feature started from.                                                     *)
Lands(d, e, a, f) ==
    ReadsBack(e, Feature(f)) =>
        \A r \in Regions :
            CurrentText(d, Approval(a))[r] \in
                {BaselineText(e, Feature(f))[r], CurrentText(e, Feature(f))[r]}

(* An approval takes no other agent's submission off the list, and its own   *)
(* only when it has landed.                                                  *)
LEMMA ApprovalAnswers ==
    ASSUME NEW d, WellFormed(d), NEW a \in Agents, NEW f \in Features, Exists(d, Approval(a)),
           NEW e, e = MergeAgentToFeature(d, a, f)
    PROVE  /\ Grown(d, e, {a})
           /\ Pending(d, a) /\ ~ Pending(e, a) => Lands(d, e, a, f)
PROOF
  <1> DEFINE ensured == Ensure(d, Feature(f), Baseline(d, Approval(a)))
             merged == MergeApprovalIntoFeature(ensured, a, f)
             reset == ResetToBaseline(merged, Approval(a))
  <1>1. /\ Feature(f) \in Partitions /\ Approval(a) \in Partitions
        /\ Approval(a) # Feature(f)
        /\ Baseline(d, Approval(a)) \in Stored(d) /\ d.pointer[Approval(a)] \in Stored(d)
    BY PartitionNames, LayerNamesDiffer, PointersAreStored
  <1>2. /\ WellFormed(ensured) /\ Later(d, ensured) /\ Exists(ensured, Feature(f))
        /\ Grown(d, ensured, {})
        /\ ensured.pointer[Approval(a)] = d.pointer[Approval(a)]
        /\ ensured.history[Approval(a)] = d.history[Approval(a)]
    BY <1>1, EnsureKeeps, EnsureGrows
  <1>3. Exists(ensured, Approval(a))
    BY <1>1, <1>2 DEF Later
  <1>4. \/ merged = ensured
        \/ MovedTo(ensured, merged, Feature(f), ApprovalMerge(ensured, a, f))
    <2> HIDE DEF ensured
    <2> QED BY <1>2, <1>3, ApprovalMoves
  <1>5. e = IF merged = ensured THEN ensured ELSE reset
    BY DEF MergeAgentToFeature
  <1>6. CurrentText(ensured, Approval(a)) = CurrentText(d, Approval(a))
    BY <1>1, <1>2, LaterTexts DEF CurrentText
  <1> HIDE DEF ensured, merged
  <1>7. CASE merged = ensured
    <2>1. Grown(ensured, ensured, {a})
      BY <1>2, GrownReflexive
    <2>2. Grown(d, e, {a})
      BY <1>2, <1>5, <1>7, <2>1, GrownTransitive
    <2> QED BY <1>2, <1>5, <1>7, <2>2 DEF Pending
  <1>8. CASE merged # ensured
    <2>1. MovedTo(ensured, merged, Feature(f), ApprovalMerge(ensured, a, f))
      BY <1>4, <1>8
    <2>2. WellFormed(merged) /\ Later(ensured, merged) /\ Moved(ensured, merged, Feature(f))
      BY <2>1 DEF MovedTo, Follows
    <2>3. Exists(merged, Approval(a)) /\ Exists(merged, Feature(f))
      BY <1>1, <1>2, <1>3, <2>2 DEF Later
    <2>4. e = reset
      BY <1>5, <1>8
    <2>5. /\ Grown(merged, e, {a}) /\ e.snaps = merged.snaps
          /\ e.pointer[Feature(f)] = merged.pointer[Feature(f)]
          /\ e.history[Feature(f)] = merged.history[Feature(f)]
      BY <1>1, <2>2, <2>4, ResetShrinksOne
    <2>6. WellFormed(e)
      BY <1>1, <2>2, <2>3, <2>4, ResetKeeps
    <2> HIDE DEF reset
    <2>7. Grown(d, e, {a})
      <3>1. Grown(ensured, merged, {})
        BY <1>1, <1>2, <2>2, MovesGrow
      <3>2. Grown(d, merged, {})
        BY <1>2, <2>2, <3>1, GrownTransitive
      <3> QED BY <2>2, <2>5, <2>6, <3>2, GrownTransitive
    <2>8. /\ CurrentText(e, Feature(f)) = CurrentText(merged, Feature(f))
          /\ BaselineText(e, Feature(f)) = BaselineText(merged, Feature(f))
          /\ ReadsBack(e, Feature(f)) => ReadsBack(merged, Feature(f))
      BY <2>5 DEF CurrentText, BaselineText, TextOf, Baseline, ReadsBack
    <2>9. BaselineText(merged, Feature(f)) = BaselineText(ensured, Feature(f))
      <3>1. Baseline(merged, Feature(f)) = Baseline(ensured, Feature(f))
        BY <1>1, <1>2, <2>2 DEF Later
      <3>2. Baseline(ensured, Feature(f)) \in Stored(ensured)
        BY <1>1, <1>2, PointersAreStored
      <3> QED BY <2>2, <3>1, <3>2, LaterTexts DEF BaselineText
    <2>10. Lands(d, e, a, f)
      <3> SUFFICES ASSUME ReadsBack(e, Feature(f)), NEW r \in Regions
                   PROVE  CurrentText(d, Approval(a))[r] \in
                            {BaselineText(e, Feature(f))[r], CurrentText(e, Feature(f))[r]}
        BY DEF Lands
      <3>1. CurrentText(e, Feature(f)) = ApprovalMerge(ensured, a, f)
        BY <2>1, <2>8 DEF MovedTo
      <3>2. ApprovalMerge(ensured, a, f)[r] =
              IF CurrentText(d, Approval(a))[r] = BaselineText(e, Feature(f))[r]
              THEN CurrentText(ensured, Feature(f))[r]
              ELSE CurrentText(d, Approval(a))[r]
        BY <1>6, <2>8, <2>9 DEF ApprovalMerge, Merge
      <3> QED BY <3>1, <3>2
    <2> QED BY <2>7, <2>10
  <1> QED BY <1>7, <1>8

-----------------------------------------------------------------------------
(* Between which layers changes flow                                         *)

TypeAt(d, id) == d.snaps[id].type

(* NoCrossLayerFlow, and what it takes to keep it.                           *)
Layered(d) ==
    /\ \A i \in Stored(d) : \A k \in 1..Len(ParentsOf(d, i)) :
          TypeAt(d, ParentsOf(d, i)[k]) \in MadeOf(TypeAt(d, i))
    /\ \A i \in Stored(d) : ParentsOf(d, i) # << >> =>
          TypeAt(d, ParentsOf(d, i)[1]) \in MayHold(TypeAt(d, i))
    /\ \A p \in Partitions : \A i \in 1..Len(d.history[p]) :
          TypeAt(d, d.history[p][i]) \in MayHold(p)
    /\ \A p \in Partitions : Exists(d, p) => TypeAt(d, Baseline(d, p)) \in Ground

Sound(d) == WellFormed(d) /\ Layered(d)

-----------------------------------------------------------------------------
(* The types spelled out: each layer may be made of its own and of the one   *)
(* before it, and of what it can have been created on.                       *)
LEMMA MadeOfLayers ==
    /\ MadeOf(Manual) = {Initial, Manual}
    /\ MadeOf(Staged) = Ground \cup {Feature(f) : f \in Features}
    /\ \A a \in Agents : MadeOf(Agent(a)) = Ground \cup {Agent(a)}
    /\ \A a \in Agents : MadeOf(Approval(a)) = Ground \cup {Approval(a), Agent(a)}
    /\ \A f \in Features :
          MadeOf(Feature(f)) = Ground \cup {Feature(f)} \cup {Approval(a) : a \in Agents}
    /\ MadeOf(Initial) = {}
PROOF
  <1>1. /\ Manual[1] = "manual" /\ Staged[1] = "staged" /\ Initial[1] = "initial"
        /\ \A a \in Agents : Agent(a)[1] = "agent"
        /\ \A a \in Agents : Approval(a)[1] = "approval" /\ Approval(a)[2] = a
        /\ \A f \in Features : Feature(f)[1] = "integrated"
    BY DEF Manual, Staged, Initial, Agent, Approval, Feature
  <1> QED BY <1>1 DEF MadeOf

LEMMA HeldTypes ==
    /\ MayHold(Manual) = {Initial, Manual}
    /\ MayHold(Staged) = Ground
    /\ MayHold(Initial) = Ground
    /\ \A a \in Agents : MayHold(Agent(a)) = Ground \cup {Agent(a)}
    /\ \A a \in Agents : MayHold(Approval(a)) = Ground \cup {Approval(a)}
    /\ \A f \in Features : MayHold(Feature(f)) = Ground \cup {Feature(f)}
    /\ \A p \in Partitions : p \in MayHold(p)
    /\ \A p \in Partitions : p # Manual => Ground \subseteq MayHold(p)
PROOF
  <1>1. /\ Staged # Manual /\ Initial # Manual
        /\ \A a \in Agents : Agent(a) # Manual /\ Approval(a) # Manual
        /\ \A f \in Features : Feature(f) # Manual
    BY DEF Manual, Staged, Initial, Agent, Approval, Feature
  <1> QED BY <1>1 DEF MayHold, Ground

(* What a partition that exists points at.                                   *)
LEMMA HeldIsAllowed ==
    ASSUME NEW d, Sound(d), NEW p \in Partitions, Exists(d, p)
    PROVE  /\ TypeAt(d, d.pointer[p]) \in MayHold(p)
           /\ TypeAt(d, Baseline(d, p)) \in Ground
PROOF
  <1>1. Len(d.history[p]) \in Nat \ {0}
    BY PointersAreStored DEF Sound
  <1>2. d.pointer[p] = d.history[p][Len(d.history[p])]
    BY DEF Sound, WellFormed, PointerIsLastRow
  <1> QED BY <1>1, <1>2 DEF Sound, Layered

-----------------------------------------------------------------------------
(* The database init leaves                                                  *)

LEMMA InitSnapshotType == InitSnapshot \in Snapshots
PROOF
  <1> DEFINE delta == [file |-> [path |-> InitPath, base |-> InitText],
                       diff |-> [r \in Regions |-> Keep], source |-> Manual]
  <1>1. delta \in Deltas
    BY InitAssumption, PartitionNames DEF Deltas, FileNodes, Diff
  <1>2. InitSnapshot = [deltas |-> <<delta>>, parents |-> << >>,
                        type |-> Initial, conflicts |-> FALSE]
    BY DEF InitSnapshot
  <1>3. <<delta>> \in Seq(Deltas) /\ << >> \in Seq(Nat)
    BY <1>1
  <1> HIDE DEF delta
  <1> QED BY <1>2, <1>3 DEF Snapshots

LEMMA InitDatabaseSound == Sound(InitDatabase)
PROOF
  <1>1. PICK d : d = InitDatabase
    OBVIOUS
  <1>2. /\ d.snaps = <<InitSnapshot>>
        /\ d.pointer = [p \in Partitions |-> IF p \in {Manual, Staged} THEN 1 ELSE NoSnap]
        /\ d.history = [p \in Partitions |-> IF p \in {Manual, Staged} THEN <<1>> ELSE << >>]
    BY <1>1 DEF InitDatabase
  <1>3. d \in Databases
    <2>1. <<InitSnapshot>> \in Seq(Snapshots)
      BY InitSnapshotType
    <2>2. /\ [p \in Partitions |-> IF p \in {Manual, Staged} THEN 1 ELSE NoSnap] \in [Partitions -> Nat]
          /\ [p \in Partitions |-> IF p \in {Manual, Staged} THEN <<1>> ELSE << >>]
                \in [Partitions -> Seq(Nat)]
      BY DEF NoSnap
    <2> QED BY <1>1, <2>1, <2>2 DEF InitDatabase, Databases
  <1>4. Stored(d) = {1} /\ ParentsOf(d, 1) = << >> /\ TypeAt(d, 1) = Initial
    BY <1>2 DEF Stored, ParentsOf, TypeAt, InitSnapshot
  <1>5. PointerIsLastRow(d)
    BY <1>2, <1>4 DEF PointerIsLastRow, Exists, NoSnap
  <1>6. SnapshotGraph(d)
    BY <1>2, <1>4 DEF SnapshotGraph, InitSnapshot
  <1>7. Exists(d, Manual) /\ Exists(d, Staged)
    BY <1>2, PartitionNames DEF Exists, NoSnap
  <1>8. \A p \in Partitions : \A i \in 1..Len(d.history[p]) :
            TypeAt(d, d.history[p][i]) \in MayHold(p)
    <2> SUFFICES ASSUME NEW p \in {Manual, Staged} PROVE Initial \in MayHold(p)
      BY <1>2, <1>4
    <2> QED BY HeldTypes DEF Ground
  <1>9. \A p \in Partitions : Exists(d, p) => TypeAt(d, Baseline(d, p)) \in Ground
    BY <1>2, <1>4 DEF Exists, Baseline, Ground
  <1>10. Layered(d)
    BY <1>4, <1>8, <1>9 DEF Layered
  <1> QED BY <1>1, <1>3, <1>5, <1>6, <1>7, <1>10 DEF Sound, WellFormed

-----------------------------------------------------------------------------
(* The storage calls                                                         *)

(* A write to one partition: a history of rows it may hold, that keeps the   *)
(* baseline or starts one.                                                   *)
Allowed(d, p, id, h) ==
    /\ p \in Partitions
    /\ id \in Stored(d)
    /\ h \in Seq(Nat) /\ h # << >> /\ h[Len(h)] = id
    /\ \A i \in 1..Len(h) : h[i] \in Stored(d) /\ TypeAt(d, h[i]) \in MayHold(p)
    /\ Exists(d, p) => h[1] = Baseline(d, p)
    /\ TypeAt(d, h[1]) \in Ground

LEMMA WriteSound ==
    ASSUME NEW d, Sound(d), NEW e, NEW p, NEW id, NEW h, Allowed(d, p, id, h),
           e = [d EXCEPT !.pointer[p] = id, !.history[p] = h]
    PROVE  Sound(e)
PROOF
  <1>0. /\ WellFormed(d) /\ d \in Databases
        /\ p \in Partitions /\ id \in Stored(d) /\ h \in Seq(Nat) /\ h # << >>
        /\ h[Len(h)] = id
        /\ \A i \in 1..Len(h) : h[i] \in Stored(d)
        /\ Exists(d, p) => h[1] = Baseline(d, p)
    BY DEF Allowed, Sound, WellFormed
  <1>1. WellFormed(e)
    BY <1>0, PartitionWriteKeeps
  <1>2. /\ e.snaps = d.snaps
        /\ e.pointer = [d.pointer EXCEPT ![p] = id]
        /\ e.history = [d.history EXCEPT ![p] = h]
        /\ d.pointer \in [Partitions -> Nat]
        /\ d.history \in [Partitions -> Seq(Nat)]
    BY <1>0 DEF Databases
  <1>3. e.history[p] = h /\ e.pointer[p] = id
    BY <1>0, <1>2
  <1>4. \A q \in Partitions \ {p} : e.history[q] = d.history[q] /\ e.pointer[q] = d.pointer[q]
    BY <1>2
  <1>5. Stored(e) = Stored(d) /\ \A i : TypeAt(e, i) = TypeAt(d, i) /\ ParentsOf(e, i) = ParentsOf(d, i)
    BY <1>2 DEF Stored, TypeAt, ParentsOf
  <1>6. \A q \in Partitions : \A i \in 1..Len(e.history[q]) :
            TypeAt(e, e.history[q][i]) \in MayHold(q)
    <2> SUFFICES ASSUME NEW q \in Partitions, NEW i \in 1..Len(e.history[q])
                 PROVE  TypeAt(e, e.history[q][i]) \in MayHold(q)
      OBVIOUS
    <2>1. CASE q = p
      BY <1>3, <1>5, <2>1 DEF Allowed
    <2>2. CASE q # p
      BY <1>4, <1>5, <2>2 DEF Sound, Layered
    <2> QED BY <2>1, <2>2
  <1>7. \A q \in Partitions : Exists(e, q) => TypeAt(e, Baseline(e, q)) \in Ground
    <2> SUFFICES ASSUME NEW q \in Partitions, Exists(e, q)
                 PROVE  TypeAt(e, Baseline(e, q)) \in Ground
      OBVIOUS
    <2>1. CASE q = p
      <3>1. Baseline(e, q) = h[1]
        BY <1>0, <1>3, <2>1 DEF Baseline
      <3> QED BY <1>5, <3>1 DEF Allowed
    <2>2. CASE q # p
      <3>1. Baseline(e, q) = Baseline(d, q) /\ Exists(d, q)
        BY <1>4, <2>2 DEF Baseline, Exists
      <3> QED BY <1>5, <3>1 DEF Sound, Layered
    <2> QED BY <2>1, <2>2
  <1>8. Layered(e)
    BY <1>5, <1>6, <1>7 DEF Sound, Layered
  <1> QED BY <1>1, <1>8 DEF Sound

LEMMA UpdatePointerSound ==
    ASSUME NEW d, Sound(d), NEW p \in Partitions, Exists(d, p),
           NEW id \in Stored(d), TypeAt(d, id) \in MayHold(p)
    PROVE  Sound(UpdatePointer(d, p, id))
PROOF
  <1> DEFINE h == Append(d.history[p], id)
  <1>1. /\ d.history[p] \in Seq(Nat)
        /\ Len(d.history[p]) \in Nat \ {0}
        /\ id \in Nat
    BY PointersAreStored DEF Sound, Stored
  <1>2. /\ h \in Seq(Nat) /\ h # << >>
        /\ Len(h) = Len(d.history[p]) + 1
        /\ h[Len(h)] = id
        /\ \A i \in 1..Len(d.history[p]) : h[i] = d.history[p][i]
    BY <1>1
  <1>3. \A i \in 1..Len(d.history[p]) :
            d.history[p][i] \in Stored(d) /\ TypeAt(d, d.history[p][i]) \in MayHold(p)
    BY DEF Sound, WellFormed, PointerIsLastRow, Layered
  <1>4. h[1] = Baseline(d, p)
    BY <1>1, <1>2 DEF Baseline
  <1> HIDE DEF h
  <1>5. \A i \in 1..Len(h) : h[i] \in Stored(d) /\ TypeAt(d, h[i]) \in MayHold(p)
    <2> SUFFICES ASSUME NEW i \in 1..Len(h)
                 PROVE  h[i] \in Stored(d) /\ TypeAt(d, h[i]) \in MayHold(p)
      OBVIOUS
    <2>1. CASE i = Len(h)
      BY <1>2, <2>1
    <2>2. CASE i # Len(h)
      <3>1. i \in 1..Len(d.history[p])
        BY <1>1, <1>2, <2>2
      <3> QED BY <1>2, <1>3, <3>1
    <2> QED BY <2>1, <2>2
  <1>6. Allowed(d, p, id, h)
    BY <1>2, <1>4, <1>5, HeldIsAllowed DEF Allowed
  <1> QED BY <1>6, WriteSound DEF UpdatePointer, h

LEMMA EnsureSound ==
    ASSUME NEW d, Sound(d), NEW p \in Partitions \ {Manual},
           NEW id \in Stored(d), TypeAt(d, id) \in Ground
    PROVE  Sound(Ensure(d, p, id))
PROOF
  <1>1. CASE Exists(d, p)
    BY <1>1 DEF Ensure
  <1>2. CASE ~ Exists(d, p)
    <2>1. id \in Nat /\ TypeAt(d, id) \in MayHold(p)
      BY HeldTypes DEF Stored
    <2>2. Allowed(d, p, id, <<id>>)
      BY <1>2, <2>1 DEF Allowed
    <2> QED BY <1>2, <2>2, WriteSound DEF Ensure
  <1> QED BY <1>1, <1>2

LEMMA ResetSound ==
    ASSUME NEW d, Sound(d), NEW p \in Partitions, Exists(d, p)
    PROVE  Sound(ResetToBaseline(d, p))
PROOF
  <1> DEFINE id == Baseline(d, p)
  <1>1. id \in Stored(d) /\ Len(d.history[p]) \in Nat \ {0}
    BY PointersAreStored DEF Sound
  <1>2. id = d.history[p][1]
    BY <1>1, PointersAreStored DEF Baseline, Sound
  <1>3. TypeAt(d, id) \in MayHold(p) /\ TypeAt(d, id) \in Ground
    BY <1>1, <1>2, HeldIsAllowed DEF Sound, Layered
  <1> HIDE DEF id
  <1>4. Allowed(d, p, id, <<id>>)
    BY <1>1, <1>3 DEF Allowed, Stored, id
  <1> QED BY <1>4, WriteSound DEF ResetToBaseline, id

(* A snapshot made of what its type may be made of.                          *)
Fits(d, s) ==
    /\ Storable(d, s)
    /\ \A k \in 1..Len(s.parents) : TypeAt(d, s.parents[k]) \in MadeOf(s.type)
    /\ s.parents # << >> => TypeAt(d, s.parents[1]) \in MayHold(s.type)

LEMMA StoreSound ==
    ASSUME NEW d, Sound(d), NEW s, Fits(d, s)
    PROVE  Sound(StoreSnapshot(d, s))
PROOF
  <1> DEFINE e == StoreSnapshot(d, s)
  <1>1. /\ WellFormed(e) /\ Later(d, e)
        /\ e.pointer = d.pointer /\ e.history = d.history
    BY StoreSnapshotKeeps DEF Sound, Fits
  <1>2. \A i \in Stored(e) : i \in Stored(d) \/ e.snaps[i] = s
    <2>1. CASE \E i \in DOMAIN d.snaps : d.snaps[i] = s
      BY <2>1 DEF StoreSnapshot
    <2>2. CASE ~ \E i \in DOMAIN d.snaps : d.snaps[i] = s
      <3>1. d.snaps \in Seq(Snapshots) /\ s \in Snapshots /\ d \in Databases
        BY DEF Sound, WellFormed, Databases, Fits, Storable
      <3>2. e.snaps = Append(d.snaps, s)
        BY <2>2, <3>1 DEF StoreSnapshot, Databases
      <3> QED BY <3>1, <3>2 DEF Stored
    <2> QED BY <2>1, <2>2
  <1>3. \A i \in Stored(d) : /\ i \in Stored(e)
                             /\ TypeAt(e, i) = TypeAt(d, i)
                             /\ ParentsOf(e, i) = ParentsOf(d, i)
    BY <1>1 DEF Later, TypeAt, ParentsOf
  <1>4. \A i \in Stored(d) : \A k \in 1..Len(ParentsOf(d, i)) : ParentsOf(d, i)[k] \in Stored(d)
    <2> SUFFICES ASSUME NEW i \in Stored(d), NEW k \in 1..Len(ParentsOf(d, i))
                 PROVE  ParentsOf(d, i)[k] \in Stored(d)
      OBVIOUS
    <2>1. ParentsOf(d, i)[k] \in 1..(i - 1)
      BY DEF Sound, WellFormed, SnapshotGraph, ParentsOf
    <2> QED BY <2>1 DEF Stored
  <1>5. \A i \in Stored(e) : \A k \in 1..Len(ParentsOf(e, i)) :
            TypeAt(e, ParentsOf(e, i)[k]) \in MadeOf(TypeAt(e, i))
    <2> SUFFICES ASSUME NEW i \in Stored(e), NEW k \in 1..Len(ParentsOf(e, i))
                 PROVE  TypeAt(e, ParentsOf(e, i)[k]) \in MadeOf(TypeAt(e, i))
      OBVIOUS
    <2>1. CASE i \in Stored(d)
      BY <1>3, <1>4, <2>1 DEF Sound, Layered
    <2>2. CASE e.snaps[i] = s
      BY <1>3, <2>2 DEF TypeAt, ParentsOf, Fits, Storable
    <2> QED BY <1>2, <2>1, <2>2
  <1>6. \A i \in Stored(e) : ParentsOf(e, i) # << >> =>
            TypeAt(e, ParentsOf(e, i)[1]) \in MayHold(TypeAt(e, i))
    <2> SUFFICES ASSUME NEW i \in Stored(e), ParentsOf(e, i) # << >>
                 PROVE  TypeAt(e, ParentsOf(e, i)[1]) \in MayHold(TypeAt(e, i))
      OBVIOUS
    <2>0. ParentsOf(e, i) \in Seq(Nat)
      BY <1>1, RowType DEF WellFormed, ParentsOf
    <2>1. 1 \in 1..Len(ParentsOf(e, i))
      BY <2>0
    <2>2. CASE i \in Stored(d)
      BY <1>3, <1>4, <2>1, <2>2 DEF Sound, Layered
    <2>3. CASE e.snaps[i] = s
      BY <1>3, <2>1, <2>3 DEF TypeAt, ParentsOf, Fits, Storable
    <2> QED BY <1>2, <2>2, <2>3
  <1>7. \A q \in Partitions : \A i \in 1..Len(e.history[q]) :
            TypeAt(e, e.history[q][i]) \in MayHold(q)
    <2> SUFFICES ASSUME NEW q \in Partitions, NEW i \in 1..Len(d.history[q])
                 PROVE  TypeAt(e, d.history[q][i]) \in MayHold(q)
      BY <1>1
    <2>1. d.history[q] \in Seq(Nat)
      BY DEF Sound, WellFormed, Databases
    <2>2. d.history[q] # << >>
      BY <2>1
    <2>3. d.history[q][i] \in Stored(d)
      BY <2>2 DEF Sound, WellFormed, PointerIsLastRow
    <2> QED BY <1>3, <2>3 DEF Sound, Layered
  <1>8. \A q \in Partitions : Exists(e, q) => TypeAt(e, Baseline(e, q)) \in Ground
    <2> SUFFICES ASSUME NEW q \in Partitions, Exists(e, q)
                 PROVE  TypeAt(e, Baseline(e, q)) \in Ground
      OBVIOUS
    <2>1. Exists(d, q) /\ Baseline(e, q) = Baseline(d, q)
      BY <1>1 DEF Exists, Baseline
    <2>2. Baseline(d, q) \in Stored(d)
      BY <2>1, PointersAreStored DEF Sound
    <2> QED BY <1>3, <2>1, <2>2 DEF Sound, Layered
  <1> QED BY <1>1, <1>5, <1>6, <1>7, <1>8 DEF Sound, Layered

LEMMA AdvanceSound ==
    ASSUME NEW d, Sound(d), NEW p \in Partitions, Exists(d, p),
           NEW s, Fits(d, s), s.type \in MayHold(p)
    PROVE  Sound(Advance(d, p, s))
PROOF
  <1> DEFINE e == StoreSnapshot(d, s)
             id == IdOf(e, s)
  <1>1. /\ Sound(e)
        /\ id \in Stored(e) /\ e.snaps[id] = s
        /\ e.pointer = d.pointer
    BY StoreSound, StoreSnapshotKeeps DEF Sound, Fits
  <1>2. Exists(e, p) /\ TypeAt(e, id) \in MayHold(p)
    BY <1>1 DEF Exists, TypeAt
  <1>3. Advance(d, p, s) = UpdatePointer(e, p, id)
    BY DEF Advance
  <1> HIDE DEF e, id
  <1> QED BY <1>1, <1>2, <1>3, UpdatePointerSound

-----------------------------------------------------------------------------
(* The operations of src/layered                                             *)

LEMMA ApplyEditSound ==
    ASSUME NEW d, Sound(d), NEW p \in {Manual} \cup {Agent(a) : a \in Agents}, Exists(d, p),
           NEW path \in Paths, NEW new \in Text
    PROVE  Sound(ApplyEdit(d, p, path, new))
PROOF
  <1>1. p \in Partitions /\ p \in BySource /\ MayHold(p) \subseteq MadeOf(p) /\ p \in MayHold(p)
    BY PartitionNames, MadeOfLayers, HeldTypes
  <1>2. PICK s : /\ Storable(d, s)
                 /\ s.type = p /\ s.parents = <<d.pointer[p]>>
                 /\ ApplyEdit(d, p, path, new) \in {d, Advance(d, p, s)}
    <2>1. WellFormed(d) /\ d \in Databases /\ d.pointer[p] \in Stored(d)
      BY <1>1, PointersAreStored DEF Sound, WellFormed
    <2> QED BY <1>1, <2>1, EditRow
  <1>3. TypeAt(d, d.pointer[p]) \in MayHold(p)
    BY <1>1, HeldIsAllowed
  <1>4. Fits(d, s)
    <2>1. Len(s.parents) = 1 /\ s.parents[1] = d.pointer[p]
      BY <1>2
    <2> QED BY <1>1, <1>2, <1>3, <2>1 DEF Fits
  <1> QED BY <1>1, <1>2, <1>4, AdvanceSound

(* Parents that a snapshot of the destination may be made of.                *)
Neighbours(d, dst, ids) ==
    /\ \A k \in 1..Len(ids) : TypeAt(d, ids[k]) \in MadeOf(dst)
    /\ TypeAt(d, ids[1]) \in MayHold(dst)

LEMMA MergeIntoSound ==
    ASSUME NEW d, NEW dst, NEW ids, NEW b, NEW o, NEW t, NEW source,
           Layered(d), Mergeable(d, dst, ids, b, o, t, source), Neighbours(d, dst, ids)
    PROVE  Sound(MergeInto(d, dst, ids, b, o, t, source))
PROOF
  <1>1. WellFormed(d) /\ dst \in Partitions /\ Exists(d, dst)
    BY DEF Mergeable
  <1>2. PICK s : /\ Storable(d, s)
                 /\ s.type = dst /\ s.parents = ids
                 /\ MergeInto(d, dst, ids, b, o, t, source) \in {d, Advance(d, dst, s)}
    <2>1. Sides(d, dst, ids, b, o, t, source)
      BY DEF Mergeable, Sides, WellFormed
    <2> QED BY <2>1, MergeRow
  <1>3. Fits(d, s)
    BY <1>2 DEF Fits, Neighbours
  <1> QED BY <1>1, <1>2, <1>3, HeldTypes, AdvanceSound DEF Sound

LEMMA MergeManualToStagedSound ==
    ASSUME NEW d, Sound(d)
    PROVE  Sound(MergeManualToStaged(d))
PROOF
  <1> DEFINE staged == d.pointer[Staged]
             manual == d.pointer[Manual]
             ids == <<staged, manual>>
  <1>1. /\ WellFormed(d) /\ Layered(d)
        /\ Staged \in Partitions /\ Manual \in Partitions
        /\ Exists(d, Staged) /\ Exists(d, Manual)
    BY PartitionNames DEF Sound, WellFormed
  <1>2. staged \in Stored(d) /\ manual \in Stored(d)
    BY <1>1, PointersAreStored
  <1>3. ids \in Seq(Nat) /\ Len(ids) = 2 /\ \A k \in 1..Len(ids) : ids[k] \in Stored(d)
    BY <1>2 DEF Stored
  <1>4. Mergeable(d, Staged, ids, staged, staged, manual, Manual)
    BY <1>1, <1>2, <1>3, PartitionNames DEF Mergeable
  <1>5. TypeAt(d, staged) \in Ground /\ TypeAt(d, manual) \in Ground
    BY <1>1, HeldIsAllowed, HeldTypes DEF Ground
  <1>6. Neighbours(d, Staged, ids)
    <2>1. Ground \subseteq MadeOf(Staged) /\ MayHold(Staged) = Ground
      BY MadeOfLayers, HeldTypes
    <2> QED BY <1>5, <2>1 DEF Neighbours
  <1> HIDE DEF ids
  <1>7. Sound(MergeInto(d, Staged, ids, staged, staged, manual, Manual))
    BY <1>1, <1>4, <1>6, MergeIntoSound
  <1> QED BY <1>7 DEF MergeManualToStaged, ids

LEMMA MoveAgentToApprovalSound ==
    ASSUME NEW d, Sound(d), NEW a \in Agents, Exists(d, Approval(a)), Exists(d, Agent(a))
    PROVE  Sound(MoveAgentToApproval(d, a))
PROOF
  <1> DEFINE approval == d.pointer[Approval(a)]
             agent == d.pointer[Agent(a)]
             baseline == Baseline(d, Approval(a))
             ids == <<approval, agent>>
  <1>1. /\ WellFormed(d) /\ Layered(d)
        /\ Approval(a) \in Partitions /\ Agent(a) \in Partitions
    BY PartitionNames DEF Sound
  <1>2. approval \in Stored(d) /\ agent \in Stored(d) /\ baseline \in Stored(d)
    BY <1>1, PointersAreStored
  <1>3. ids \in Seq(Nat) /\ Len(ids) = 2 /\ \A k \in 1..Len(ids) : ids[k] \in Stored(d)
    BY <1>2 DEF Stored
  <1>4. Mergeable(d, Approval(a), ids, baseline, approval, agent, Agent(a))
    BY <1>1, <1>2, <1>3, PartitionNames DEF Mergeable
  <1>5. TypeAt(d, approval) \in Ground \cup {Approval(a)} /\ TypeAt(d, agent) \in Ground \cup {Agent(a)}
    BY <1>1, HeldIsAllowed, HeldTypes
  <1>6. Neighbours(d, Approval(a), ids)
    <2>1. /\ MadeOf(Approval(a)) = Ground \cup {Approval(a), Agent(a)}
          /\ MayHold(Approval(a)) = Ground \cup {Approval(a)}
      BY MadeOfLayers, HeldTypes
    <2> QED BY <1>5, <2>1 DEF Neighbours
  <1> HIDE DEF ids
  <1>7. Sound(MergeInto(d, Approval(a), ids, baseline, approval, agent, Agent(a)))
    BY <1>1, <1>4, <1>6, MergeIntoSound
  <1> QED BY <1>7 DEF MoveAgentToApproval, ids

LEMMA MergeApprovalIntoFeatureSound ==
    ASSUME NEW d, Sound(d), NEW a \in Agents, NEW f \in Features,
           Exists(d, Approval(a)), Exists(d, Feature(f))
    PROVE  Sound(MergeApprovalIntoFeature(d, a, f))
PROOF
  <1> DEFINE approval == d.pointer[Approval(a)]
             feature == d.pointer[Feature(f)]
             baseline == Baseline(d, Feature(f))
             ids == <<feature, approval, baseline>>
  <1>1. /\ WellFormed(d) /\ Layered(d)
        /\ Approval(a) \in Partitions /\ Feature(f) \in Partitions
    BY PartitionNames DEF Sound
  <1>2. approval \in Stored(d) /\ feature \in Stored(d) /\ baseline \in Stored(d)
    BY <1>1, PointersAreStored
  <1>3. ids \in Seq(Nat) /\ Len(ids) = 3 /\ \A k \in 1..Len(ids) : ids[k] \in Stored(d)
    BY <1>2 DEF Stored
  <1>4. Mergeable(d, Feature(f), ids, baseline, approval, feature, Agent(a))
    BY <1>1, <1>2, <1>3, PartitionNames DEF Mergeable
  <1>5. /\ TypeAt(d, approval) \in Ground \cup {Approval(a)}
        /\ TypeAt(d, feature) \in Ground \cup {Feature(f)}
        /\ TypeAt(d, baseline) \in Ground
    BY <1>1, HeldIsAllowed, HeldTypes
  <1>6. Neighbours(d, Feature(f), ids)
    <2>1. /\ MadeOf(Feature(f)) = Ground \cup {Feature(f)} \cup {Approval(x) : x \in Agents}
          /\ MayHold(Feature(f)) = Ground \cup {Feature(f)}
      BY MadeOfLayers, HeldTypes
    <2> QED BY <1>5, <2>1 DEF Neighbours
  <1> HIDE DEF ids
  <1>7. Sound(MergeInto(d, Feature(f), ids, baseline, approval, feature, Agent(a)))
    BY <1>1, <1>4, <1>6, MergeIntoSound
  <1> QED BY <1>7 DEF MergeApprovalIntoFeature, ids

LEMMA MergeAgentToFeatureSound ==
    ASSUME NEW d, Sound(d), NEW a \in Agents, NEW f \in Features, Exists(d, Approval(a))
    PROVE  Sound(MergeAgentToFeature(d, a, f))
PROOF
  <1> DEFINE ensured == Ensure(d, Feature(f), Baseline(d, Approval(a)))
             merged == MergeApprovalIntoFeature(ensured, a, f)
  <1>1. WellFormed(d) /\ Approval(a) \in Partitions /\ Feature(f) \in Partitions \ {Manual}
    BY PartitionNames DEF Sound, Feature, Manual
  <1>2. Baseline(d, Approval(a)) \in Stored(d) /\ TypeAt(d, Baseline(d, Approval(a))) \in Ground
    BY <1>1, PointersAreStored, HeldIsAllowed
  <1>3. Sound(ensured) /\ Follows(d, ensured) /\ Exists(ensured, Feature(f))
    BY <1>1, <1>2, EnsureSound, EnsureKeeps DEF Follows
  <1>4. Exists(ensured, Approval(a))
    BY <1>1, <1>3 DEF Follows, Later
  <1>5. Sound(merged) /\ Follows(ensured, merged)
    BY <1>3, <1>4, MergeApprovalIntoFeatureSound, MergeApprovalIntoFeatureFollows DEF Sound
  <1>6. Exists(merged, Approval(a))
    BY <1>1, <1>4, <1>5 DEF Follows, Later
  <1>7. Sound(ResetToBaseline(merged, Approval(a)))
    BY <1>1, <1>5, <1>6, ResetSound
  <1>8. MergeAgentToFeature(d, a, f) \in {ensured, ResetToBaseline(merged, Approval(a))}
    BY DEF MergeAgentToFeature
  <1> HIDE DEF ensured, merged
  <1> QED BY <1>3, <1>7, <1>8

LEMMA MergeFeatureToStagedSound ==
    ASSUME NEW d, Sound(d), NEW f \in Features, Exists(d, Feature(f))
    PROVE  Sound(MergeFeatureToStaged(d, f))
PROOF
  <1> DEFINE staged == d.pointer[Staged]
             feature == d.pointer[Feature(f)]
             baseline == Baseline(d, Feature(f))
             ids == <<staged, feature>>
  <1>1. /\ WellFormed(d) /\ Layered(d)
        /\ Staged \in Partitions /\ Feature(f) \in Partitions /\ Exists(d, Staged)
    BY PartitionNames DEF Sound, WellFormed
  <1>2. staged \in Stored(d) /\ feature \in Stored(d) /\ baseline \in Stored(d)
    BY <1>1, PointersAreStored
  <1>3. ids \in Seq(Nat) /\ Len(ids) = 2 /\ \A k \in 1..Len(ids) : ids[k] \in Stored(d)
    BY <1>2 DEF Stored
  <1>4. Mergeable(d, Staged, ids, baseline, staged, feature, Manual)
    BY <1>1, <1>2, <1>3, PartitionNames DEF Mergeable
  <1>5. TypeAt(d, staged) \in Ground /\ TypeAt(d, feature) \in Ground \cup {Feature(f)}
    BY <1>1, HeldIsAllowed, HeldTypes
  <1>6. Neighbours(d, Staged, ids)
    <2>1. MadeOf(Staged) = Ground \cup {Feature(x) : x \in Features} /\ MayHold(Staged) = Ground
      BY MadeOfLayers, HeldTypes
    <2> QED BY <1>5, <2>1 DEF Neighbours
  <1> HIDE DEF ids
  <1>7. Sound(MergeInto(d, Staged, ids, baseline, staged, feature, Manual))
    BY <1>1, <1>4, <1>6, MergeIntoSound
  <1> QED BY <1>7 DEF MergeFeatureToStaged, ids
=============================================================================
